-------------------------- MODULE BinderRefsProofs --------------------------
(***************************************************************************)
(* Theorems about BinderRefs, for any processes, threads, objects, buffers *)
(* and claims.                                                             *)
(***************************************************************************)
EXTENDS BinderRefs, FiniteSetTheorems, SequenceTheorems, WellFoundedInduction, TLAPS

-----------------------------------------------------------------------------
(* Lists *)

\* r is q without its item at k.
Shrunk(q, r, k) ==
    /\ k \in 1 .. Len(q)
    /\ Len(r) = Len(q) - 1
    /\ \A i \in 1 .. Len(q) - 1 : r[i] = q[IF i < k THEN i ELSE i + 1]

\* A set of numbers that is not empty has a least one.
LEMMA MinIn ==
    ASSUME NEW S, S \subseteq Nat, S # {}
    PROVE  Min(S) \in S
<1>1. \E x \in S : \A y \in S : ~(<<y, x>> \in OpToRel(<, Nat))
  BY NatLessThanWellFounded, WFMin
<1>2. PICK x \in S : \A y \in S : ~(<<y, x>> \in OpToRel(<, Nat))
  BY <1>1
<1>3. \A y \in S : ~(y < x)
  BY <1>2 DEF OpToRel
<1>4. \A y \in S : x <= y
  BY <1>3
<1> QED BY <1>4 DEF Min

\* Taking an item off a list takes its first occurrence.
LEMMA ShrunkRemove ==
    ASSUME NEW S, NEW q \in Seq(S), NEW d
    PROVE  /\ RemoveFirst(q, d) \in Seq(S)
           /\ \/ RemoveFirst(q, d) = q /\ \A i \in DOMAIN q : q[i] # d
              \/ \E k \in DOMAIN q : q[k] = d /\ Shrunk(q, RemoveFirst(q, d), k)
<1> DEFINE n == Len(q)
<1>1. DOMAIN q = 1 .. n /\ n \in Nat /\ \A i \in 1 .. n : q[i] \in S
  OBVIOUS
<1>2. CASE ~\E i \in 1 .. n : q[i] = d
  BY <1>1, <1>2 DEF RemoveFirst
<1>3. CASE \E i \in 1 .. n : q[i] = d
  <2> DEFINE I == {i \in 1 .. n : q[i] = d}
  <2>1. I # {} /\ I \subseteq Nat
    BY <1>1, <1>3
  <2>2. PICK k \in I : k = Min(I)
    BY <2>1, MinIn
  <2>3. SelectInSeq(q, LAMBDA v : v = d) = k
    BY <2>1, <2>2 DEF SelectInSeq
  <2>0. k \in 1 .. n /\ q[k] = d
    OBVIOUS
  <2> HIDE DEF I
  <2> DEFINE r == RemoveAt(q, k)
  <2>4. RemoveFirst(q, d) = r
    BY <1>3, <2>3 DEF RemoveFirst
  <2> DEFINE a == SubSeq(q, 1, k - 1)
             b == SubSeq(q, k + 1, n)
  <2>5. /\ a \in Seq(S) /\ Len(a) = k - 1 /\ \A i \in 1 .. k - 1 : a[i] = q[i]
    <3>1. 1 \in Int /\ k - 1 \in Int /\ \A i \in 1 .. k - 1 : q[i] \in S
      BY <1>1, <2>0
    <3>2. /\ a \in Seq(S) /\ Len(a) = IF 1 <= k - 1 THEN k - 1 - 1 + 1 ELSE 0
          /\ \A i \in 1 .. k - 1 - 1 + 1 : a[i] = q[1 + i - 1]
      BY <3>1, SubSeqProperties
    <3> HIDE DEF a
    <3> QED BY <1>1, <2>0, <3>2
  <2>6. /\ b \in Seq(S) /\ Len(b) = n - k /\ \A i \in 1 .. n - k : b[i] = q[k + i]
    <3>1. k + 1 \in Int /\ n \in Int /\ \A i \in k + 1 .. n : q[i] \in S
      BY <1>1, <2>0
    <3>2. /\ b \in Seq(S) /\ Len(b) = IF k + 1 <= n THEN n - (k + 1) + 1 ELSE 0
          /\ \A i \in 1 .. n - (k + 1) + 1 : b[i] = q[k + 1 + i - 1]
      BY <3>1, SubSeqProperties
    <3> HIDE DEF b, n
    <3>3. ASSUME NEW i \in 1 .. n - k
          PROVE  b[i] = q[k + i]
      <4>1. i \in 1 .. n - (k + 1) + 1 /\ k + 1 + i - 1 = k + i
        BY <1>1, <2>0
      <4> QED BY <3>2, <4>1
    <3>4. Len(b) = n - k
      BY <1>1, <2>0, <3>2
    <3> QED BY <3>2, <3>3, <3>4
  <2>7. r = a \o b
    BY DEF RemoveAt
  <2> HIDE DEF a, b, r
  <2>8. r \in Seq(S) /\ Shrunk(q, r, k)
    <3> HIDE DEF n
    <3>1. /\ r \in Seq(S) /\ Len(r) = Len(a) + Len(b)
          /\ \A i \in 1 .. Len(a) + Len(b) : r[i] = IF i <= Len(a) THEN a[i] ELSE b[i - Len(a)]
      BY <2>5, <2>6, <2>7, ConcatProperties
    <3>2. ASSUME NEW i \in 1 .. n - 1
          PROVE r[i] = q[IF i < k THEN i ELSE i + 1]
      <4>1. CASE i < k
        BY <1>1, <2>0, <2>5, <2>6, <3>1, <4>1
      <4>2. CASE ~(i < k)
        <5>1. r[i] = b[i - Len(a)] /\ i - Len(a) \in 1 .. n - k /\ k + (i - Len(a)) = i + 1
          BY <1>1, <2>0, <2>5, <2>6, <3>1, <4>2
        <5> QED BY <2>6, <4>2, <5>1
      <4> QED BY <4>1, <4>2
    <3>3. Len(r) = n - 1
      BY <1>1, <2>0, <2>5, <2>6, <3>1
    <3> QED BY <2>0, <3>1, <3>2, <3>3 DEF Shrunk, n
  <2> QED BY <1>1, <2>0, <2>4, <2>8
<1> QED BY <1>2, <1>3


\* x is on the list q, and is on it at most once.
On(q, x) == \E i \in DOMAIN q : q[i] = x
Once(q, x) == \A i, j \in DOMAIN q : q[i] = x /\ q[j] = x => i = j

\* What is on the list is in its range.
LEMMA OnRange == ASSUME NEW q, NEW x PROVE x \in Range(q) <=> On(q, x)
BY DEF Range, On

\* An item that is on the list once is off it after that, and nothing else moves.
LEMMA Removed ==
    ASSUME NEW S, NEW q \in Seq(S), NEW d, Once(q, d)
    PROVE  /\ RemoveFirst(q, d) \in Seq(S)
           /\ ~On(RemoveFirst(q, d), d)
           /\ \A x : x # d => (On(RemoveFirst(q, d), x) <=> On(q, x))
           /\ \A x : Once(q, x) => Once(RemoveFirst(q, d), x)
           /\ ~On(q, d) => RemoveFirst(q, d) = q
<1> PICK r : r = RemoveFirst(q, d)
  OBVIOUS
<1>1. /\ r \in Seq(S)
      /\ \/ r = q /\ \A i \in DOMAIN q : q[i] # d
         \/ \E k \in DOMAIN q : q[k] = d /\ Shrunk(q, r, k)
  BY ShrunkRemove
<1>2. CASE r = q /\ \A i \in DOMAIN q : q[i] # d
  BY <1>1, <1>2 DEF On, Once
<1>3. CASE \E k \in DOMAIN q : q[k] = d /\ Shrunk(q, r, k)
  <2>1. PICK k \in DOMAIN q : q[k] = d /\ Shrunk(q, r, k)
    BY <1>3
  <2> DEFINE at(i) == IF i < k THEN i ELSE i + 1
             to(i) == IF i < k THEN i ELSE i - 1
  <2>2. /\ DOMAIN q = 1 .. Len(q) /\ Len(q) \in Nat /\ k \in 1 .. Len(q)
        /\ DOMAIN r = 1 .. Len(q) - 1
        /\ \A i \in DOMAIN r : at(i) \in DOMAIN q /\ at(i) # k /\ r[i] = q[at(i)]
    <3>1. /\ DOMAIN q = 1 .. Len(q) /\ Len(q) \in Nat /\ k \in 1 .. Len(q)
          /\ DOMAIN r = 1 .. Len(r) /\ Len(r) = Len(q) - 1
      BY <1>1, <2>1 DEF Shrunk
    <3>2. \A i \in 1 .. Len(q) - 1 : r[i] = q[at(i)]
      BY <2>1 DEF Shrunk
    <3>3. \A i \in 1 .. Len(q) - 1 : at(i) \in 1 .. Len(q) /\ at(i) # k
      BY <3>1
    <3> HIDE DEF at
    <3> QED BY <3>1, <3>2, <3>3
  <2>3. \A i \in DOMAIN q : i # k => to(i) \in DOMAIN r /\ at(to(i)) = i
    BY <2>2
  <2>4. \A i, j \in DOMAIN r : at(i) = at(j) => i = j
    BY <2>2
  <2> HIDE DEF at, to
  <2>5. ~On(r, d)
    BY <2>1, <2>2 DEF On, Once
  <2>6. ASSUME NEW x, x # d
        PROVE  On(r, x) <=> On(q, x)
    BY <2>1, <2>2, <2>3, <2>6 DEF On
  <2>7. ASSUME NEW x, Once(q, x)
        PROVE  Once(r, x)
    BY <2>2, <2>4, <2>7 DEF Once
  <2> QED BY <1>1, <2>1, <2>5, <2>6, <2>7 DEF On
<1> QED BY <1>1, <1>2, <1>3

\* Appending adds an item.
LEMMA Appended ==
    ASSUME NEW S, NEW q \in Seq(S), NEW d \in S
    PROVE  /\ Append(q, d) \in Seq(S)
           /\ \A x : On(Append(q, d), x) <=> On(q, x) \/ x = d
           /\ \A x : Once(q, x) /\ (x = d => ~On(q, d)) => Once(Append(q, d), x)
<1> PICK r : r = Append(q, d)
  OBVIOUS
<1>1. /\ r \in Seq(S) /\ DOMAIN q = 1 .. Len(q) /\ DOMAIN r = 1 .. Len(q) + 1 /\ Len(q) \in Nat
      /\ \A i \in DOMAIN q : r[i] = q[i]
      /\ r[Len(q) + 1] = d
  OBVIOUS
<1>2. \A i \in DOMAIN r : i \in DOMAIN q \/ i = Len(q) + 1
  BY <1>1
<1>3. \A i \in DOMAIN q : i \in DOMAIN r
  BY <1>1
<1>4. Len(q) + 1 \in DOMAIN r
  BY <1>1
<1>5. ASSUME NEW x
      PROVE  On(r, x) <=> On(q, x) \/ x = d
  BY <1>1, <1>2, <1>3, <1>4 DEF On
<1>6. ASSUME NEW x, Once(q, x), x = d => ~On(q, d)
      PROVE  Once(r, x)
  BY <1>1, <1>2, <1>6 DEF On, Once
<1> QED BY <1>1, <1>5, <1>6

-----------------------------------------------------------------------------
(* The lists of a state of the driver *)

\* The states of the driver, as far as their shape goes.
DriverRec == [ctx: CtxNode \cup {NULL},
              node: [Node -> NodeRec \cup {NULL}],
              refs: [Proc -> [Desc -> RefRec \cup {NULL}]],
              todo: [Thread -> Seq(Node \cup {COMPLETE})],
              proc_todo: [Proc -> Seq(Node)]]

\* n is only on lists of its owner, on one of them at most, and once.
OwnLists(s, n) ==
    /\ \A th \in Thread : Once(s.todo[th], n) /\ (On(s.todo[th], n) => ProcOf[th] = Owner[n])
    /\ \A p \in Proc : Once(s.proc_todo[p], n) /\ (On(s.proc_todo[p], n) => p = Owner[n])
    /\ \A th, u \in Thread : On(s.todo[th], n) /\ On(s.todo[u], n) => th = u
    /\ \A th \in Thread, p \in Proc : ~(On(s.todo[th], n) /\ On(s.proc_todo[p], n))

\* r differs from s in its lists, and there only in where n is.
Lists(s, r, n) ==
    /\ r \in DriverRec
    /\ r.ctx = s.ctx /\ r.node = s.node /\ r.refs = s.refs
    /\ \A m \in Node \ {n} : /\ Queued(r, m) <=> Queued(s, m)
                             /\ OwnLists(s, m) => OwnLists(r, m)

\* A node is queued when it is on some list.
LEMMA QueuedOn ==
    ASSUME NEW s, NEW n
    PROVE  Queued(s, n) <=> \/ \E th \in Thread : On(s.todo[th], n)
                            \/ \E p \in Proc : On(s.proc_todo[p], n)
BY OnRange DEF Queued

\* A record of five fields is a state of the driver.
LEMMA Types ==
    ASSUME NEW s \in DriverRec
    PROVE  /\ s.ctx \in CtxNode \cup {NULL}
           /\ s.node \in [Node -> NodeRec \cup {NULL}]
           /\ s.refs \in [Proc -> [Desc -> RefRec \cup {NULL}]]
           /\ s.todo \in [Thread -> Seq(Node \cup {COMPLETE})]
           /\ s.proc_todo \in [Proc -> Seq(Node)]
           /\ \A th \in Thread : s.todo[th] \in Seq(Node \cup {COMPLETE})
           /\ \A p \in Proc : s.proc_todo[p] \in Seq(Node)
BY DEF DriverRec

\* list_del_init takes the node off its list and moves no other node.
LEMMA UnqueuedLists ==
    ASSUME NEW s \in DriverRec, NEW n \in Node, OwnLists(s, n)
    PROVE  /\ Lists(s, Unqueued(s, n), n)
           /\ OwnLists(Unqueued(s, n), n)
           /\ ~Queued(Unqueued(s, n), n)
<1> PICK r : r = Unqueued(s, n)
  OBVIOUS
<1> DEFINE L == [th \in Thread |-> RemoveFirst(s.todo[th], n)]
           P == [p \in Proc |-> RemoveFirst(s.proc_todo[p], n)]
<1>1. /\ r.ctx = s.ctx /\ r.node = s.node /\ r.refs = s.refs
      /\ r.todo = L /\ r.proc_todo = P
      /\ r = [ctx |-> s.ctx, node |-> s.node, refs |-> s.refs, todo |-> L, proc_todo |-> P]
  BY DEF Unqueued, DriverRec
<1>2. ASSUME NEW th \in Thread
      PROVE  /\ r.todo[th] \in Seq(Node \cup {COMPLETE})
             /\ ~On(r.todo[th], n)
             /\ \A x : x # n => (On(r.todo[th], x) <=> On(s.todo[th], x))
             /\ \A x : Once(s.todo[th], x) => Once(r.todo[th], x)
  <2>1. s.todo[th] \in Seq(Node \cup {COMPLETE}) /\ Once(s.todo[th], n)
    BY Types DEF OwnLists
  <2>2. r.todo[th] = RemoveFirst(s.todo[th], n)
    BY <1>1
  <2> QED BY <2>1, <2>2, Removed
<1>3. ASSUME NEW p \in Proc
      PROVE  /\ r.proc_todo[p] \in Seq(Node)
             /\ ~On(r.proc_todo[p], n)
             /\ \A x : x # n => (On(r.proc_todo[p], x) <=> On(s.proc_todo[p], x))
             /\ \A x : Once(s.proc_todo[p], x) => Once(r.proc_todo[p], x)
  <2>1. s.proc_todo[p] \in Seq(Node) /\ Once(s.proc_todo[p], n)
    BY Types DEF OwnLists
  <2>2. r.proc_todo[p] = RemoveFirst(s.proc_todo[p], n)
    BY <1>1
  <2> QED BY <2>1, <2>2, Removed
<1>4. r \in DriverRec
  <2>1. L \in [Thread -> Seq(Node \cup {COMPLETE})]
    BY <1>1, <1>2
  <2>2. P \in [Proc -> Seq(Node)]
    BY <1>1, <1>3
  <2> HIDE DEF L, P
  <2> QED BY <1>1, <2>1, <2>2, Types DEF DriverRec
<1> HIDE DEF L, P
<1>5. ASSUME NEW m \in Node \ {n}
      PROVE  (Queued(r, m) <=> Queued(s, m)) /\ (OwnLists(s, m) => OwnLists(r, m))
  <2>1. Queued(r, m) <=> Queued(s, m)
    BY <1>2, <1>3, QueuedOn
  <2>2. OwnLists(s, m) => OwnLists(r, m)
    BY <1>2, <1>3 DEF OwnLists
  <2> QED BY <2>1, <2>2
<1>6. OwnLists(r, n)
  BY <1>2, <1>3 DEF OwnLists
<1>7. ~Queued(r, n)
  BY <1>2, <1>3, QueuedOn
<1> QED BY <1>1, <1>4, <1>5, <1>6, <1>7 DEF Lists

\* A node that is on no list goes to its owner's list.
LEMMA ProcTodoLists ==
    ASSUME NEW s \in DriverRec, NEW n \in Node, OwnLists(s, n), ~Queued(s, n),
           NEW p \in Proc, p = Owner[n]
    PROVE  LET r == [s EXCEPT !.proc_todo[p] = Append(@, n)]
           IN Lists(s, r, n) /\ OwnLists(r, n) /\ Queued(r, n)
<1> PICK r : r = [s EXCEPT !.proc_todo[p] = Append(@, n)]
  OBVIOUS
<1> DEFINE P == [s.proc_todo EXCEPT ![p] = Append(s.proc_todo[p], n)]
<1>1. /\ r.ctx = s.ctx /\ r.node = s.node /\ r.refs = s.refs
      /\ r.todo = s.todo /\ r.proc_todo = P
      /\ r = [ctx |-> s.ctx, node |-> s.node, refs |-> s.refs, todo |-> s.todo, proc_todo |-> P]
  BY DEF DriverRec
<1>2. s.proc_todo \in [Proc -> Seq(Node)] /\ s.proc_todo[p] \in Seq(Node)
  BY Types
<1>3. /\ \A q \in Proc : q # p => P[q] = s.proc_todo[q]
      /\ P[p] = Append(s.proc_todo[p], n)
  BY <1>2
<1>4. /\ P[p] \in Seq(Node)
      /\ \A x : On(P[p], x) <=> On(s.proc_todo[p], x) \/ x = n
      /\ \A x : Once(s.proc_todo[p], x) /\ (x = n => ~On(s.proc_todo[p], n)) => Once(P[p], x)
  BY <1>2, <1>3, Appended
<1>5. P \in [Proc -> Seq(Node)]
  BY <1>2, <1>4
<1> HIDE DEF P
<1>6. r \in DriverRec
  BY <1>1, <1>5, Types DEF DriverRec
<1>7. /\ \A th \in Thread : ~On(s.todo[th], n)
      /\ \A q \in Proc : ~On(s.proc_todo[q], n)
  BY QueuedOn
<1>8. ASSUME NEW m \in Node \ {n}
      PROVE  (Queued(r, m) <=> Queued(s, m)) /\ (OwnLists(s, m) => OwnLists(r, m))
  <2>1. \A q \in Proc : /\ On(P[q], m) <=> On(s.proc_todo[q], m)
                        /\ Once(s.proc_todo[q], m) => Once(P[q], m)
    BY <1>3, <1>4
  <2>2. Queued(r, m) <=> Queued(s, m)
    BY <1>1, <2>1, QueuedOn
  <2>3. OwnLists(s, m) => OwnLists(r, m)
    BY <1>1, <2>1 DEF OwnLists
  <2> QED BY <2>2, <2>3
<1>9. Queued(r, n)
  BY <1>1, <1>4, QueuedOn
<1>10. OwnLists(r, n)
  BY <1>1, <1>3, <1>4, <1>7 DEF OwnLists
<1> QED BY <1>1, <1>6, <1>8, <1>9, <1>10 DEF Lists

\* r is s with x at the end of the list of thread u.
Put(s, r, u, x) == r = [s EXCEPT !.todo[u] = Append(@, x)]

\* A node that is on no list goes to the list of a thread of its owner.
LEMMA TodoLists ==
    ASSUME NEW s \in DriverRec, NEW n \in Node, OwnLists(s, n), ~Queued(s, n),
           NEW u \in Thread, ProcOf[u] = Owner[n],
           NEW r, Put(s, r, u, n)
    PROVE  Lists(s, r, n) /\ OwnLists(r, n) /\ Queued(r, n)
<1> DEFINE L == [s.todo EXCEPT ![u] = Append(s.todo[u], n)]
<1>1. /\ r.ctx = s.ctx /\ r.node = s.node /\ r.refs = s.refs
      /\ r.todo = L /\ r.proc_todo = s.proc_todo
      /\ r = [ctx |-> s.ctx, node |-> s.node, refs |-> s.refs, todo |-> L, proc_todo |-> s.proc_todo]
  BY DEF DriverRec, Put
<1>2. s.todo \in [Thread -> Seq(Node \cup {COMPLETE})] /\ s.todo[u] \in Seq(Node \cup {COMPLETE})
  BY Types
<1>3. /\ \A q \in Thread : q # u => L[q] = s.todo[q]
      /\ L[u] = Append(s.todo[u], n)
  BY <1>2
<1>4. /\ L[u] \in Seq(Node \cup {COMPLETE})
      /\ \A x : On(L[u], x) <=> On(s.todo[u], x) \/ x = n
      /\ \A x : Once(s.todo[u], x) /\ (x = n => ~On(s.todo[u], n)) => Once(L[u], x)
  <2>1. PICK S : S = Node \cup {COMPLETE}
    OBVIOUS
  <2>2. n \in S /\ s.todo[u] \in Seq(S) /\ L[u] = Append(s.todo[u], n)
    BY <1>2, <1>3, <2>1
  <2>3. /\ L[u] \in Seq(S)
        /\ \A x : On(L[u], x) <=> On(s.todo[u], x) \/ x = n
        /\ \A x : Once(s.todo[u], x) /\ (x = n => ~On(s.todo[u], n)) => Once(L[u], x)
    BY <2>2, Appended
  <2> QED BY <2>1, <2>3
<1>5. L \in [Thread -> Seq(Node \cup {COMPLETE})]
  BY <1>2, <1>4
<1> HIDE DEF L
<1>6. r \in DriverRec
  BY <1>1, <1>5, Types DEF DriverRec
<1>7. /\ \A th \in Thread : ~On(s.todo[th], n)
      /\ \A q \in Proc : ~On(s.proc_todo[q], n)
  BY QueuedOn
<1>8. ASSUME NEW m \in Node \ {n}
      PROVE  (Queued(r, m) <=> Queued(s, m)) /\ (OwnLists(s, m) => OwnLists(r, m))
  <2>1. \A q \in Thread : /\ On(L[q], m) <=> On(s.todo[q], m)
                          /\ Once(s.todo[q], m) => Once(L[q], m)
    BY <1>3, <1>4
  <2>2. Queued(r, m) <=> Queued(s, m)
    BY <1>1, <2>1, QueuedOn
  <2>3. OwnLists(s, m) => OwnLists(r, m)
    BY <1>1, <2>1 DEF OwnLists
  <2> QED BY <2>2, <2>3
<1>9. Queued(r, n)
  BY <1>1, <1>4, QueuedOn
<1>10. OwnLists(r, n)
  BY <1>1, <1>3, <1>4, <1>7 DEF OwnLists
<1> QED BY <1>1, <1>6, <1>8, <1>9, <1>10 DEF Lists

\* A transaction's completion moves no node.
LEMMA CompleteLists ==
    ASSUME NEW s \in DriverRec, NEW u \in Thread
    PROVE  LET r == [s EXCEPT !.todo[u] = Append(@, COMPLETE)]
           IN /\ r \in DriverRec /\ r.ctx = s.ctx /\ r.node = s.node /\ r.refs = s.refs
              /\ \A m \in Node : /\ Queued(r, m) <=> Queued(s, m)
                                 /\ OwnLists(s, m) => OwnLists(r, m)
<1> PICK r : r = [s EXCEPT !.todo[u] = Append(@, COMPLETE)]
  OBVIOUS
<1> DEFINE L == [s.todo EXCEPT ![u] = Append(s.todo[u], COMPLETE)]
<1>1. /\ r.ctx = s.ctx /\ r.node = s.node /\ r.refs = s.refs
      /\ r.todo = L /\ r.proc_todo = s.proc_todo
      /\ r = [ctx |-> s.ctx, node |-> s.node, refs |-> s.refs, todo |-> L, proc_todo |-> s.proc_todo]
  BY DEF DriverRec
<1>2. s.todo \in [Thread -> Seq(Node \cup {COMPLETE})] /\ s.todo[u] \in Seq(Node \cup {COMPLETE})
  BY Types
<1>3. /\ \A q \in Thread : q # u => L[q] = s.todo[q]
      /\ L[u] = Append(s.todo[u], COMPLETE)
  BY <1>2
<1>4. /\ L[u] \in Seq(Node \cup {COMPLETE})
      /\ \A x : On(L[u], x) <=> On(s.todo[u], x) \/ x = COMPLETE
      /\ \A x : Once(s.todo[u], x) /\ (x = COMPLETE => ~On(s.todo[u], COMPLETE)) => Once(L[u], x)
  <2>1. PICK S : S = Node \cup {COMPLETE}
    OBVIOUS
  <2>2. PICK d \in S : d = COMPLETE
    BY <2>1
  <2>3. s.todo[u] \in Seq(S) /\ L[u] = Append(s.todo[u], d)
    BY <1>2, <1>3, <2>1, <2>2
  <2>4. /\ L[u] \in Seq(S)
        /\ \A x : On(L[u], x) <=> On(s.todo[u], x) \/ x = d
        /\ \A x : Once(s.todo[u], x) /\ (x = d => ~On(s.todo[u], d)) => Once(L[u], x)
    BY <2>3, Appended
  <2> QED BY <2>1, <2>2, <2>4
<1>5. L \in [Thread -> Seq(Node \cup {COMPLETE})]
  BY <1>2, <1>4
<1> HIDE DEF L
<1>6. r \in DriverRec
  BY <1>1, <1>5, Types DEF DriverRec
<1>8. ASSUME NEW m \in Node
      PROVE  (Queued(r, m) <=> Queued(s, m)) /\ (OwnLists(s, m) => OwnLists(r, m))
  <2>0. m # COMPLETE
    BY RefsAssumption
  <2>1. \A q \in Thread : /\ On(L[q], m) <=> On(s.todo[q], m)
                          /\ Once(s.todo[q], m) => Once(L[q], m)
    BY <1>3, <1>4, <2>0
  <2>2. Queued(r, m) <=> Queued(s, m)
    BY <1>1, <2>1, QueuedOn
  <2>3. OwnLists(s, m) => OwnLists(r, m)
    BY <1>1, <2>1 DEF OwnLists
  <2> QED BY <2>2, <2>3
<1> QED BY <1>1, <1>6, <1>8

-----------------------------------------------------------------------------
(* One node at a time *)

\* r differs from s only in the node n, and in where n is listed.
Local(s, r, n) ==
    /\ r \in DriverRec
    /\ r.ctx = s.ctx /\ r.refs = s.refs
    /\ \A m \in Node \ {n} : /\ r.node[m] = s.node[m]
                             /\ Queued(r, m) <=> Queued(s, m)
                             /\ OwnLists(s, m) => OwnLists(r, m)

StrongRefs(s, n) == {r \in RefsTo(s, n) : s.refs[r[1]][r[2]].strong > 0}

\* The claim of each kind that makes n the context manager.
Ctx(n) == IF n \in CtxNode THEN 1 ELSE 0

\* An answer is open only from an owner that was told and was not told otherwise.
Answers(x) == (x.pending_strong => x.has_strong) /\ (x.pending_weak => x.has_weak)

\* What is true of the node n when L are the objects whose owner is alive, and the
\* buffers make bs strong and bw weak claims on n.
NodeMid(s, L, n, bs, bw) ==
    /\ OwnLists(s, n)
    /\ bs \in Nat /\ bw \in Nat
    /\ s.node[n] = NULL => bs = 0 /\ bw = 0 /\ ~Queued(s, n) /\ RefsTo(s, n) = {}
    /\ s.node[n] # NULL => s.node[n].internal_strong = Cardinality(StrongRefs(s, n))
    /\ s.node[n] # NULL => Answers(s.node[n])
    /\ s.node[n] # NULL /\ n \in L =>
          /\ s.node[n].proc = Owner[n]
          /\ s.node[n].local_strong = bs + One(s.node[n].pending_strong) + Ctx(n)
          /\ s.node[n].local_weak = bw + One(s.node[n].pending_weak) + Ctx(n)
    /\ s.node[n] # NULL /\ n \notin L =>
          /\ s.node[n].proc = NULL
          /\ s.node[n].local_strong = 0 /\ s.node[n].local_weak = 0
          /\ bs = 0 /\ bw = 0 /\ ~Queued(s, n)

\* Between two operations a dead node has references.
NodeOK(s, L, n, bs, bw) ==
    /\ NodeMid(s, L, n, bs, bw)
    /\ s.node[n] # NULL /\ n \notin L => RefsTo(s, n) # {}

\* The references depend on refs alone.
LEMMA SameRefs ==
    ASSUME NEW s, NEW r, r.refs = s.refs
    PROVE  \A n : RefsTo(r, n) = RefsTo(s, n) /\ StrongRefs(r, n) = StrongRefs(s, n)
BY DEF RefsTo, StrongRefs

\* Whether a node is listed depends on the lists alone.
LEMMA SameLists ==
    ASSUME NEW s, NEW r, r.todo = s.todo, r.proc_todo = s.proc_todo
    PROVE  \A n : (Queued(r, n) <=> Queued(s, n)) /\ (OwnLists(r, n) <=> OwnLists(s, n))
BY DEF Queued, OwnLists

\* Lists that keep a node where it is are local to it.
LEMMA LocalLists ==
    ASSUME NEW s, NEW r, NEW n, Lists(s, r, n)
    PROVE  Local(s, r, n)
BY DEF Lists, Local

\* Nothing changed is a local change.
LEMMA LocalSelf ==
    ASSUME NEW s \in DriverRec, NEW n
    PROVE  Local(s, s, n)
BY DEF Local

\* Two local changes make one.
LEMMA LocalTrans ==
    ASSUME NEW s, NEW r, NEW u, NEW n, Local(s, r, n), Local(r, u, n)
    PROVE  Local(s, u, n)
BY DEF Local

\* What happens to n leaves the others as they were.
LEMMA LocalOthers ==
    ASSUME NEW s, NEW r, NEW n, Local(s, r, n), NEW m \in Node \ {n},
           NEW L, NEW bs, NEW bw, NodeOK(s, L, m, bs, bw)
    PROVE  NodeOK(r, L, m, bs, bw)
<1>1. RefsTo(r, m) = RefsTo(s, m) /\ StrongRefs(r, m) = StrongRefs(s, m)
  BY SameRefs DEF Local
<1>2. r.node[m] = s.node[m] /\ (Queued(r, m) <=> Queued(s, m)) /\ OwnLists(r, m)
  BY DEF Local, NodeOK, NodeMid
<1> QED BY <1>1, <1>2 DEF NodeOK, NodeMid

\* r is s with x written to its node n, and what this says of r.
Wrote(s, r, n, x) == r = [s EXCEPT !.node[n] = x]

Written(s, r, n, x) ==
    /\ Local(s, r, n)
    /\ r.node[n] = x
    /\ r.todo = s.todo /\ r.proc_todo = s.proc_todo
    /\ Queued(r, n) <=> Queued(s, n)
    /\ OwnLists(r, n) <=> OwnLists(s, n)

\* Writing one node.
LEMMA WrittenNode ==
    ASSUME NEW s \in DriverRec, NEW n \in Node, NEW x \in NodeRec \cup {NULL},
           NEW r, Wrote(s, r, n, x)
    PROVE  Written(s, r, n, x)
<1> DEFINE N == [s.node EXCEPT ![n] = x]
<1>1. /\ r.ctx = s.ctx /\ r.node = N /\ r.refs = s.refs
      /\ r.todo = s.todo /\ r.proc_todo = s.proc_todo
      /\ r = [ctx |-> s.ctx, node |-> N, refs |-> s.refs, todo |-> s.todo, proc_todo |-> s.proc_todo]
  BY DEF DriverRec, Wrote
<1>2. /\ s.node \in [Node -> NodeRec \cup {NULL}]
  BY Types
<1>3. /\ N \in [Node -> NodeRec \cup {NULL}]
      /\ N[n] = x
      /\ \A m \in Node \ {n} : N[m] = s.node[m]
  BY <1>2
<1> HIDE DEF N
<1>4. r \in DriverRec
  BY <1>1, <1>3, Types DEF DriverRec
<1>5. \A m : (Queued(r, m) <=> Queued(s, m)) /\ (OwnLists(r, m) <=> OwnLists(s, m))
  BY <1>1, SameLists
<1> QED BY <1>1, <1>3, <1>4, <1>5 DEF Local, Written

\* A node that is not NULL has the fields of a node.
LEMMA NodeFields ==
    ASSUME NEW s \in DriverRec, NEW n \in Node, s.node[n] # NULL
    PROVE  /\ s.node[n] \in NodeRec
           /\ s.node[n].proc \in Proc \cup {NULL}
           /\ s.node[n].internal_strong \in Nat
           /\ s.node[n].local_strong \in Nat
           /\ s.node[n].local_weak \in Nat
           /\ s.node[n].has_strong \in BOOLEAN
           /\ s.node[n].has_weak \in BOOLEAN
           /\ s.node[n].pending_strong \in BOOLEAN
           /\ s.node[n].pending_weak \in BOOLEAN
<1>1. s.node[n] \in NodeRec
  BY Types
<1> QED BY <1>1 DEF NodeRec

\* Neither record is the null pointer.
LEMMA NotNull ==
    /\ NULL \notin NodeRec /\ NULL \notin RefRec /\ NULL \notin BufRec
BY NoRecord

\* What is counted: x with its count of the kind changed by k.
CountOf(x, strong, internal) ==
    IF strong /\ internal THEN x.internal_strong
    ELSE IF strong THEN x.local_strong ELSE x.local_weak

WithCount(x, y, strong, internal, k) ==
    /\ y \in NodeRec
    /\ y.proc = x.proc
    /\ y.has_strong = x.has_strong /\ y.has_weak = x.has_weak
    /\ y.pending_strong = x.pending_strong /\ y.pending_weak = x.pending_weak
    /\ y.internal_strong = IF strong /\ internal THEN x.internal_strong + k ELSE x.internal_strong
    /\ y.local_strong = IF strong /\ ~internal THEN x.local_strong + k ELSE x.local_strong
    /\ y.local_weak = IF ~strong /\ ~internal THEN x.local_weak + k ELSE x.local_weak

Recounted(s, c, n, strong, internal, k) ==
    /\ Local(s, c, n)
    /\ c.todo = s.todo /\ c.proc_todo = s.proc_todo
    /\ c.node[n] # NULL
    /\ WithCount(s.node[n], c.node[n], strong, internal, k)

\* Counting changes one count of the node.
LEMMA CountedNode ==
    ASSUME NEW s \in DriverRec, NEW n \in Node, s.node[n] # NULL,
           NEW strong \in BOOLEAN, NEW internal \in BOOLEAN, NEW k \in {1, -1},
           (strong \/ ~internal) => CountOf(s.node[n], strong, internal) + k >= 0
    PROVE  Recounted(s, Counted(s, n, strong, internal, k), n, strong, internal, k)
<1> PICK c : c = Counted(s, n, strong, internal, k)
  OBVIOUS
<1> DEFINE x == s.node[n]
<1>0. s.node[n] \in NodeRec
  BY NodeFields
<1>1. CASE strong /\ internal
  <2> PICK y : y = [s.node[n] EXCEPT !.internal_strong = @ + k]
    OBVIOUS
  <2>1. Wrote(s, c, n, y)
    <3>1. c = [s EXCEPT !.node[n].internal_strong = @ + k]
      BY <1>1 DEF Counted
    <3> QED BY <3>1, Types DEF DriverRec, Wrote
  <2>2. WithCount(s.node[n], y, strong, internal, k)
    BY <1>0, <1>1 DEF NodeRec, WithCount, CountOf
  <2>3. y \in NodeRec /\ y \in NodeRec \cup {NULL}
    BY <2>2 DEF WithCount
  <2>4. Local(s, c, n) /\ c.node[n] = y /\ c.todo = s.todo /\ c.proc_todo = s.proc_todo
    BY <2>1, <2>3, WrittenNode DEF Written
  <2> QED BY <2>2, <2>3, <2>4, NotNull DEF Recounted
<1>2. CASE strong /\ ~internal
  <2> PICK y : y = [s.node[n] EXCEPT !.local_strong = @ + k]
    OBVIOUS
  <2>1. Wrote(s, c, n, y)
    <3>1. c = [s EXCEPT !.node[n].local_strong = @ + k]
      BY <1>2 DEF Counted
    <3> QED BY <3>1, Types DEF DriverRec, Wrote
  <2>2. WithCount(s.node[n], y, strong, internal, k)
    BY <1>0, <1>2 DEF NodeRec, WithCount, CountOf
  <2>3. y \in NodeRec /\ y \in NodeRec \cup {NULL}
    BY <2>2 DEF WithCount
  <2>4. Local(s, c, n) /\ c.node[n] = y /\ c.todo = s.todo /\ c.proc_todo = s.proc_todo
    BY <2>1, <2>3, WrittenNode DEF Written
  <2> QED BY <2>2, <2>3, <2>4, NotNull DEF Recounted
<1>3. CASE ~strong /\ internal
  <2>1. c = s
    BY <1>3 DEF Counted
  <2>2. WithCount(s.node[n], s.node[n], strong, internal, k)
    BY <1>0, <1>3 DEF WithCount
  <2> QED BY <2>1, <2>2, LocalSelf DEF Recounted
<1>4. CASE ~strong /\ ~internal
  <2> PICK y : y = [s.node[n] EXCEPT !.local_weak = @ + k]
    OBVIOUS
  <2>1. Wrote(s, c, n, y)
    <3>1. c = [s EXCEPT !.node[n].local_weak = @ + k]
      BY <1>4 DEF Counted
    <3> QED BY <3>1, Types DEF DriverRec, Wrote
  <2>2. WithCount(s.node[n], y, strong, internal, k)
    BY <1>0, <1>4 DEF NodeRec, WithCount, CountOf
  <2>3. y \in NodeRec /\ y \in NodeRec \cup {NULL}
    BY <2>2 DEF WithCount
  <2>4. Local(s, c, n) /\ c.node[n] = y /\ c.todo = s.todo /\ c.proc_todo = s.proc_todo
    BY <2>1, <2>3, WrittenNode DEF Written
  <2> QED BY <2>2, <2>3, <2>4, NotNull DEF Recounted
<1> QED BY <1>1, <1>2, <1>3, <1>4

\* The node n of c has counts of the kind left.
Remain(c, n, strong) ==
    IF strong THEN c.node[n].local_strong # 0 \/ c.node[n].internal_strong # 0
    ELSE c.node[n].local_weak # 0 \/ RefsTo(c, n) # {}

\* r is c, with the owner to be told of n if it was told before, and without a
\* node n that nobody claims.
Settled(c, r, n, counts) ==
    /\ Local(c, r, n)
    /\ OwnLists(r, n)
    /\ \/ /\ r.node[n] = c.node[n]
          /\ Queued(c, n) => Queued(r, n)
          /\ c.node[n].proc = NULL =>
                /\ Queued(r, n) => Queued(c, n)
                /\ \/ RefsTo(c, n) # {}
                   \/ c.node[n].local_strong # 0
                   \/ c.node[n].local_weak # 0
                   \/ c.node[n].internal_strong # 0
          /\ c.node[n].proc # NULL /\ (c.node[n].has_strong \/ c.node[n].has_weak) =>
                Queued(r, n) \/ counts
       \/ /\ r.node[n] = NULL
          /\ ~Queued(r, n)
          /\ RefsTo(c, n) = {}
          /\ c.node[n].local_strong = 0 /\ c.node[n].local_weak = 0
          /\ c.node[n].proc = NULL \/ ~(c.node[n].has_strong \/ c.node[n].has_weak)

\* A node of its owner, or of nobody.
Owned(c, n) == c.node[n] # NULL /\ c.node[n].proc \in {NULL, Owner[n]} /\ OwnLists(c, n)

\* Freeing a node takes it off its list.
LEMMA Freed ==
    ASSUME NEW c \in DriverRec, NEW n \in Node, OwnLists(c, n),
           NEW r, r = [Unqueued(c, n) EXCEPT !.node[n] = NULL]
    PROVE  Local(c, r, n) /\ OwnLists(r, n) /\ ~Queued(r, n) /\ r.node[n] = NULL
<1> PICK u : u = Unqueued(c, n)
  OBVIOUS
<1>1. Lists(c, u, n) /\ OwnLists(u, n) /\ ~Queued(u, n)
  BY UnqueuedLists
<1>2. u \in DriverRec
  BY <1>1 DEF Lists
<1> PICK x : x = NULL
  OBVIOUS
<1>3. x \in NodeRec \cup {NULL}
  OBVIOUS
<1>4. Wrote(u, r, n, x)
  <2>1. r = [u EXCEPT !.node[n] = NULL]
    OBVIOUS
  <2> QED BY <2>1 DEF Wrote
<1>5. Written(u, r, n, x)
  BY <1>2, <1>3, <1>4, WrittenNode
<1>6. Local(c, u, n) /\ Local(u, r, n)
  BY <1>1, <1>5, LocalLists DEF Written
<1> QED BY <1>1, <1>5, <1>6, LocalTrans DEF Written

\* When the last count of a kind is gone the node settles.
LEMMA LastGoneSettles ==
    ASSUME NEW c \in DriverRec, NEW n \in Node, Owned(c, n)
    PROVE  Settled(c, LastGone(c, n), n, FALSE)
<1> PICK r : r = LastGone(c, n)
  OBVIOUS
<1> PICK x : x = c.node[n]
  OBVIOUS
<1>0. /\ x # NULL /\ x.proc \in {NULL, Owner[n]} /\ OwnLists(c, n)
      /\ NULL \notin Proc /\ Owner[n] \in Proc
  BY RefsAssumption DEF Owned
<1>1. CASE x.proc # NULL /\ (x.has_strong \/ x.has_weak) /\ Queued(c, n)
  <2>1. r = c
    BY <1>1 DEF LastGone
  <2> QED BY <1>0, <1>1, <2>1, LocalSelf DEF Settled
<1>2. CASE x.proc # NULL /\ (x.has_strong \/ x.has_weak) /\ ~Queued(c, n)
  <2> PICK p : p = x.proc
    OBVIOUS
  <2>1. r = [c EXCEPT !.proc_todo[p] = Append(@, n)]
    BY <1>2 DEF LastGone
  <2>2. p \in Proc /\ p = Owner[n]
    BY <1>0, <1>2
  <2>3. Lists(c, r, n) /\ OwnLists(r, n) /\ Queued(r, n)
    BY <1>0, <1>2, <2>1, <2>2, ProcTodoLists
  <2>4. r.node = c.node
    BY <2>3 DEF Lists
  <2> QED BY <1>0, <1>2, <2>3, <2>4, LocalLists DEF Settled
<1>3. CASE /\ ~(x.proc # NULL /\ (x.has_strong \/ x.has_weak))
           /\ RefsTo(c, n) = {} /\ x.local_strong = 0 /\ x.local_weak = 0
  <2>1. r = [Unqueued(c, n) EXCEPT !.node[n] = NULL]
    BY <1>3 DEF LastGone
  <2>2. Local(c, r, n) /\ OwnLists(r, n) /\ ~Queued(r, n) /\ r.node[n] = NULL
    BY <1>0, <2>1, Freed
  <2> QED BY <1>3, <2>2 DEF Settled
<1>4. CASE /\ ~(x.proc # NULL /\ (x.has_strong \/ x.has_weak))
           /\ ~(RefsTo(c, n) = {} /\ x.local_strong = 0 /\ x.local_weak = 0)
  <2>1. r = c
    BY <1>4 DEF LastGone
  <2> QED BY <1>0, <1>4, <2>1, LocalSelf DEF Settled
<1> QED BY <1>1, <1>2, <1>3, <1>4

\* binder_dec_node takes a count away, and settles the node.
LEMMA DecNode ==
    ASSUME NEW s \in DriverRec, NEW n \in Node, Owned(s, n),
           NEW strong \in BOOLEAN, NEW internal \in BOOLEAN,
           (strong \/ ~internal) => CountOf(s.node[n], strong, internal) > 0
    PROVE  \E c : /\ Recounted(s, c, n, strong, internal, -1)
                  /\ Settled(c, binder_dec_node(s, n, strong, internal), n, Remain(c, n, strong))
<1> PICK k \in {1, -1} : k = -1
  OBVIOUS
<1> PICK c : c = Counted(s, n, strong, internal, k)
  OBVIOUS
<1> PICK r : r = binder_dec_node(s, n, strong, internal)
  OBVIOUS
<1>1. s.node[n] # NULL
  BY DEF Owned
<1>2. (strong \/ ~internal) => CountOf(s.node[n], strong, internal) + k >= 0
  BY <1>1, NodeFields DEF CountOf
<1>3. Recounted(s, c, n, strong, internal, k)
  BY <1>1, <1>2, CountedNode
<1>4. /\ c \in DriverRec
      /\ Owned(c, n)
  <2>1. c \in DriverRec /\ c.node[n] # NULL /\ c.node[n].proc = s.node[n].proc
    BY <1>3 DEF Recounted, Local, WithCount
  <2>2. OwnLists(c, n)
    BY <1>3, SameLists DEF Recounted, Owned
  <2> QED BY <2>1, <2>2 DEF Owned
<1>5. r = IF Remain(c, n, strong) THEN c ELSE LastGone(c, n)
  BY DEF binder_dec_node, Remain
<1>6. CASE Remain(c, n, strong)
  <2>1. r = c
    BY <1>5, <1>6
  <2>2. Settled(c, c, n, Remain(c, n, strong))
    <3>1. Local(c, c, n) /\ OwnLists(c, n)
      BY <1>4, LocalSelf DEF Owned
    <3>2. \/ RefsTo(c, n) # {}
          \/ c.node[n].local_strong # 0
          \/ c.node[n].local_weak # 0
          \/ c.node[n].internal_strong # 0
      BY <1>6 DEF Remain
    <3> QED BY <1>6, <3>1, <3>2 DEF Settled
  <2> QED BY <1>3, <2>1, <2>2
<1>7. CASE ~Remain(c, n, strong)
  <2>1. r = LastGone(c, n)
    BY <1>5, <1>7
  <2>2. Settled(c, r, n, FALSE)
    BY <1>4, <2>1, LastGoneSettles
  <2>3. Settled(c, r, n, Remain(c, n, strong))
    BY <1>7, <2>2 DEF Settled
  <2> QED BY <1>3, <2>3
<1> QED BY <1>6, <1>7

\* r is c, with n on the list when its owner does not hold it yet.
Announced(c, r, n, strong, list) ==
    /\ Local(c, r, n)
    /\ OwnLists(r, n)
    /\ r.node[n] = c.node[n]
    /\ Queued(c, n) => Queued(r, n)
    /\ Queued(r, n) => Queued(c, n) \/ list # NULL
    /\ list # NULL /\ (IF strong THEN ~c.node[n].has_strong ELSE ~c.node[n].has_weak) => Queued(r, n)

\* A list that a claim may be announced on: of a thread of the owner, who is there.
ListFor(s, n, list) ==
    \/ list = NULL
    \/ list \in Thread /\ ProcOf[list] = Owner[n] /\ s.node[n].proc = Owner[n]

\* binder_inc_node adds a claim of a handle, and tells the owner.
LEMMA IncNode ==
    ASSUME NEW s \in DriverRec, NEW n \in Node, Owned(s, n),
           NEW strong \in BOOLEAN, NEW list, ListFor(s, n, list),
           ~IncInvalid(s, n, strong, list)
    PROVE  \E c : /\ Recounted(s, c, n, strong, TRUE, 1)
                  /\ Announced(c, binder_inc_node(s, n, strong, TRUE, list), n, strong, list)
<1> PICK k \in {1, -1} : k = 1
  OBVIOUS
<1> PICK internal \in BOOLEAN : internal = TRUE
  OBVIOUS
<1> PICK c : c = Counted(s, n, strong, internal, k)
  OBVIOUS
<1> PICK r : r = binder_inc_node(s, n, strong, TRUE, list)
  OBVIOUS
<1>1. s.node[n] # NULL /\ OwnLists(s, n)
  BY DEF Owned
<1>2. (strong \/ ~internal) => CountOf(s.node[n], strong, internal) + k >= 0
  BY <1>1, NodeFields DEF CountOf
<1>3. Recounted(s, c, n, strong, internal, k)
  BY <1>1, <1>2, CountedNode
<1>4. c \in DriverRec /\ OwnLists(c, n) /\ (Queued(c, n) <=> Queued(s, n))
  BY <1>1, <1>3, SameLists DEF Recounted, Local
<1>5. /\ c.node[n].has_strong = s.node[n].has_strong
      /\ c.node[n].has_weak = s.node[n].has_weak
  BY <1>3 DEF Recounted, WithCount
<1>6. r = IF (IF strong THEN ~s.node[n].has_strong ELSE ~s.node[n].has_weak /\ ~Queued(s, n))
             /\ list # NULL
          THEN Owed(c, n, list) ELSE c
  BY DEF binder_inc_node
<1>7. CASE r = Owed(c, n, list) /\ list # NULL
  <2> PICK u : u = Unqueued(c, n)
    OBVIOUS
  <2>1. Lists(c, u, n) /\ OwnLists(u, n) /\ ~Queued(u, n)
    BY <1>4, UnqueuedLists
  <2>2. u \in DriverRec /\ u.node = c.node
    BY <2>1 DEF Lists
  <2>3. list \in Thread /\ ProcOf[list] = Owner[n]
    BY <1>7 DEF ListFor
  <2> PICK th \in Thread : th = list
    BY <2>3
  <2>4. Put(u, r, th, n) /\ ProcOf[th] = Owner[n]
    BY <1>7, <2>3 DEF Owed, Put
  <2>5. Lists(u, r, n) /\ OwnLists(r, n) /\ Queued(r, n)
    BY <2>1, <2>2, <2>4, TodoLists
  <2>6. Local(c, r, n) /\ r.node = c.node
    <3>1. Local(c, u, n) /\ Local(u, r, n)
      BY <2>1, <2>5, LocalLists
    <3> QED BY <2>2, <2>5, <3>1, LocalTrans DEF Lists
  <2>7. Announced(c, r, n, strong, list)
    BY <1>7, <2>5, <2>6 DEF Announced
  <2> QED BY <1>3, <2>7
<1>8. CASE r = c /\ ((IF strong THEN ~s.node[n].has_strong ELSE ~s.node[n].has_weak) /\ list # NULL
                     => Queued(s, n))
  <2>1. Announced(c, c, n, strong, list)
    BY <1>4, <1>5, <1>8, LocalSelf DEF Announced
  <2> QED BY <1>3, <1>8, <2>1
<1> QED BY <1>6, <1>7, <1>8

\* A claim of the node's own process is added at once.
LEMMA IncLocalNode ==
    ASSUME NEW s \in DriverRec, NEW n \in Node, Owned(s, n), NEW strong \in BOOLEAN
    PROVE  Recounted(s, binder_inc_node(s, n, strong, FALSE, NULL), n, strong, FALSE, 1)
<1> PICK k \in {1, -1} : k = 1
  OBVIOUS
<1> PICK internal \in BOOLEAN : internal = FALSE
  OBVIOUS
<1>1. s.node[n] # NULL
  BY DEF Owned
<1>2. (strong \/ ~internal) => CountOf(s.node[n], strong, internal) + k >= 0
  BY <1>1, NodeFields DEF CountOf
<1>3. Recounted(s, Counted(s, n, strong, internal, k), n, strong, internal, k)
  BY <1>1, <1>2, CountedNode
<1>4. binder_inc_node(s, n, strong, FALSE, NULL) = Counted(s, n, strong, internal, k)
  BY DEF binder_inc_node
<1> QED BY <1>3, <1>4

-----------------------------------------------------------------------------
(* What the owner of a node was told *)

\* What the owner was told of n is what is claimed, or n is on a list; and it was
\* told to hold the object strongly only when it was told to hold it weakly.
Knows(s, n) ==
    s.node[n] # NULL /\ s.node[n].proc # NULL =>
        /\ s.node[n].has_strong => s.node[n].has_weak
        /\ \/ /\ s.node[n].has_strong <=> Strong(s.node[n])
              /\ s.node[n].has_weak <=> Weak(s, n)
           \/ Queued(s, n)

Informed(s) == \A n \in Node : Knows(s, n)

Informs(s, r) == Informed(s) => Informed(r)

\* The same when a claim on n of the kind may have gone without the owner's being told.
KnowsMore(s, n, strong) ==
    s.node[n] # NULL /\ s.node[n].proc # NULL =>
        /\ s.node[n].has_strong => s.node[n].has_weak
        /\ \/ /\ Strong(s.node[n]) => s.node[n].has_strong
              /\ Weak(s, n) => s.node[n].has_weak
              /\ strong \/ (s.node[n].has_strong => Strong(s.node[n]))
           \/ Queued(s, n)

\* The same when n may have a reference that the owner was not told of.
KnowsStrong(s, n) ==
    s.node[n] # NULL /\ s.node[n].proc # NULL =>
        /\ s.node[n].has_strong => s.node[n].has_weak
        /\ (s.node[n].has_strong <=> Strong(s.node[n])) \/ Queued(s, n)

\* A node with the same record, lists and references is known as well.
LEMMA KnowsSame ==
    ASSUME NEW s, NEW r, NEW n, Knows(s, n),
           r.node[n] = s.node[n], Queued(s, n) => Queued(r, n), RefsTo(r, n) = RefsTo(s, n)
    PROVE  Knows(r, n)
BY DEF Knows, Weak

\* What happens to n leaves what is known of the others.
LEMMA InformsLocal ==
    ASSUME NEW s, NEW r, NEW n, Local(s, r, n), Informed(s), Knows(r, n)
    PROVE  Informed(r)
<1> SUFFICES ASSUME NEW m \in Node, m # n
             PROVE  Knows(r, m)
  BY DEF Informed
<1>1. RefsTo(r, m) = RefsTo(s, m)
  BY SameRefs DEF Local
<1>2. r.node[m] = s.node[m] /\ (Queued(r, m) <=> Queued(s, m)) /\ Knows(s, m)
  BY DEF Local, Informed
<1> QED BY <1>1, <1>2, KnowsSame

\* A node that settles is known.
LEMMA KnowsSettled ==
    ASSUME NEW c \in DriverRec, NEW n \in Node, c.node[n] # NULL,
           NEW strong \in BOOLEAN, KnowsMore(c, n, strong),
           NEW r, Settled(c, r, n, Remain(c, n, strong))
    PROVE  Knows(r, n)
<1>1. CASE r.node[n] = NULL
  BY <1>1 DEF Knows
<1>2. CASE r.node[n] # NULL
  <2> PICK x : x = c.node[n]
    OBVIOUS
  <2>1. /\ r.node[n] = x
        /\ Queued(c, n) => Queued(r, n)
        /\ x.proc # NULL /\ (x.has_strong \/ x.has_weak) => Queued(r, n) \/ Remain(c, n, strong)
    BY <1>2 DEF Settled
  <2>2. RefsTo(r, n) = RefsTo(c, n)
    BY SameRefs DEF Settled, Local
  <2>3. x.local_strong \in Nat /\ x.internal_strong \in Nat /\ x.local_weak \in Nat
    BY NodeFields
  <2>4. Weak(r, n) <=> Weak(c, n)
    BY <2>1, <2>2 DEF Weak
  <2>5. Remain(c, n, strong) => Weak(c, n) /\ (strong => Strong(x))
    BY <2>3 DEF Remain, Weak, Strong
  <2>6. Strong(x) => Weak(c, n)
    BY DEF Weak
  <2> SUFFICES ASSUME x.proc # NULL, ~Queued(r, n)
               PROVE  /\ x.has_strong => x.has_weak
                      /\ x.has_strong <=> Strong(x)
                      /\ x.has_weak <=> Weak(r, n)
    BY <2>1 DEF Knows, KnowsMore
  <2>7. /\ x.has_strong => x.has_weak
        /\ Strong(x) => x.has_strong
        /\ Weak(c, n) => x.has_weak
        /\ strong \/ (x.has_strong => Strong(x))
    BY <2>1 DEF KnowsMore
  <2> QED BY <2>1, <2>4, <2>5, <2>6, <2>7
<1> QED BY <1>1, <1>2

\* A claim that is counted no more is not claimed.
LEMMA KnowsLess ==
    ASSUME NEW s \in DriverRec, NEW n \in Node, Knows(s, n), s.node[n] # NULL,
           NEW strong \in BOOLEAN, NEW internal \in BOOLEAN,
           NEW c, Recounted(s, c, n, strong, internal, -1)
    PROVE  KnowsMore(c, n, strong)
<1> PICK x : x = s.node[n]
  OBVIOUS
<1> PICK y : y = c.node[n]
  OBVIOUS
<1>1. /\ y.proc = x.proc /\ y.has_strong = x.has_strong /\ y.has_weak = x.has_weak
      /\ y.internal_strong = IF strong /\ internal THEN x.internal_strong - 1 ELSE x.internal_strong
      /\ y.local_strong = IF strong /\ ~internal THEN x.local_strong - 1 ELSE x.local_strong
      /\ y.local_weak = IF ~strong /\ ~internal THEN x.local_weak - 1 ELSE x.local_weak
  BY DEF Recounted, WithCount
<1>2. x.local_strong \in Nat /\ x.internal_strong \in Nat /\ x.local_weak \in Nat
  BY NodeFields
<1>3. RefsTo(c, n) = RefsTo(s, n) /\ (Queued(c, n) <=> Queued(s, n))
  BY SameRefs, SameLists DEF Recounted, Local
<1>4. (Strong(y) => Strong(x)) /\ (~strong => (Strong(y) <=> Strong(x)))
  BY <1>1, <1>2 DEF Strong
<1>5. Weak(c, n) => Weak(s, n)
  BY <1>1, <1>2, <1>3, <1>4 DEF Weak
<1> QED BY <1>1, <1>3, <1>4, <1>5 DEF Knows, KnowsMore

\* binder_dec_node tells the owner of a node it knows.
LEMMA DecKnows ==
    ASSUME NEW s \in DriverRec, NEW n \in Node, Owned(s, n), Knows(s, n),
           NEW strong \in BOOLEAN, NEW internal \in BOOLEAN,
           (strong \/ ~internal) => CountOf(s.node[n], strong, internal) > 0
    PROVE  Knows(binder_dec_node(s, n, strong, internal), n)
<1> PICK r : r = binder_dec_node(s, n, strong, internal)
  OBVIOUS
<1>1. PICK c : /\ Recounted(s, c, n, strong, internal, -1)
               /\ Settled(c, r, n, Remain(c, n, strong))
  BY DecNode
<1>2. c \in DriverRec /\ c.node[n] # NULL /\ s.node[n] # NULL
  BY <1>1 DEF Recounted, Local, Owned
<1>3. KnowsMore(c, n, strong)
  BY <1>1, <1>2, KnowsLess
<1> QED BY <1>1, <1>2, <1>3, KnowsSettled

\* A claim that another of its kind stands beside changes nothing for the owner.
LEMMA KnowsRecounted ==
    ASSUME NEW s \in DriverRec, NEW n \in Node, Knows(s, n), s.node[n] # NULL,
           NEW strong \in BOOLEAN, NEW internal \in BOOLEAN,
           NEW c, Recounted(s, c, n, strong, internal, 1),
           strong => Strong(s.node[n]), Weak(s, n)
    PROVE  Knows(c, n)
<1> PICK x : x = s.node[n]
  OBVIOUS
<1> PICK y : y = c.node[n]
  OBVIOUS
<1>1. /\ y.proc = x.proc /\ y.has_strong = x.has_strong /\ y.has_weak = x.has_weak
      /\ y.internal_strong = IF strong /\ internal THEN x.internal_strong + 1 ELSE x.internal_strong
      /\ y.local_strong = IF strong /\ ~internal THEN x.local_strong + 1 ELSE x.local_strong
      /\ y.local_weak = IF ~strong /\ ~internal THEN x.local_weak + 1 ELSE x.local_weak
  BY DEF Recounted, WithCount
<1>2. x.local_strong \in Nat /\ x.internal_strong \in Nat /\ x.local_weak \in Nat
  BY NodeFields
<1>3. RefsTo(c, n) = RefsTo(s, n) /\ (Queued(c, n) <=> Queued(s, n))
  BY SameRefs, SameLists DEF Recounted, Local
<1>4. Strong(y) <=> Strong(x)
  BY <1>1, <1>2 DEF Strong
<1>5. Weak(c, n)
  BY <1>1, <1>2, <1>3, <1>4 DEF Weak
<1> QED BY <1>1, <1>3, <1>4, <1>5 DEF Knows

\* binder_inc_node for a handle: the first claim is told on a list, and a claim that
\* comes without one is not the first.
LEMMA IncKnows ==
    ASSUME NEW s \in DriverRec, NEW n \in Node, Owned(s, n), RefsTo(s, n) # {},
           NEW strong \in BOOLEAN, NEW list, ListFor(s, n, list),
           ~IncInvalid(s, n, strong, list),
           IF list = NULL THEN Knows(s, n) /\ (strong => Strong(s.node[n])) ELSE KnowsStrong(s, n)
    PROVE  Knows(binder_inc_node(s, n, strong, TRUE, list), n)
<1> PICK r : r = binder_inc_node(s, n, strong, TRUE, list)
  OBVIOUS
<1> PICK internal \in BOOLEAN : internal = TRUE
  OBVIOUS
<1>1. PICK c : /\ Recounted(s, c, n, strong, internal, 1)
               /\ Announced(c, r, n, strong, list)
  BY IncNode
<1> PICK x : x = s.node[n]
  OBVIOUS
<1> PICK y : y = c.node[n]
  OBVIOUS
<1>2. /\ r.node[n] = y
      /\ Queued(c, n) => Queued(r, n)
      /\ list # NULL /\ (IF strong THEN ~y.has_strong ELSE ~y.has_weak) => Queued(r, n)
  BY <1>1 DEF Announced
<1>3. RefsTo(c, n) = RefsTo(s, n) /\ (Queued(c, n) <=> Queued(s, n)) /\ RefsTo(r, n) = RefsTo(c, n)
  BY <1>1, SameRefs, SameLists DEF Recounted, Local, Announced
<1>4. x # NULL
  BY DEF Owned
<1>5. CASE list = NULL
  <2>1. Weak(s, n)
    BY DEF Weak
  <2>2. Knows(c, n)
    BY <1>1, <1>4, <1>5, <2>1, KnowsRecounted
  <2> QED BY <1>2, <1>3, <2>2, KnowsSame
<1>6. CASE list # NULL
  <2>1. /\ y.proc = x.proc /\ y.has_strong = x.has_strong /\ y.has_weak = x.has_weak
        /\ y.internal_strong = IF strong /\ internal THEN x.internal_strong + 1 ELSE x.internal_strong
        /\ y.local_strong = x.local_strong
    BY <1>1 DEF Recounted, WithCount
  <2>2. x.local_strong \in Nat /\ x.internal_strong \in Nat
    BY <1>4, NodeFields
  <2>3. (strong => Strong(y)) /\ (~strong => (Strong(y) <=> Strong(x)))
    BY <2>1, <2>2 DEF Strong
  <2>4. Weak(r, n)
    BY <1>3 DEF Weak
  <2>5. x.proc # NULL => /\ x.has_strong => x.has_weak
                         /\ (x.has_strong <=> Strong(x)) \/ Queued(s, n)
    BY <1>4, <1>6 DEF KnowsStrong
  <2> QED BY <1>2, <1>3, <1>6, <2>1, <2>3, <2>4, <2>5 DEF Knows
<1> QED BY <1>5, <1>6

-----------------------------------------------------------------------------
(* The invariant of the driver *)

\* L are the objects whose owner is alive, U the processes that may have references,
\* and BS and BW the strong and weak claims that the buffers make.
Good(s, L, U, BS, BW) ==
    /\ s \in DriverRec
    /\ \A n \in Node : NodeOK(s, L, n, BS[n], BW[n])
    /\ \A p \in Proc, d \in Desc : s.refs[p][d] # NULL => p \in U
    /\ \A p \in Proc, d, e \in Desc :
          s.refs[p][d] # NULL /\ s.refs[p][e] # NULL /\ s.refs[p][d].node = s.refs[p][e].node => d = e
    /\ s.ctx # NULL => s.node[s.ctx] # NULL /\ s.ctx \in L

\* The claims of BT and BX are those of BS and BW, with k more of a kind on n.
Claims(BS, BW, BT, BX, n, strong, k) ==
    \A m \in Node : /\ BT[m] = IF m = n /\ strong THEN BS[m] + k ELSE BS[m]
                    /\ BX[m] = IF m = n /\ ~strong THEN BW[m] + k ELSE BW[m]

\* They differ on n at most.
SameClaims(BS, BW, BT, BX, n) ==
    \A m \in Node \ {n} : BT[m] = BS[m] /\ BX[m] = BW[m]

\* A node that there is has an owner or is nobody's.
LEMMA GoodOwned ==
    ASSUME NEW s, NEW L, NEW U, NEW BS, NEW BW, Good(s, L, U, BS, BW),
           NEW n \in Node, s.node[n] # NULL
    PROVE  s \in DriverRec /\ Owned(s, n)
BY RefsAssumption DEF Good, NodeOK, NodeMid, Owned

\* What happens to n alone keeps the invariant when it does for n.
LEMMA GoodLocal ==
    ASSUME NEW s, NEW L, NEW U, NEW BS, NEW BW, Good(s, L, U, BS, BW),
           NEW BT, NEW BX, NEW n \in Node, NEW r, Local(s, r, n),
           SameClaims(BS, BW, BT, BX, n),
           NodeOK(r, L, n, BT[n], BX[n]),
           s.ctx = n => r.node[n] # NULL
    PROVE  Good(r, L, U, BT, BX)
<1>1. r \in DriverRec /\ r.ctx = s.ctx /\ r.refs = s.refs
      /\ \A m \in Node \ {n} : r.node[m] = s.node[m]
  BY DEF Local
<1>2. ASSUME NEW m \in Node
      PROVE  NodeOK(r, L, m, BT[m], BX[m])
  <2>1. CASE m = n
    BY <2>1
  <2>2. CASE m # n
    <3>1. NodeOK(s, L, m, BS[m], BW[m])
      BY DEF Good
    <3>2. NodeOK(r, L, m, BS[m], BW[m])
      BY <2>2, <3>1, LocalOthers
    <3> QED BY <2>2, <3>2 DEF SameClaims
  <2> QED BY <2>1, <2>2
<1>3. r.ctx # NULL => r.node[r.ctx] # NULL /\ r.ctx \in L
  <2>1. s.ctx # NULL => s.node[s.ctx] # NULL /\ s.ctx \in L /\ s.ctx \in Node
    BY Types, RefsAssumption DEF Good
  <2> QED BY <1>1, <2>1
<1> QED BY <1>1, <1>2, <1>3 DEF Good

\* What a condition counts for.
LEMMA Ones == /\ One(TRUE) = 1 /\ One(FALSE) = 0
              /\ \A b \in BOOLEAN : One(b) \in {0, 1}
BY DEF One

\* Counting a claim of the node's own process.
LEMMA CountedOK ==
    ASSUME NEW s \in DriverRec, NEW n \in Node, NEW L, n \in L, NEW bs, NEW bw,
           NodeOK(s, L, n, bs, bw), s.node[n] # NULL,
           NEW strong \in BOOLEAN, NEW k \in {1, -1},
           NEW r, Recounted(s, r, n, strong, FALSE, k),
           NEW bt \in Nat, NEW bx \in Nat,
           bt = IF strong THEN bs + k ELSE bs,
           bx = IF strong THEN bw ELSE bw + k
    PROVE  NodeMid(r, L, n, bt, bx)
<1> PICK a : a = Ctx(n)
  OBVIOUS
<1> PICK b : b = One(s.node[n].pending_strong)
  OBVIOUS
<1> PICK c : c = One(s.node[n].pending_weak)
  OBVIOUS
<1>1. /\ Local(s, r, n) /\ r.todo = s.todo /\ r.proc_todo = s.proc_todo /\ r.node[n] # NULL
      /\ r.refs = s.refs
      /\ WithCount(s.node[n], r.node[n], strong, FALSE, k)
  BY DEF Recounted, Local
<1>2. /\ RefsTo(r, n) = RefsTo(s, n) /\ StrongRefs(r, n) = StrongRefs(s, n)
      /\ OwnLists(r, n) <=> OwnLists(s, n)
  BY <1>1, SameRefs, SameLists
<1>3. a \in Nat /\ b \in Nat /\ c \in Nat /\ k \in Int
  BY DEF One, Ctx
<1>4. /\ s.node[n].local_strong = bs + b + a
      /\ s.node[n].local_weak = bw + c + a
      /\ s.node[n].proc = Owner[n] /\ OwnLists(s, n)
      /\ s.node[n].internal_strong = Cardinality(StrongRefs(s, n))
      /\ Answers(s.node[n])
  BY DEF NodeOK, NodeMid
<1>5. bs \in Nat /\ bw \in Nat
  BY DEF NodeOK, NodeMid
<1>6. /\ r.node[n].local_strong = IF strong THEN bs + b + a + k ELSE bs + b + a
      /\ r.node[n].local_weak = IF strong THEN bw + c + a ELSE bw + c + a + k
  BY <1>1, <1>4 DEF WithCount
<1>7. r.node[n].local_strong = bt + b + a
  <2>1. bs + b + a + k = bs + k + b + a
    BY <1>3, <1>5
  <2> QED BY <1>6, <2>1
<1>8. r.node[n].local_weak = bx + c + a
  <2>1. bw + c + a + k = bw + k + c + a
    BY <1>3, <1>5
  <2> QED BY <1>6, <2>1
<1>9. /\ r.node[n].proc = Owner[n]
      /\ r.node[n].pending_strong = s.node[n].pending_strong
      /\ r.node[n].pending_weak = s.node[n].pending_weak
      /\ r.node[n].internal_strong = s.node[n].internal_strong
      /\ Answers(r.node[n])
  BY <1>1, <1>4 DEF WithCount, Answers
<1> QED BY <1>1, <1>2, <1>4, <1>7, <1>8, <1>9 DEF NodeMid

\* A node that settles is as it should be between two operations.
LEMMA SettledOK ==
    ASSUME NEW s \in DriverRec, NEW n \in Node, NEW L, NEW bs, NEW bw,
           NodeMid(s, L, n, bs, bw), s.node[n] # NULL,
           NEW r, NEW counts, Settled(s, r, n, counts)
    PROVE  /\ NodeOK(r, L, n, bs, bw)
           /\ n \in CtxNode /\ n \in L => r.node[n] # NULL
           /\ RefsTo(s, n) # {} => r.node[n] = s.node[n]
<1>1. /\ Local(s, r, n) /\ OwnLists(r, n)
      /\ r.refs = s.refs
      /\ RefsTo(r, n) = RefsTo(s, n) /\ StrongRefs(r, n) = StrongRefs(s, n)
  BY SameRefs DEF Settled, Local
<1>2. CASE /\ r.node[n] = s.node[n]
           /\ Queued(s, n) => Queued(r, n)
           /\ s.node[n].proc = NULL =>
                /\ Queued(r, n) => Queued(s, n)
                /\ \/ RefsTo(s, n) # {}
                   \/ s.node[n].local_strong # 0
                   \/ s.node[n].local_weak # 0
                   \/ s.node[n].internal_strong # 0
  <2>1. NodeMid(r, L, n, bs, bw)
    BY <1>1, <1>2 DEF NodeMid
  <2>2. ASSUME n \notin L
        PROVE  RefsTo(s, n) # {}
    <3>1. RefsTo(s, n) # {} \/ s.node[n].internal_strong # 0
      BY <1>2, <2>2 DEF NodeMid
    <3>2. s.node[n].internal_strong = Cardinality(StrongRefs(s, n))
      BY DEF NodeMid
    <3>3. RefsTo(s, n) = {} => StrongRefs(s, n) = {}
      BY DEF StrongRefs
    <3> QED BY <3>1, <3>2, <3>3, FS_EmptySet
  <2> QED BY <1>1, <1>2, <2>1, <2>2 DEF NodeOK
<1>3. CASE /\ r.node[n] = NULL
           /\ ~Queued(r, n)
           /\ RefsTo(s, n) = {}
           /\ s.node[n].local_strong = 0 /\ s.node[n].local_weak = 0
  <2> PICK a : a = Ctx(n)
    OBVIOUS
  <2> PICK b : b = One(s.node[n].pending_strong)
    OBVIOUS
  <2> PICK c : c = One(s.node[n].pending_weak)
    OBVIOUS
  <2>1. a \in Nat /\ b \in Nat /\ c \in Nat
    BY DEF One, Ctx
  <2>2. bs \in Nat /\ bw \in Nat
    BY DEF NodeMid
  <2>3. n \in L => 0 = bs + b + a /\ 0 = bw + c + a
    BY <1>3 DEF NodeMid
  <2>4. n \in L => bs = 0 /\ bw = 0 /\ a = 0
    <3> SUFFICES ASSUME n \in L
                 PROVE  bs = 0 /\ bw = 0 /\ a = 0
      OBVIOUS
    <3>1. 0 = bs + b + a
      BY <2>3
    <3>2. 0 = bw + c + a
      BY <2>3
    <3>3. bs = 0 /\ a = 0
      BY <2>1, <2>2, <3>1
    <3>4. bw = 0
      BY <2>1, <2>2, <3>2
    <3> QED BY <3>3, <3>4
  <2>5. bs = 0 /\ bw = 0
    BY <2>4 DEF NodeMid
  <2>6. n \in L => n \notin CtxNode
    BY <2>4 DEF Ctx
  <2>7. NodeMid(r, L, n, bs, bw)
    BY <1>1, <1>3, <2>2, <2>5 DEF NodeMid
  <2> QED BY <1>3, <2>6, <2>7 DEF NodeOK
<1> QED BY <1>2, <1>3 DEF Settled

\* The counts of the node's own process.
IncLocal(s, n, strong) == binder_inc_node(s, n, strong, FALSE, NULL)
DecLocal(s, n, strong) == binder_dec_node(s, n, strong, FALSE)

\* Its own process claims an object once more.
LEMMA GoodIncLocal ==
    ASSUME NEW s, NEW L, NEW U, NEW BS, NEW BW, Good(s, L, U, BS, BW),
           NEW n \in Node, n \in L, s.node[n] # NULL, NEW strong \in BOOLEAN,
           NEW BT, NEW BX, Claims(BS, BW, BT, BX, n, strong, 1),
           NEW r, r = IncLocal(s, n, strong)
    PROVE  /\ Good(r, L, U, BT, BX) /\ r.refs = s.refs
           /\ (strong => Strong(s.node[n])) /\ Weak(s, n) => Informs(s, r)
<1> PICK k \in {1, -1} : k = 1
  OBVIOUS
<1>1. s \in DriverRec /\ Owned(s, n)
  BY GoodOwned
<1>2. Recounted(s, r, n, strong, FALSE, k)
  BY <1>1, IncLocalNode DEF IncLocal
<1>3. /\ BT[n] = IF strong THEN BS[n] + k ELSE BS[n]
      /\ BX[n] = IF strong THEN BW[n] ELSE BW[n] + k
  BY DEF Claims
<1>4. NodeOK(s, L, n, BS[n], BW[n])
  BY DEF Good
<1>5. BS[n] \in Nat /\ BW[n] \in Nat
  BY <1>4 DEF NodeOK, NodeMid
<1>6. BT[n] \in Nat /\ BX[n] \in Nat
  BY <1>3, <1>5
<1>7. NodeMid(r, L, n, BT[n], BX[n])
  BY <1>1, <1>2, <1>3, <1>4, <1>6, CountedOK
<1>8. NodeOK(r, L, n, BT[n], BX[n])
  BY <1>7 DEF NodeOK
<1>9. SameClaims(BS, BW, BT, BX, n)
  BY DEF Claims, SameClaims
<1>10. Local(s, r, n) /\ (s.ctx = n => r.node[n] # NULL)
  BY <1>2 DEF Recounted
<1>11. Good(r, L, U, BT, BX)
  BY <1>8, <1>9, <1>10, GoodLocal
<1>12. ASSUME strong => Strong(s.node[n]), Weak(s, n), Informed(s)
       PROVE  Informed(r)
  <2> PICK internal \in BOOLEAN : internal = FALSE
    OBVIOUS
  <2>1. Recounted(s, r, n, strong, internal, 1)
    BY <1>2
  <2>2. Knows(s, n)
    BY <1>12 DEF Informed
  <2>3. Knows(r, n)
    BY <1>1, <1>12, <2>1, <2>2, KnowsRecounted
  <2> QED BY <1>10, <1>12, <2>3, InformsLocal
<1> QED BY <1>10, <1>11, <1>12 DEF Local, Informs

\* There are claims of the kind on n.
Some(BS, BW, n, strong) == IF strong THEN BS[n] > 0 ELSE BW[n] > 0

\* Its own process gives a claim back.
LEMMA GoodDecLocal ==
    ASSUME NEW s, NEW L, NEW U, NEW BS, NEW BW, Good(s, L, U, BS, BW),
           NEW n \in Node, NEW strong \in BOOLEAN,
           Some(BS, BW, n, strong),
           NEW BT, NEW BX, Claims(BS, BW, BT, BX, n, strong, -1),
           NEW r, r = DecLocal(s, n, strong)
    PROVE  Good(r, L, U, BT, BX) /\ r.refs = s.refs /\ Informs(s, r)
<1> PICK k \in {1, -1} : k = -1
  OBVIOUS
<1>1. NodeOK(s, L, n, BS[n], BW[n])
  BY DEF Good
<1>2. BS[n] \in Nat /\ BW[n] \in Nat
  BY <1>1 DEF NodeOK, NodeMid
<1>3. s.node[n] # NULL /\ n \in L
  BY <1>1, <1>2 DEF NodeOK, NodeMid, Some
<1>4. s \in DriverRec /\ Owned(s, n)
  BY <1>3, GoodOwned
<1>5. /\ BT[n] = IF strong THEN BS[n] + k ELSE BS[n]
      /\ BX[n] = IF strong THEN BW[n] ELSE BW[n] + k
  BY DEF Claims
<1>6. BT[n] \in Nat /\ BX[n] \in Nat
  BY <1>2, <1>5 DEF Some
<1>7. CountOf(s.node[n], strong, FALSE) > 0
  <2> PICK a : a = Ctx(n)
    OBVIOUS
  <2> PICK b : b = One(s.node[n].pending_strong)
    OBVIOUS
  <2> PICK c : c = One(s.node[n].pending_weak)
    OBVIOUS
  <2>1. a \in Nat /\ b \in Nat /\ c \in Nat
    BY DEF One, Ctx
  <2>2. /\ s.node[n].local_strong = BS[n] + b + a
        /\ s.node[n].local_weak = BW[n] + c + a
    BY <1>1, <1>3 DEF NodeOK, NodeMid
  <2>3. CASE strong
    <3>1. CountOf(s.node[n], strong, FALSE) = BS[n] + b + a
      BY <2>2, <2>3 DEF CountOf
    <3> PICK x \in Nat : x = BS[n]
      BY <1>2
    <3>2. x > 0
      BY <2>3 DEF Some
    <3>3. x + b + a > 0
      BY <2>1, <3>2
    <3> QED BY <3>1, <3>3
  <2>4. CASE ~strong
    <3>1. CountOf(s.node[n], strong, FALSE) = BW[n] + c + a
      BY <2>2, <2>4 DEF CountOf
    <3> PICK x \in Nat : x = BW[n]
      BY <1>2
    <3>2. x > 0
      BY <2>4 DEF Some
    <3>3. x + c + a > 0
      BY <2>1, <3>2
    <3> QED BY <3>1, <3>3
  <2> QED BY <2>3, <2>4
<1>8. PICK c : /\ Recounted(s, c, n, strong, FALSE, k)
               /\ Settled(c, r, n, Remain(c, n, strong))
  BY <1>4, <1>7, DecNode DEF DecLocal
<1>9. NodeMid(c, L, n, BT[n], BX[n])
  BY <1>1, <1>3, <1>4, <1>5, <1>6, <1>8, CountedOK
<1>10. /\ c \in DriverRec /\ c.node[n] # NULL /\ Local(s, c, n) /\ Local(c, r, n)
  BY <1>8 DEF Recounted, Local, Settled
<1>11. /\ NodeOK(r, L, n, BT[n], BX[n])
       /\ n \in CtxNode /\ n \in L => r.node[n] # NULL
  BY <1>8, <1>9, <1>10, SettledOK
<1>12. SameClaims(BS, BW, BT, BX, n)
  BY DEF Claims, SameClaims
<1>13. Local(s, r, n)
  BY <1>10, LocalTrans
<1>14. s.ctx = n => r.node[n] # NULL
  <2>1. s.ctx \in CtxNode \cup {NULL} /\ n # NULL
    BY <1>4, Types, RefsAssumption
  <2> QED BY <1>3, <1>11, <2>1
<1>15. Good(r, L, U, BT, BX)
  BY <1>11, <1>12, <1>13, <1>14, GoodLocal
<1>16. Informs(s, r)
  <2> SUFFICES ASSUME Informed(s)
               PROVE  Informed(r)
    BY DEF Informs
  <2> PICK internal \in BOOLEAN : internal = FALSE
    OBVIOUS
  <2>1. r = binder_dec_node(s, n, strong, internal) /\ CountOf(s.node[n], strong, internal) > 0
    BY <1>7 DEF DecLocal
  <2>2. Knows(s, n)
    BY DEF Informed
  <2>3. Knows(r, n)
    BY <1>4, <2>1, <2>2, DecKnows
  <2> QED BY <1>13, <2>3, InformsLocal
<1> QED BY <1>13, <1>15, <1>16 DEF Local

-----------------------------------------------------------------------------
(* References *)

\* r and s have the same references but for p's handle d.
OtherRefs(s, r, p, d) ==
    \A q \in Proc, e \in Desc : q # p \/ e # d => r.refs[q][e] = s.refs[q][e]

\* Where the references are the same, the others are.
LEMMA OtherSame ==
    ASSUME NEW s, NEW c, NEW r, NEW p, NEW d, c.refs = s.refs, OtherRefs(c, r, p, d)
    PROVE  OtherRefs(s, r, p, d)
BY DEF OtherRefs

\* r is s with y written to p's handle d.
WroteRef(s, r, p, d, y) == r = [s EXCEPT !.refs[p][d] = y]

WrittenRef(s, r, p, d, y) ==
    /\ r \in DriverRec
    /\ r.ctx = s.ctx /\ r.node = s.node /\ r.todo = s.todo /\ r.proc_todo = s.proc_todo
    /\ OtherRefs(s, r, p, d)
    /\ r.refs[p][d] = y

\* Writing one reference.
LEMMA WrittenReference ==
    ASSUME NEW s \in DriverRec, NEW p \in Proc, NEW d \in Desc, NEW y \in RefRec \cup {NULL},
           NEW r, WroteRef(s, r, p, d, y)
    PROVE  WrittenRef(s, r, p, d, y)
<1> DEFINE N == [s.refs EXCEPT ![p] = [s.refs[p] EXCEPT ![d] = y]]
<1>0. s.refs \in [Proc -> [Desc -> RefRec \cup {NULL}]] /\ s.refs[p] \in [Desc -> RefRec \cup {NULL}]
  BY Types
<1>1. /\ r.ctx = s.ctx /\ r.node = s.node /\ r.refs = N
      /\ r.todo = s.todo /\ r.proc_todo = s.proc_todo
      /\ r = [ctx |-> s.ctx, node |-> s.node, refs |-> N, todo |-> s.todo, proc_todo |-> s.proc_todo]
  BY <1>0 DEF DriverRec, WroteRef
<1>2. [s.refs[p] EXCEPT ![d] = y] \in [Desc -> RefRec \cup {NULL}]
  BY <1>0
<1>3. N \in [Proc -> [Desc -> RefRec \cup {NULL}]]
  BY <1>0, <1>2
<1>4. /\ N[p][d] = y
      /\ \A q \in Proc, e \in Desc : q # p \/ e # d => N[q][e] = s.refs[q][e]
  BY <1>0
<1> HIDE DEF N
<1>5. r \in DriverRec
  BY <1>1, <1>3, Types DEF DriverRec
<1> QED BY <1>1, <1>4, <1>5 DEF WrittenRef, OtherRefs

\* A reference that is not NULL has the fields of one.
LEMMA RefFields ==
    ASSUME NEW s \in DriverRec, NEW p \in Proc, NEW d \in Desc, s.refs[p][d] # NULL
    PROVE  /\ s.refs[p][d] \in RefRec
           /\ s.refs[p][d].node \in Node
           /\ s.refs[p][d].strong \in Nat
           /\ s.refs[p][d].weak \in Nat
<1>1. s.refs[p][d] \in RefRec
  BY Types
<1> QED BY <1>1 DEF RefRec

\* The references to m in r are those in s but for p's handle d, which is k.
RefsChange(s, r, p, d, k, m) ==
    /\ \A x : x # k => (x \in RefsTo(r, m) <=> x \in RefsTo(s, m))
    /\ \A x : x # k => (x \in StrongRefs(r, m) <=> x \in StrongRefs(s, m))
    /\ k \in RefsTo(r, m) <=> r.refs[p][d] # NULL /\ r.refs[p][d].node = m
    /\ k \in StrongRefs(r, m) <=>
          r.refs[p][d] # NULL /\ r.refs[p][d].node = m /\ r.refs[p][d].strong > 0
    /\ k \in RefsTo(s, m) <=> s.refs[p][d] # NULL /\ s.refs[p][d].node = m
    /\ k \in StrongRefs(s, m) <=>
          s.refs[p][d] # NULL /\ s.refs[p][d].node = m /\ s.refs[p][d].strong > 0

\* Of a node's references only the one that is written changes.
LEMMA ChangedRefs ==
    ASSUME NEW s, NEW r, NEW p \in Proc, NEW d \in Desc, OtherRefs(s, r, p, d), NEW m,
           NEW k, k = <<p, d>>
    PROVE  RefsChange(s, r, p, d, k, m)
<1>1. ASSUME NEW x \in Proc \X Desc, x # <<p, d>>
      PROVE  r.refs[x[1]][x[2]] = s.refs[x[1]][x[2]]
  <2>1. x = <<x[1], x[2]>> /\ x[1] \in Proc /\ x[2] \in Desc
    OBVIOUS
  <2>2. x[1] # p \/ x[2] # d
    BY <1>1, <2>1
  <2> QED BY <2>1, <2>2 DEF OtherRefs
<1>2. ASSUME NEW x, x # k
      PROVE  (x \in RefsTo(r, m) <=> x \in RefsTo(s, m)) /\ (x \in StrongRefs(r, m) <=> x \in StrongRefs(s, m))
  <2>1. CASE x \in Proc \X Desc
    BY <1>1, <1>2, <2>1 DEF RefsTo, StrongRefs
  <2>2. CASE x \notin Proc \X Desc
    BY <2>2 DEF RefsTo, StrongRefs
  <2> QED BY <2>1, <2>2
<1>3. k \in Proc \X Desc /\ k[1] = p /\ k[2] = d
  OBVIOUS
<1>4. /\ k \in RefsTo(r, m) <=> r.refs[p][d] # NULL /\ r.refs[p][d].node = m
      /\ k \in RefsTo(s, m) <=> s.refs[p][d] # NULL /\ s.refs[p][d].node = m
  BY <1>3 DEF RefsTo
<1>5. /\ k \in StrongRefs(r, m) <=> k \in RefsTo(r, m) /\ r.refs[p][d].strong > 0
      /\ k \in StrongRefs(s, m) <=> k \in RefsTo(s, m) /\ s.refs[p][d].strong > 0
  BY <1>3 DEF StrongRefs
<1> QED BY <1>2, <1>4, <1>5 DEF RefsChange

\* There are finitely many references.
LEMMA RefsFinite ==
    ASSUME NEW s, NEW n
    PROVE  IsFiniteSet(RefsTo(s, n)) /\ IsFiniteSet(StrongRefs(s, n))
<1>1. IsFiniteSet(Desc)
  <2>1. Cardinality(Node) \in Nat
    BY RefsAssumption, FS_CardinalityType
  <2> QED BY <2>1, FS_Interval, RefsAssumption
<1>2. IsFiniteSet(Proc \X Desc)
  BY <1>1, RefsAssumption, FS_Product
<1>3. RefsTo(s, n) \in SUBSET (Proc \X Desc) /\ StrongRefs(s, n) \in SUBSET (Proc \X Desc)
  BY DEF RefsTo, StrongRefs
<1> QED BY <1>2, <1>3, FS_Subset

\* A node with the same record, lists and references is as it was.
LEMMA Unchanged ==
    ASSUME NEW s, NEW r, NEW m, NEW L, NEW bs, NEW bw,
           r.node[m] = s.node[m],
           Queued(r, m) <=> Queued(s, m), OwnLists(s, m) => OwnLists(r, m),
           RefsTo(r, m) = RefsTo(s, m), StrongRefs(r, m) = StrongRefs(s, m)
    PROVE  NodeOK(s, L, m, bs, bw) => NodeOK(r, L, m, bs, bw)
BY DEF NodeOK, NodeMid

\* r differs from s only in p's handle d for n, in the node n and in where n is listed.
Near(s, r, p, d, n) ==
    /\ r \in DriverRec
    /\ r.ctx = s.ctx
    /\ OtherRefs(s, r, p, d)
    /\ s.refs[p][d] # NULL => s.refs[p][d].node = n
    /\ r.refs[p][d] # NULL => r.refs[p][d].node = n
    /\ \A m \in Node \ {n} : /\ r.node[m] = s.node[m]
                             /\ Queued(r, m) <=> Queued(s, m)
                             /\ OwnLists(s, m) => OwnLists(r, m)

\* The references to n, when p's handle d is for n if it is for any object.
NearTo(s, r, p, d, k, n) ==
    /\ \A x : x # k => (x \in RefsTo(r, n) <=> x \in RefsTo(s, n))
    /\ \A x : x # k => (x \in StrongRefs(r, n) <=> x \in StrongRefs(s, n))
    /\ k \in RefsTo(r, n) <=> r.refs[p][d] # NULL
    /\ k \in StrongRefs(r, n) <=> r.refs[p][d] # NULL /\ r.refs[p][d].strong > 0
    /\ k \in RefsTo(s, n) <=> s.refs[p][d] # NULL
    /\ k \in StrongRefs(s, n) <=> s.refs[p][d] # NULL /\ s.refs[p][d].strong > 0

\* A change near one reference leaves the other references to the node.
LEMMA NearRefs ==
    ASSUME NEW s, NEW r, NEW p \in Proc, NEW d \in Desc, NEW n, Near(s, r, p, d, n),
           NEW k, k = <<p, d>>
    PROVE  NearTo(s, r, p, d, k, n)
<1>1. RefsChange(s, r, p, d, k, n)
  BY ChangedRefs DEF Near
<1>2. /\ s.refs[p][d] # NULL => s.refs[p][d].node = n
      /\ r.refs[p][d] # NULL => r.refs[p][d].node = n
  BY DEF Near
<1> QED BY <1>1, <1>2 DEF RefsChange, NearTo

\* The references to the other nodes are the same.
LEMMA NearOthers ==
    ASSUME NEW s, NEW r, NEW p \in Proc, NEW d \in Desc, NEW n, Near(s, r, p, d, n),
           NEW m, m # n
    PROVE  RefsTo(r, m) = RefsTo(s, m) /\ StrongRefs(r, m) = StrongRefs(s, m)
<1> PICK k : k = <<p, d>>
  OBVIOUS
<1>1. RefsChange(s, r, p, d, k, m)
  BY ChangedRefs DEF Near
<1>2. /\ s.refs[p][d] # NULL => s.refs[p][d].node # m
      /\ r.refs[p][d] # NULL => r.refs[p][d].node # m
  BY DEF Near
<1>3. \A x : x \in RefsTo(r, m) <=> x \in RefsTo(s, m)
  BY <1>1, <1>2 DEF RefsChange
<1>4. \A x : x \in StrongRefs(r, m) <=> x \in StrongRefs(s, m)
  BY <1>1, <1>2 DEF RefsChange
<1> QED BY <1>3, <1>4

\* What happens to one reference and its node keeps the invariant when it does for
\* the node.
LEMMA GoodNear ==
    ASSUME NEW s, NEW L, NEW U, NEW BS, NEW BW, Good(s, L, U, BS, BW),
           NEW p \in Proc, NEW d \in Desc, NEW n \in Node, NEW r, Near(s, r, p, d, n),
           NodeOK(r, L, n, BS[n], BW[n]),
           s.ctx = n => r.node[n] # NULL,
           r.refs[p][d] # NULL => p \in U,
           r.refs[p][d] # NULL /\ s.refs[p][d] = NULL => HandleOf(s, p, n) = {}
    PROVE  Good(r, L, U, BS, BW)
<1>1. ASSUME NEW m \in Node
      PROVE  NodeOK(r, L, m, BS[m], BW[m])
  <2>1. CASE m = n
    BY <2>1
  <2>2. CASE m # n
    <3>1. NodeOK(s, L, m, BS[m], BW[m])
      BY DEF Good
    <3>2. /\ r.node[m] = s.node[m]
          /\ Queued(r, m) <=> Queued(s, m)
          /\ OwnLists(s, m) => OwnLists(r, m)
      BY <2>2 DEF Near
    <3>3. RefsTo(r, m) = RefsTo(s, m) /\ StrongRefs(r, m) = StrongRefs(s, m)
      BY <2>2, NearOthers
    <3> QED BY <3>1, <3>2, <3>3, Unchanged
  <2> QED BY <2>1, <2>2
<1>2. ASSUME NEW q \in Proc, NEW e \in Desc, r.refs[q][e] # NULL
      PROVE  q \in U
  <2>1. CASE q = p /\ e = d
    BY <1>2, <2>1
  <2>2. CASE ~(q = p /\ e = d)
    BY <1>2, <2>2 DEF Near, OtherRefs, Good
  <2> QED BY <2>1, <2>2
<1>3. ASSUME NEW q \in Proc, NEW e \in Desc, NEW f \in Desc,
             r.refs[q][e] # NULL, r.refs[q][f] # NULL, r.refs[q][e].node = r.refs[q][f].node
      PROVE  e = f
  <2>0. OtherRefs(s, r, p, d)
    BY DEF Near
  <2>1. CASE q # p \/ (e # d /\ f # d)
    BY <1>3, <2>0, <2>1 DEF OtherRefs, Good
  <2>2. ASSUME r.refs[p][d] # NULL, NEW g \in Desc, g # d, r.refs[p][g] # NULL
        PROVE  r.refs[p][g].node # r.refs[p][d].node
    <3>1. r.refs[p][g] = s.refs[p][g] /\ r.refs[p][d].node = n
      BY <2>0, <2>2 DEF OtherRefs, Near
    <3>2. CASE s.refs[p][d] = NULL
      BY <2>2, <3>1, <3>2 DEF HandleOf
    <3>3. CASE s.refs[p][d] # NULL
      <4>1. s.refs[p][d].node = n
        BY <3>3 DEF Near
      <4> QED BY <2>2, <3>1, <3>3, <4>1 DEF Good
    <3> QED BY <3>2, <3>3
  <2> QED BY <1>3, <2>1, <2>2
<1>4. r.ctx # NULL => r.node[r.ctx] # NULL /\ r.ctx \in L
  <2>1. s.ctx # NULL => s.node[s.ctx] # NULL /\ s.ctx \in L /\ s.ctx \in Node
    BY Types, RefsAssumption DEF Good
  <2> QED BY <2>1 DEF Near
<1> QED BY <1>1, <1>2, <1>3, <1>4 DEF Good, Near

\* Where p's handle d stays, or stays free, the references to its node stay.
LEMMA NearKept ==
    ASSUME NEW s, NEW r, NEW p \in Proc, NEW d \in Desc, NEW n, Near(s, r, p, d, n),
           s.refs[p][d] = NULL <=> r.refs[p][d] = NULL
    PROVE  RefsTo(r, n) = RefsTo(s, n)
<1> PICK k : k = <<p, d>>
  OBVIOUS
<1>1. NearTo(s, r, p, d, k, n)
  BY NearRefs
<1>2. \A x : x \in RefsTo(r, n) <=> x \in RefsTo(s, n)
  BY <1>1 DEF NearTo
<1> QED BY <1>2

\* What happens to one reference and its node leaves what is known of the others.
LEMMA InformsNear ==
    ASSUME NEW s, NEW r, NEW p \in Proc, NEW d \in Desc, NEW n, Near(s, r, p, d, n),
           \A m \in Node : m # n => Knows(s, m), Knows(r, n)
    PROVE  Informed(r)
<1> SUFFICES ASSUME NEW m \in Node, m # n
             PROVE  Knows(r, m)
  BY DEF Informed
<1>1. RefsTo(r, m) = RefsTo(s, m)
  BY NearOthers
<1>2. r.node[m] = s.node[m] /\ (Queued(r, m) <=> Queued(s, m)) /\ Knows(s, m)
  BY DEF Near
<1> QED BY <1>1, <1>2, KnowsSame

\* What is known when p's handle d is about to gain a claim: a strong claim that
\* comes without a list is not the node's first, and what the owner was not told of is
\* a reference that has just been made.
InformedBut(s, p, d, strong, list) ==
    LET n == s.refs[p][d].node
    IN /\ \A m \in Node : m # n => Knows(s, m)
       /\ \/ /\ Knows(s, n)
             /\ list = NULL /\ strong => Strong(s.node[n])
          \/ /\ KnowsStrong(s, n)
             /\ list # NULL
             /\ s.refs[p][d].strong = 0 /\ s.refs[p][d].weak = 0


\* A process that has no handle for n has a handle to spare: it has at most one for
\* each of the other nodes.
LEMMA HandleToSpare ==
    ASSUME NEW s, NEW L, NEW U, NEW BS, NEW BW, Good(s, L, U, BS, BW),
           NEW p \in Proc, NEW n \in Node, HandleOf(s, p, n) = {}
    PROVE  FreeDesc(s, p, n) \in Desc /\ s.refs[p][FreeDesc(s, p, n)] = NULL
<1> DEFINE Spare == {d \in Desc : s.refs[p][d] = NULL /\ (d = 0 => n = s.ctx)}
           F == [d \in 1 .. Cardinality(Node) |-> s.refs[p][d].node]
<1>0. s \in DriverRec
  BY DEF Good
<1>1. IsFiniteSet(Node) /\ Cardinality(Node) \in Nat /\ Desc = 0 .. Cardinality(Node)
  BY RefsAssumption, FS_CardinalityType
<1>2. Spare # {}
  <2> SUFFICES ASSUME Spare = {}
               PROVE  FALSE
    OBVIOUS
  <2> PICK N \in Nat : N = Cardinality(Node)
    BY <1>1
  <2>1. \A d \in 1 .. N : d \in Desc /\ d # 0
    BY <1>1
  <2>2. \A d \in 1 .. N : s.refs[p][d] # NULL
    BY <2>1
  <2>3. \A d \in 1 .. N : s.refs[p][d].node \in Node
    BY <1>0, <2>1, <2>2, RefFields
  <2>4. \A d \in 1 .. N : s.refs[p][d].node # n
    BY <2>1, <2>2 DEF HandleOf
  <2>5. \A d, e \in 1 .. N : s.refs[p][d].node = s.refs[p][e].node => d = e
    BY <2>1, <2>2 DEF Good
  <2>6. F \in Injection(1 .. N, Node \ {n})
    <3>1. F \in [1 .. N -> Node \ {n}]
      BY <2>3, <2>4
    <3>2. \A d, e \in 1 .. N : F[d] = F[e] => d = e
      BY <2>5
    <3> HIDE DEF F
    <3> QED BY <3>1, <3>2 DEF Injection, IsInjective
  <2>7. IsFiniteSet(Node \ {n}) /\ Cardinality(Node \ {n}) = N - 1
    BY <1>1, FS_RemoveElement
  <2>8. Cardinality(1 .. N) = N
    <3>1. \A a, b \in Int : Cardinality(a .. b) = IF a > b THEN 0 ELSE b - a + 1
      BY FS_Interval
    <3>2. 1 \in Int /\ N \in Int
      OBVIOUS
    <3>3. Cardinality(1 .. N) = IF 1 > N THEN 0 ELSE N - 1 + 1
      BY <3>1, <3>2
    <3> QED BY <3>3
  <2>9. Cardinality(1 .. N) <= Cardinality(Node \ {n})
    <3> HIDE DEF F
    <3> QED BY <2>6, <2>7, FS_Injection
  <2> QED BY <2>7, <2>8, <2>9
<1>3. Spare \subseteq Nat
  BY <1>1
<1>4. FreeDesc(s, p, n) = Min(Spare)
  BY DEF FreeDesc
<1>5. Min(Spare) \in Spare
  <2> HIDE DEF Spare
  <2> QED BY <1>2, <1>3, MinIn
<1> QED BY <1>4, <1>5

\* r is s with a reference of p to n, which has the handle d.
GotRef(s, r, p, n, d) ==
    /\ d \in Desc
    /\ r \in DriverRec
    /\ r.ctx = s.ctx /\ r.node = s.node /\ r.todo = s.todo /\ r.proc_todo = s.proc_todo
    /\ OtherRefs(s, r, p, d)
    /\ r.refs[p][d] # NULL /\ r.refs[p][d].node = n
    /\ \/ r = s
       \/ s.refs[p][d] = NULL /\ r.refs[p][d].strong = 0 /\ r.refs[p][d].weak = 0

\* binder_get_ref_for_node finds the reference, or makes it.
LEMMA GetRef ==
    ASSUME NEW s, NEW L, NEW U, NEW BS, NEW BW, Good(s, L, U, BS, BW),
           NEW p \in Proc, p \in U, NEW n \in Node, s.node[n] # NULL
    PROVE  /\ GotRef(s, binder_get_ref_for_node(s, p, n), p, n, DescFor(s, p, n))
           /\ Good(binder_get_ref_for_node(s, p, n), L, U, BS, BW)
<1> PICK r : r = binder_get_ref_for_node(s, p, n)
  OBVIOUS
<1> PICK d : d = DescFor(s, p, n)
  OBVIOUS
<1>0. s \in DriverRec
  BY DEF Good
<1>1. CASE HandleOf(s, p, n) # {}
  <2>1. r = s /\ d \in HandleOf(s, p, n)
    BY <1>1 DEF binder_get_ref_for_node, DescFor
  <2>2. d \in Desc /\ s.refs[p][d] # NULL /\ s.refs[p][d].node = n
    BY <2>1 DEF HandleOf
  <2> QED BY <1>0, <2>1, <2>2 DEF GotRef, OtherRefs
<1>2. CASE HandleOf(s, p, n) = {}
  <2> PICK y : y = [node |-> n, strong |-> 0, weak |-> 0]
    OBVIOUS
  <2>1. d = FreeDesc(s, p, n) /\ WroteRef(s, r, p, d, y)
    BY <1>2 DEF binder_get_ref_for_node, DescFor, WroteRef
  <2>2. d \in Desc /\ s.refs[p][d] = NULL
    BY <1>2, <2>1, HandleToSpare
  <2>3. /\ y \in RefRec /\ y \in RefRec \cup {NULL} /\ y # NULL
        /\ y.node = n /\ y.strong = 0 /\ y.weak = 0
    BY NotNull DEF RefRec
  <2>4. WrittenRef(s, r, p, d, y)
    BY <1>0, <2>1, <2>2, <2>3, WrittenReference
  <2>5. GotRef(s, r, p, n, d)
    BY <2>2, <2>3, <2>4 DEF WrittenRef, GotRef
  <2>6. /\ r.refs[p][d] = y /\ r.node = s.node
        /\ \A m : (Queued(r, m) <=> Queued(s, m)) /\ (OwnLists(r, m) <=> OwnLists(s, m))
    BY <2>4, SameLists DEF WrittenRef
  <2>7. Near(s, r, p, d, n)
    BY <2>2, <2>3, <2>4, <2>6 DEF WrittenRef, Near
  <2>8. PICK k : k = <<p, d>>
    OBVIOUS
  <2>9. NearTo(s, r, p, d, k, n)
    BY <2>2, <2>7, <2>8, NearRefs
  <2>10. StrongRefs(r, n) = StrongRefs(s, n)
    <3>1. \A x : x \in StrongRefs(r, n) <=> x \in StrongRefs(s, n)
      BY <2>2, <2>3, <2>6, <2>9 DEF NearTo
    <3> QED BY <3>1
  <2>11. RefsTo(r, n) # {}
    BY <2>3, <2>6, <2>9 DEF NearTo
  <2>12. NodeOK(r, L, n, BS[n], BW[n])
    <3>1. NodeOK(s, L, n, BS[n], BW[n])
      BY DEF Good
    <3> QED BY <2>6, <2>10, <2>11, <3>1 DEF NodeOK, NodeMid
  <2>13. Good(r, L, U, BS, BW)
    BY <1>2, <2>2, <2>6, <2>7, <2>12, GoodNear
  <2> QED BY <2>5, <2>13
<1> QED BY <1>1, <1>2

\* c is s with j more in the strong claims of handles on n, and with n on the list
\* of its owner at most.
Claimed(s, c, L, n, j) ==
    /\ OwnLists(c, n)
    /\ c.node[n] # NULL
    /\ c.node[n].internal_strong = s.node[n].internal_strong + j
    /\ c.node[n].proc = s.node[n].proc
    /\ c.node[n].local_strong = s.node[n].local_strong
    /\ c.node[n].local_weak = s.node[n].local_weak
    /\ c.node[n].pending_strong = s.node[n].pending_strong
    /\ c.node[n].pending_weak = s.node[n].pending_weak
    /\ Answers(s.node[n]) => Answers(c.node[n])
    /\ n \notin L => ~Queued(c, n)

\* r is s with one more claim of the kind on p's handle d.
Inced(s, r, p, d, strong) ==
    /\ OtherRefs(s, r, p, d)
    /\ r.refs[p][d] # NULL
    /\ r.refs[p][d].node = s.refs[p][d].node
    /\ r.refs[p][d].strong = IF strong THEN s.refs[p][d].strong + 1 ELSE s.refs[p][d].strong
    /\ r.refs[p][d].weak = IF strong THEN s.refs[p][d].weak ELSE s.refs[p][d].weak + 1

\* A reference gains a claim unless the node refuses its first.
RefInc(s, r, p, d, strong, list) ==
    \/ Inced(s, r, p, d, strong)
    \/ /\ r = s
       /\ IncInvalid(s, s.refs[p][d].node, strong, list)
       /\ IF strong THEN s.refs[p][d].strong = 0 ELSE s.refs[p][d].weak = 0

\* The first claim of a kind is told to the node.
LEMMA IncClaimed ==
    ASSUME NEW s, NEW L, NEW U, NEW BS, NEW BW, Good(s, L, U, BS, BW),
           NEW n \in Node, s.node[n] # NULL,
           NEW strong \in BOOLEAN, NEW list, ListFor(s, n, list),
           ~IncInvalid(s, n, strong, list)
    PROVE  /\ Claimed(s, binder_inc_node(s, n, strong, TRUE, list), L, n, IF strong THEN 1 ELSE 0)
           /\ Local(s, binder_inc_node(s, n, strong, TRUE, list), n)
<1> PICK r : r = binder_inc_node(s, n, strong, TRUE, list)
  OBVIOUS
<1> PICK j : j = IF strong THEN 1 ELSE 0
  OBVIOUS
<1>1. s \in DriverRec /\ Owned(s, n) /\ NodeOK(s, L, n, BS[n], BW[n])
  BY GoodOwned DEF Good
<1>2. PICK c : /\ Recounted(s, c, n, strong, TRUE, 1)
               /\ Announced(c, r, n, strong, list)
  BY <1>1, IncNode
<1>3. /\ Local(s, c, n) /\ c.node[n] # NULL /\ WithCount(s.node[n], c.node[n], strong, TRUE, 1)
      /\ Queued(c, n) <=> Queued(s, n)
  BY <1>2, SameLists DEF Recounted
<1>4. /\ Local(c, r, n) /\ OwnLists(r, n) /\ r.node[n] = c.node[n]
      /\ Queued(r, n) => Queued(c, n) \/ list # NULL
  BY <1>2 DEF Announced
<1>5. Local(s, r, n)
  BY <1>3, <1>4, LocalTrans
<1>6. n \notin L => ~Queued(r, n)
  <2>1. n \notin L => ~Queued(s, n) /\ s.node[n].proc = NULL
    BY <1>1 DEF NodeOK, NodeMid
  <2>2. Owner[n] # NULL
    BY RefsAssumption
  <2> QED BY <1>3, <1>4, <2>1, <2>2 DEF ListFor
<1>7. c.node[n].internal_strong = s.node[n].internal_strong + j
  <2>1. s.node[n].internal_strong \in Nat
    BY <1>1, NodeFields
  <2> QED BY <1>3, <2>1 DEF WithCount
<1>8. /\ c.node[n].proc = s.node[n].proc
      /\ c.node[n].local_strong = s.node[n].local_strong
      /\ c.node[n].local_weak = s.node[n].local_weak
      /\ c.node[n].pending_strong = s.node[n].pending_strong
      /\ c.node[n].pending_weak = s.node[n].pending_weak
      /\ Answers(s.node[n]) => Answers(c.node[n])
  BY <1>3 DEF WithCount, Answers
<1> QED BY <1>3, <1>4, <1>5, <1>6, <1>7, <1>8 DEF Claimed

\* The node n and its place on the lists are the same.
SameAt(c, r, n) ==
    /\ r.node[n] = c.node[n]
    /\ Queued(r, n) <=> Queued(c, n)
    /\ OwnLists(r, n) <=> OwnLists(c, n)

\* n has j more strong references.
MoreStrong(s, r, n, j) ==
    Cardinality(StrongRefs(r, n)) = Cardinality(StrongRefs(s, n)) + j

\* A node that is claimed and has the references to go with it is as it should be.
LEMMA ClaimedOK ==
    ASSUME NEW s, NEW L, NEW n, NEW bs, NEW bw, NodeOK(s, L, n, bs, bw), s.node[n] # NULL,
           NEW c, NEW j, Claimed(s, c, L, n, j),
           NEW r, SameAt(c, r, n), MoreStrong(s, r, n, j)
    PROVE  /\ NodeMid(r, L, n, bs, bw)
           /\ RefsTo(r, n) # {} => NodeOK(r, L, n, bs, bw)
BY DEF NodeOK, NodeMid, Claimed, SameAt, MoreStrong

\* binder_inc_ref keeps the invariant.
LEMMA IncRef ==
    ASSUME NEW s, NEW L, NEW U, NEW BS, NEW BW, Good(s, L, U, BS, BW),
           NEW p \in Proc, NEW d \in Desc, s.refs[p][d] # NULL,
           NEW strong \in BOOLEAN, NEW list, ListFor(s, s.refs[p][d].node, list)
    PROVE  /\ Good(binder_inc_ref(s, p, d, strong, list), L, U, BS, BW)
           /\ RefInc(s, binder_inc_ref(s, p, d, strong, list), p, d, strong, list)
           /\ InformedBut(s, p, d, strong, list) => Informed(binder_inc_ref(s, p, d, strong, list))
<1> PICK r : r = binder_inc_ref(s, p, d, strong, list)
  OBVIOUS
<1> PICK x : x = s.refs[p][d]
  OBVIOUS
<1> PICK n : n = x.node
  OBVIOUS
<1> PICK first : first = IF strong THEN x.strong = 0 ELSE x.weak = 0
  OBVIOUS
<1>0. /\ s \in DriverRec
      /\ x \in RefRec /\ n \in Node /\ x.strong \in Nat /\ x.weak \in Nat
  BY RefFields DEF Good
<1>1. CASE first /\ IncInvalid(s, n, strong, list)
  <2>1. r = s
    BY <1>1 DEF binder_inc_ref
  <2>2. RefInc(s, r, p, d, strong, list)
    BY <1>1, <2>1 DEF RefInc
  <2>3. ASSUME InformedBut(s, p, d, strong, list)
        PROVE  Informed(s)
    <3>1. list = NULL
      BY <1>1 DEF IncInvalid
    <3> QED BY <2>3, <3>1 DEF InformedBut, Informed
  <2> QED BY <2>1, <2>2, <2>3
<1>2. CASE ~(first /\ IncInvalid(s, n, strong, list))
  <2> PICK c : c = IF first THEN binder_inc_node(s, n, strong, TRUE, list) ELSE s
    OBVIOUS
  <2> PICK y : y = IF strong THEN [x EXCEPT !.strong = @ + 1] ELSE [x EXCEPT !.weak = @ + 1]
    OBVIOUS
  <2> PICK k : k = <<p, d>>
    OBVIOUS
  <2> PICK j : j = IF first /\ strong THEN 1 ELSE 0
    OBVIOUS
  <2>1. r = IF strong THEN [c EXCEPT !.refs[p][d].strong = @ + 1]
            ELSE [c EXCEPT !.refs[p][d].weak = @ + 1]
    BY <1>2 DEF binder_inc_ref
  <2>2. NodeOK(s, L, n, BS[n], BW[n])
    BY <1>0 DEF Good
  <2>3. k \in RefsTo(s, n) /\ k[1] = p /\ k[2] = d
    BY DEF RefsTo
  <2>4. s.node[n] # NULL
    BY <2>2, <2>3 DEF NodeOK, NodeMid
  <2>5. Claimed(s, c, L, n, j) /\ Local(s, c, n)
    <3>1. CASE first
      <4>1. Claimed(s, c, L, n, IF strong THEN 1 ELSE 0) /\ Local(s, c, n)
        BY <1>0, <1>2, <2>4, <3>1, IncClaimed
      <4> QED BY <3>1, <4>1
    <3>2. CASE ~first
      <4>1. s.node[n].internal_strong \in Nat
        BY <1>0, <2>4, NodeFields
      <4>2. s.node[n].internal_strong = s.node[n].internal_strong + 0
        BY <4>1
      <4>3. OwnLists(s, n) /\ (n \notin L => ~Queued(s, n))
        BY <2>2, <2>4 DEF NodeOK, NodeMid
      <4>4. c = s /\ j = 0 /\ Local(s, s, n)
        BY <1>0, <3>2, LocalSelf
      <4> QED BY <2>4, <4>2, <4>3, <4>4 DEF Claimed
    <3> QED BY <3>1, <3>2
  <2>6. Local(s, c, n) /\ c \in DriverRec /\ c.refs = s.refs /\ c.ctx = s.ctx /\ c.node[n] # NULL
    BY <2>5 DEF Claimed, Local
  <2>7. /\ y \in RefRec /\ y \in RefRec \cup {NULL} /\ y # NULL /\ y.node = n
        /\ y.strong = IF strong THEN x.strong + 1 ELSE x.strong
        /\ y.weak = IF strong THEN x.weak ELSE x.weak + 1
    <3>1. CASE strong
      BY <1>0, <3>1, NotNull DEF RefRec
    <3>2. CASE ~strong
      BY <1>0, <3>2, NotNull DEF RefRec
    <3> QED BY <3>1, <3>2
  <2>8. WroteRef(c, r, p, d, y)
    <3>1. c.refs \in [Proc -> [Desc -> RefRec \cup {NULL}]] /\ c.refs[p] \in [Desc -> RefRec \cup {NULL}]
      BY <2>6, Types
    <3>2. CASE strong
      BY <2>1, <2>6, <3>1, <3>2 DEF WroteRef, DriverRec
    <3>3. CASE ~strong
      BY <2>1, <2>6, <3>1, <3>3 DEF WroteRef, DriverRec
    <3> QED BY <3>2, <3>3
  <2>9. WrittenRef(c, r, p, d, y)
    BY <2>6, <2>7, <2>8, WrittenReference
  <2>10. /\ r \in DriverRec /\ r.ctx = s.ctx /\ r.node = c.node
         /\ OtherRefs(s, r, p, d) /\ r.refs[p][d] = y
         /\ \A m : (Queued(r, m) <=> Queued(c, m)) /\ (OwnLists(r, m) <=> OwnLists(c, m))
    <3>1. /\ r \in DriverRec /\ r.ctx = c.ctx /\ r.node = c.node
          /\ r.todo = c.todo /\ r.proc_todo = c.proc_todo
          /\ OtherRefs(c, r, p, d) /\ r.refs[p][d] = y
      BY <2>9 DEF WrittenRef
    <3>2. OtherRefs(s, r, p, d)
      BY <2>6, <3>1, OtherSame
    <3>3. \A m : (Queued(r, m) <=> Queued(c, m)) /\ (OwnLists(r, m) <=> OwnLists(c, m))
      BY <3>1, SameLists
    <3> QED BY <2>6, <3>1, <3>2, <3>3
  <2>11. Near(s, r, p, d, n)
    BY <2>6, <2>7, <2>10 DEF Near, Local
  <2>12. NearTo(s, r, p, d, k, n)
    BY <2>11, NearRefs
  <2>13. k \in RefsTo(r, n) /\ RefsTo(r, n) # {}
    BY <2>7, <2>10, <2>12 DEF NearTo
  <2>14. Cardinality(StrongRefs(r, n)) = Cardinality(StrongRefs(s, n)) + j
    <3> PICK S : S = StrongRefs(s, n)
      OBVIOUS
    <3> PICK R : R = StrongRefs(r, n)
      OBVIOUS
    <3>0. IsFiniteSet(S) /\ Cardinality(S) \in Nat
      BY RefsFinite, FS_CardinalityType
    <3>1. k \in S <=> x.strong > 0
      BY <2>12 DEF NearTo
    <3>2. k \in R <=> y.strong > 0
      BY <2>7, <2>10, <2>12 DEF NearTo
    <3>3. \A z : z # k => (z \in R <=> z \in S)
      BY <2>12 DEF NearTo
    <3>4. CASE strong /\ first
      <4>0. x.strong = 0 /\ y.strong = x.strong + 1 /\ j = 1
        BY <2>7, <3>4
      <4>1. k \notin S /\ k \in R
        BY <3>1, <3>2, <4>0
      <4>2. R = S \cup {k}
        BY <3>3, <4>1
      <4>3. Cardinality(S \cup {k}) = IF k \in S THEN Cardinality(S) ELSE Cardinality(S) + 1
        BY <3>0, FS_AddElement
      <4> QED BY <4>0, <4>1, <4>2, <4>3
    <3>5. CASE ~(strong /\ first)
      <4>1. k \in S <=> k \in R
        BY <1>0, <2>7, <3>1, <3>2, <3>5
      <4>2. R = S
        BY <3>3, <4>1
      <4> QED BY <3>0, <3>5, <4>2
    <3> QED BY <3>4, <3>5
  <2>15. NodeOK(r, L, n, BS[n], BW[n])
    <3>1. SameAt(c, r, n) /\ MoreStrong(s, r, n, j)
      BY <2>10, <2>14 DEF SameAt, MoreStrong
    <3> PICK bs : bs = BS[n]
      OBVIOUS
    <3> PICK bw : bw = BW[n]
      OBVIOUS
    <3>2. NodeOK(s, L, n, bs, bw)
      BY <2>2
    <3>3. NodeOK(r, L, n, bs, bw)
      BY <2>4, <2>5, <2>13, <3>1, <3>2, ClaimedOK
    <3> QED BY <3>3
  <2>16. Good(r, L, U, BS, BW)
    <3>1. p \in U
      BY DEF Good
    <3> QED BY <1>0, <2>6, <2>10, <2>11, <2>15, <3>1, GoodNear
  <2>17. RefInc(s, r, p, d, strong, list)
    BY <2>7, <2>10 DEF RefInc, Inced
  <2>18. ASSUME InformedBut(s, p, d, strong, list)
         PROVE  Informed(r)
    <3>1. /\ \A m \in Node : m # n => Knows(s, m)
          /\ \/ Knows(s, n) /\ (list = NULL /\ strong => Strong(s.node[n]))
             \/ KnowsStrong(s, n) /\ list # NULL /\ x.strong = 0 /\ x.weak = 0
      BY <2>18 DEF InformedBut
    <3>2. RefsTo(s, n) # {} /\ Owned(s, n)
      BY <1>0, <2>3, <2>4, GoodOwned
    <3>3. Knows(c, n)
      <4>1. CASE first
        <5>1. c = binder_inc_node(s, n, strong, TRUE, list) /\ ~IncInvalid(s, n, strong, list)
          BY <1>2, <4>1
        <5>2. Knows(s, n) => KnowsStrong(s, n)
          BY DEF Knows, KnowsStrong
        <5>3. IF list = NULL THEN Knows(s, n) /\ (strong => Strong(s.node[n])) ELSE KnowsStrong(s, n)
          BY <3>1, <5>2
        <5> QED BY <1>0, <3>2, <5>1, <5>3, IncKnows
      <4>2. CASE ~first
        <5>1. c = s /\ ~(x.strong = 0 /\ x.weak = 0)
          BY <4>2
        <5> QED BY <3>1, <5>1
      <4> QED BY <4>1, <4>2
    <3>4. RefsTo(r, n) = RefsTo(c, n)
      <4>1. c.refs = s.refs
        BY <2>6
      <4>2. \A m : RefsTo(c, m) = RefsTo(s, m) /\ StrongRefs(c, m) = StrongRefs(s, m)
        BY <4>1, SameRefs
      <4>3. s.refs[p][d] = NULL <=> r.refs[p][d] = NULL
        BY <2>7, <2>10
      <4>4. RefsTo(r, n) = RefsTo(s, n)
        BY <2>11, <4>3, NearKept
      <4> QED BY <4>2, <4>4
    <3>5. Knows(r, n)
      BY <2>10, <3>3, <3>4, KnowsSame
    <3> QED BY <2>11, <3>1, <3>5, InformsNear
  <2> QED BY <2>16, <2>17, <2>18
<1> QED BY <1>1, <1>2

\* binder_dec_node for a reference that is gone settles the node.
LEMMA DecWeak ==
    ASSUME NEW s \in DriverRec, NEW n \in Node, Owned(s, n)
    PROVE  Settled(s, binder_dec_node(s, n, FALSE, TRUE), n, Remain(s, n, FALSE))
<1> PICK r : r = binder_dec_node(s, n, FALSE, TRUE)
  OBVIOUS
<1>1. r = IF Remain(s, n, FALSE) THEN s ELSE LastGone(s, n)
  BY DEF binder_dec_node, Counted, Remain
<1>2. CASE Remain(s, n, FALSE)
  <2>1. Local(s, s, n) /\ OwnLists(s, n)
    BY LocalSelf DEF Owned
  <2>2. \/ RefsTo(s, n) # {}
        \/ s.node[n].local_weak # 0
    BY <1>2 DEF Remain
  <2> QED BY <1>1, <1>2, <2>1, <2>2 DEF Settled
<1>3. CASE ~Remain(s, n, FALSE)
  <2>1. Settled(s, r, n, FALSE)
    BY <1>1, <1>3, LastGoneSettles
  <2> QED BY <1>3, <2>1 DEF Settled
<1> QED BY <1>2, <1>3

\* After that the node is as it should be.
LEMMA DecWeakOK ==
    ASSUME NEW s \in DriverRec, NEW n \in Node, Owned(s, n),
           NEW L, NEW bs, NEW bw, NodeMid(s, L, n, bs, bw),
           NEW r, r = binder_dec_node(s, n, FALSE, TRUE)
    PROVE  /\ NodeOK(r, L, n, bs, bw)
           /\ n \in CtxNode /\ n \in L => r.node[n] # NULL
           /\ Local(s, r, n)
<1>1. Settled(s, r, n, Remain(s, n, FALSE))
  BY DecWeak
<1>2. s.node[n] # NULL
  BY DEF Owned
<1> QED BY <1>1, <1>2, SettledOK DEF Settled

\* A dead node is on no list.
Quiet(s, L, n) == n \notin L => s.node[n].proc = NULL /\ ~Queued(s, n)

\* binder_dec_node for the last strong claim of a reference that stays.
LEMMA DecStrong ==
    ASSUME NEW s \in DriverRec, NEW n \in Node, Owned(s, n), NEW L, Quiet(s, L, n),
           s.node[n].internal_strong > 0, RefsTo(s, n) # {}
    PROVE  /\ Claimed(s, binder_dec_node(s, n, TRUE, TRUE), L, n, -1)
           /\ Local(s, binder_dec_node(s, n, TRUE, TRUE), n)
<1> PICK r : r = binder_dec_node(s, n, TRUE, TRUE)
  OBVIOUS
<1>1. CountOf(s.node[n], TRUE, TRUE) > 0
  BY DEF CountOf
<1>2. PICK c : /\ Recounted(s, c, n, TRUE, TRUE, -1)
               /\ Settled(c, r, n, Remain(c, n, TRUE))
  BY <1>1, DecNode
<1>3. /\ Local(s, c, n) /\ c.node[n] # NULL /\ WithCount(s.node[n], c.node[n], TRUE, TRUE, -1)
      /\ Queued(c, n) <=> Queued(s, n)
  BY <1>2, SameLists DEF Recounted
<1>4. RefsTo(c, n) # {}
  <2>1. c.refs = s.refs
    BY <1>3 DEF Local
  <2> QED BY <2>1, SameRefs
<1>5. /\ Local(c, r, n) /\ OwnLists(r, n) /\ r.node[n] = c.node[n]
      /\ c.node[n].proc = NULL => (Queued(r, n) => Queued(c, n))
  BY <1>2, <1>4 DEF Settled
<1>6. Local(s, r, n)
  BY <1>3, <1>5, LocalTrans
<1>7. /\ c.node[n].internal_strong = s.node[n].internal_strong + (-1)
      /\ c.node[n].proc = s.node[n].proc
      /\ c.node[n].local_strong = s.node[n].local_strong
      /\ c.node[n].local_weak = s.node[n].local_weak
      /\ c.node[n].pending_strong = s.node[n].pending_strong
      /\ c.node[n].pending_weak = s.node[n].pending_weak
      /\ Answers(s.node[n]) => Answers(c.node[n])
  BY <1>3 DEF WithCount, Answers
<1>8. n \notin L => ~Queued(r, n)
  BY <1>3, <1>5, <1>7 DEF Quiet
<1> QED BY <1>3, <1>5, <1>6, <1>7, <1>8 DEF Claimed

\* Near, then at n alone, is near.
LEMMA NearLocal ==
    ASSUME NEW s, NEW e, NEW r, NEW p, NEW d, NEW n, Near(s, e, p, d, n), Local(e, r, n)
    PROVE  Near(s, r, p, d, n)
<1>1. OtherRefs(s, r, p, d)
  BY DEF Near, Local, OtherRefs
<1>2. r.refs[p][d] # NULL => r.refs[p][d].node = n
  BY DEF Near, Local
<1> QED BY <1>1, <1>2 DEF Near, Local

\* The node of a reference.
LEMMA RefNode ==
    ASSUME NEW s, NEW L, NEW U, NEW BS, NEW BW, Good(s, L, U, BS, BW),
           NEW p \in Proc, NEW d \in Desc, s.refs[p][d] # NULL,
           NEW n, n = s.refs[p][d].node
    PROVE  /\ s \in DriverRec /\ n \in Node /\ s.node[n] # NULL
           /\ NodeOK(s, L, n, BS[n], BW[n])
           /\ Owned(s, n) /\ Quiet(s, L, n)
           /\ RefsTo(s, n) # {}
           /\ s.refs[p][d].strong \in Nat /\ s.refs[p][d].weak \in Nat
           /\ s.refs[p][d].strong > 0 => s.node[n].internal_strong > 0
<1> PICK k : k = <<p, d>>
  OBVIOUS
<1>1. s \in DriverRec /\ n \in Node /\ s.refs[p][d].strong \in Nat /\ s.refs[p][d].weak \in Nat
  BY RefFields DEF Good
<1>2. NodeOK(s, L, n, BS[n], BW[n])
  BY <1>1 DEF Good
<1>3. k \in RefsTo(s, n) /\ k[1] = p /\ k[2] = d
  BY DEF RefsTo
<1>4. s.node[n] # NULL
  BY <1>2, <1>3 DEF NodeOK, NodeMid
<1>5. Owned(s, n) /\ Quiet(s, L, n)
  BY <1>1, <1>2, <1>4, GoodOwned DEF NodeOK, NodeMid, Quiet
<1>6. ASSUME s.refs[p][d].strong > 0
      PROVE  s.node[n].internal_strong > 0
  <2> PICK S : S = StrongRefs(s, n)
    OBVIOUS
  <2>1. k \in S
    BY <1>3, <1>6 DEF StrongRefs
  <2>2. IsFiniteSet(S) /\ Cardinality(S) \in Nat
    BY RefsFinite, FS_CardinalityType
  <2>3. Cardinality(S) # 0
    BY <2>1, <2>2, FS_EmptySet
  <2>4. s.node[n].internal_strong = Cardinality(S)
    BY <1>2, <1>4 DEF NodeOK, NodeMid
  <2> QED BY <2>2, <2>3, <2>4
<1> QED BY <1>1, <1>2, <1>3, <1>4, <1>5, <1>6

\* p's handle d is strong.
Has(s, p, d) == s.refs[p][d] # NULL /\ s.refs[p][d].strong > 0

\* The number of strong references goes with the handle.
LEMMA StrongChange ==
    ASSUME NEW s, NEW r, NEW p \in Proc, NEW d \in Desc, NEW n, Near(s, r, p, d, n)
    PROVE  /\ (Has(s, p, d) <=> Has(r, p, d)) => MoreStrong(s, r, n, 0)
           /\ Has(s, p, d) /\ ~Has(r, p, d) => MoreStrong(s, r, n, -1)
<1> PICK k : k = <<p, d>>
  OBVIOUS
<1> PICK S : S = StrongRefs(s, n)
  OBVIOUS
<1> PICK R : R = StrongRefs(r, n)
  OBVIOUS
<1>0. IsFiniteSet(S) /\ Cardinality(S) \in Nat
  BY RefsFinite, FS_CardinalityType
<1>1. NearTo(s, r, p, d, k, n)
  BY NearRefs
<1>2. /\ k \in S <=> Has(s, p, d)
      /\ k \in R <=> Has(r, p, d)
      /\ \A z : z # k => (z \in R <=> z \in S)
  BY <1>1 DEF NearTo, Has
<1>3. ASSUME Has(s, p, d) <=> Has(r, p, d)
      PROVE  MoreStrong(s, r, n, 0)
  <2>1. \A z : z \in R <=> z \in S
    BY <1>2, <1>3
  <2>2. R = S
    BY <2>1
  <2> QED BY <1>0, <2>2 DEF MoreStrong
<1>4. ASSUME Has(s, p, d), ~Has(r, p, d)
      PROVE  MoreStrong(s, r, n, -1)
  <2>1. \A z : z \in R <=> z \in S \ {k}
    BY <1>2, <1>4
  <2>2. R = S \ {k} /\ k \in S
    BY <1>2, <1>4, <2>1
  <2>3. Cardinality(S \ {k}) = IF k \in S THEN Cardinality(S) - 1 ELSE Cardinality(S)
    BY <1>0, FS_RemoveElement
  <2>4. Cardinality(R) = Cardinality(S) - 1
    BY <2>2, <2>3
  <2>5. Cardinality(R) = Cardinality(S) + (-1)
    BY <1>0, <2>4
  <2> QED BY <2>5 DEF MoreStrong
<1> QED BY <1>3, <1>4

\* What nothing is done to is claimed as before.
LEMMA ClaimedSelf ==
    ASSUME NEW s \in DriverRec, NEW n \in Node, Owned(s, n), NEW L, Quiet(s, L, n)
    PROVE  Claimed(s, s, L, n, 0) /\ Local(s, s, n)
<1>1. s.node[n] # NULL /\ s.node[n].internal_strong \in Nat
  BY NodeFields DEF Owned
<1>2. s.node[n].internal_strong = s.node[n].internal_strong + 0
  BY <1>1
<1> QED BY <1>1, <1>2, LocalSelf DEF Claimed, Owned, Quiet

\* The handle d of p is gone, the others are the same.
Deleted(s, r, p, d) == OtherRefs(s, r, p, d) /\ r.refs[p][d] = NULL

\* binder_delete_ref keeps the invariant.
LEMMA DeleteRef ==
    ASSUME NEW s, NEW L, NEW U, NEW BS, NEW BW, Good(s, L, U, BS, BW),
           NEW p \in Proc, NEW d \in Desc, s.refs[p][d] # NULL
    PROVE  /\ Good(binder_delete_ref(s, p, d), L, U, BS, BW)
           /\ Deleted(s, binder_delete_ref(s, p, d), p, d)
           /\ Informs(s, binder_delete_ref(s, p, d))
<1> PICK r : r = binder_delete_ref(s, p, d)
  OBVIOUS
<1> PICK x : x = s.refs[p][d]
  OBVIOUS
<1> PICK n : n = x.node
  OBVIOUS
<1> PICK c : c = IF x.strong > 0 THEN binder_dec_node(s, n, TRUE, TRUE) ELSE s
  OBVIOUS
<1> PICK y : y = NULL
  OBVIOUS
<1> PICK e : WroteRef(c, e, p, d, y)
  BY DEF WroteRef
<1> PICK j : j = IF x.strong > 0 THEN -1 ELSE 0
  OBVIOUS
<1>0. r = binder_dec_node(e, n, FALSE, TRUE)
  BY DEF binder_delete_ref, WroteRef
<1>1. /\ s \in DriverRec /\ n \in Node /\ s.node[n] # NULL
      /\ NodeOK(s, L, n, BS[n], BW[n])
      /\ Owned(s, n) /\ Quiet(s, L, n)
      /\ RefsTo(s, n) # {}
      /\ x.strong > 0 => s.node[n].internal_strong > 0
  BY RefNode
<1>2. Claimed(s, c, L, n, j) /\ Local(s, c, n)
  <2>1. CASE x.strong > 0
    <3>1. Claimed(s, c, L, n, -1) /\ Local(s, c, n)
      BY <1>1, <2>1, DecStrong
    <3> QED BY <2>1, <3>1
  <2>2. CASE ~(x.strong > 0)
    <3>1. Claimed(s, c, L, n, 0) /\ Local(s, c, n)
      BY <1>1, <2>2, ClaimedSelf
    <3> QED BY <2>2, <3>1
  <2> QED BY <2>1, <2>2
<1>3. c \in DriverRec /\ c.refs = s.refs /\ c.ctx = s.ctx /\ c.node[n] # NULL
  BY <1>2 DEF Local, Claimed
<1>4. WrittenRef(c, e, p, d, y)
  <2>2. y \in RefRec \cup {NULL}
    OBVIOUS
  <2> QED BY <1>3, <2>2, WrittenReference
<1>5. /\ e \in DriverRec /\ e.ctx = c.ctx /\ e.node = c.node
      /\ e.todo = c.todo /\ e.proc_todo = c.proc_todo
      /\ OtherRefs(c, e, p, d) /\ e.refs[p][d] = NULL
  BY <1>4 DEF WrittenRef
<1>6. SameAt(c, e, n) /\ \A m : (Queued(e, m) <=> Queued(c, m)) /\ (OwnLists(e, m) <=> OwnLists(c, m))
  <2>1. \A m : (Queued(e, m) <=> Queued(c, m)) /\ (OwnLists(e, m) <=> OwnLists(c, m))
    BY <1>5, SameLists
  <2> QED BY <1>5, <2>1 DEF SameAt
<1>7. Near(s, e, p, d, n)
  <2>1. OtherRefs(s, e, p, d)
    BY <1>3, <1>5, OtherSame
  <2>2. /\ s.refs[p][d] # NULL => s.refs[p][d].node = n
        /\ e.refs[p][d] # NULL => e.refs[p][d].node = n
    BY <1>5
  <2>3. \A m \in Node \ {n} : /\ e.node[m] = s.node[m]
                              /\ Queued(e, m) <=> Queued(s, m)
                              /\ OwnLists(s, m) => OwnLists(e, m)
    BY <1>2, <1>5, <1>6 DEF Local
  <2> QED BY <1>3, <1>5, <2>1, <2>2, <2>3 DEF Near
<1>8. MoreStrong(s, e, n, j)
  <2>1. ~Has(e, p, d) /\ (Has(s, p, d) <=> x.strong > 0)
    BY <1>5 DEF Has
  <2> QED BY <1>7, <2>1, StrongChange
<1>9. NodeMid(e, L, n, BS[n], BW[n])
  <2> PICK bs : bs = BS[n]
    OBVIOUS
  <2> PICK bw : bw = BW[n]
    OBVIOUS
  <2>1. NodeOK(s, L, n, bs, bw)
    BY <1>1
  <2>2. NodeMid(e, L, n, bs, bw)
    BY <1>1, <1>2, <1>6, <1>8, <2>1, ClaimedOK
  <2> QED BY <2>2
<1>10. e.node[n] # NULL /\ Owned(e, n)
  <2>1. e.node[n] # NULL
    BY <1>3, <1>5
  <2>2. OwnLists(e, n) /\ e.node[n].proc = s.node[n].proc
    BY <1>2, <1>5, <1>6 DEF Claimed, SameAt
  <2> QED BY <1>1, <2>1, <2>2 DEF Owned
<1>11. /\ NodeOK(r, L, n, BS[n], BW[n])
       /\ n \in CtxNode /\ n \in L => r.node[n] # NULL
       /\ Local(e, r, n)
  BY <1>0, <1>1, <1>5, <1>9, <1>10, DecWeakOK
<1>14. Near(s, r, p, d, n) /\ r.refs[p][d] = NULL
  BY <1>5, <1>7, <1>11, NearLocal DEF Local
<1>15. s.ctx = n => r.node[n] # NULL
  <2>1. s.ctx \in CtxNode \cup {NULL} /\ n # NULL
    BY <1>1, Types, RefsAssumption
  <2>2. s.ctx = n => n \in L /\ n \in CtxNode
    BY <2>1 DEF Good
  <2> QED BY <1>11, <2>2
<1>16. Good(r, L, U, BS, BW)
  BY <1>1, <1>11, <1>14, <1>15, GoodNear
<1>17. Deleted(s, r, p, d)
  BY <1>14 DEF Near, Deleted
<1>18. ASSUME Informed(s)
       PROVE  Informed(r)
  <2>1. Knows(c, n)
    <3>1. Knows(s, n)
      BY <1>1, <1>18 DEF Informed
    <3>2. CASE x.strong > 0
      <4> PICK z \in BOOLEAN : z = TRUE
        OBVIOUS
      <4>1. c = binder_dec_node(s, n, z, z) /\ CountOf(s.node[n], z, z) > 0
        BY <1>1, <3>2 DEF CountOf
      <4> QED BY <1>1, <3>1, <4>1, DecKnows
    <3> QED BY <3>1, <3>2
  <2>2. RefsTo(e, n) \subseteq RefsTo(c, n)
    <3> PICK k : k = <<p, d>>
      OBVIOUS
    <3>1. NearTo(s, e, p, d, k, n)
      BY <1>7, NearRefs
    <3>2. RefsTo(c, n) = RefsTo(s, n)
      <4>1. c.refs = s.refs
        BY <1>3
      <4>2. \A m : RefsTo(c, m) = RefsTo(s, m) /\ StrongRefs(c, m) = StrongRefs(s, m)
        BY <4>1, SameRefs
      <4> QED BY <4>2
    <3>3. \A z : z \in RefsTo(e, n) => z \in RefsTo(s, n)
      BY <1>5, <3>1 DEF NearTo
    <3> QED BY <3>2, <3>3
  <2>3. KnowsMore(e, n, FALSE)
    <3>1. e.node[n] = c.node[n] /\ (Queued(e, n) <=> Queued(c, n))
      BY <1>6 DEF SameAt
    <3>2. Weak(e, n) => Weak(c, n)
      BY <2>2, <3>1 DEF Weak
    <3> QED BY <2>1, <3>1, <3>2 DEF Knows, KnowsMore
  <2>4. Knows(r, n)
    <3> PICK z \in BOOLEAN : z = FALSE
      OBVIOUS
    <3>1. Settled(e, r, n, Remain(e, n, z)) /\ KnowsMore(e, n, z)
      BY <1>0, <1>1, <1>5, <1>10, <2>3, DecWeak
    <3> QED BY <1>1, <1>5, <1>10, <3>1, KnowsSettled
  <2> QED BY <1>14, <1>18, <2>4, InformsNear DEF Informed
<1> QED BY <1>16, <1>17, <1>18 DEF Informs

\* y is the reference x with a claim of the kind less.
LessRef(x, y, strong) ==
    /\ y \in RefRec
    /\ y.node = x.node
    /\ y.strong = IF strong THEN x.strong - 1 ELSE x.strong
    /\ y.weak = IF strong THEN x.weak ELSE x.weak - 1

\* r is s with a claim of the kind less on p's handle d, which is gone with its last
\* claim; a claim that is not there is not given back.
RefDec(s, r, p, d, strong) ==
    \/ r = s /\ (IF strong THEN s.refs[p][d].strong ELSE s.refs[p][d].weak) = 0
    \/ /\ (IF strong THEN s.refs[p][d].strong ELSE s.refs[p][d].weak) > 0
       /\ OtherRefs(s, r, p, d)
       /\ \/ r.refs[p][d] # NULL /\ LessRef(s.refs[p][d], r.refs[p][d], strong)
          \/ /\ r.refs[p][d] = NULL
             /\ s.refs[p][d].strong + s.refs[p][d].weak = 1

\* The others are the same after both steps.
LEMMA OtherTrans ==
    ASSUME NEW s, NEW c, NEW r, NEW p, NEW d, OtherRefs(s, c, p, d), OtherRefs(c, r, p, d)
    PROVE  OtherRefs(s, r, p, d)
BY DEF OtherRefs

\* Taking a claim away from a reference.
LEMMA LessRefs ==
    ASSUME NEW x \in RefRec, NEW strong \in BOOLEAN,
           (IF strong THEN x.strong ELSE x.weak) > 0,
           NEW y, y = IF strong THEN [x EXCEPT !.strong = @ - 1] ELSE [x EXCEPT !.weak = @ - 1]
    PROVE  LessRef(x, y, strong)
<1>1. CASE strong
  BY <1>1 DEF RefRec, LessRef
<1>2. CASE ~strong
  BY <1>2 DEF RefRec, LessRef
<1> QED BY <1>1, <1>2

\* A reference of the driver's state written in one of its fields.
LEMMA WroteLess ==
    ASSUME NEW s \in DriverRec, NEW p \in Proc, NEW d \in Desc, NEW strong \in BOOLEAN,
           NEW x, x = s.refs[p][d],
           NEW y, y = IF strong THEN [x EXCEPT !.strong = @ - 1] ELSE [x EXCEPT !.weak = @ - 1],
           NEW c, c = IF strong THEN [s EXCEPT !.refs[p][d].strong = @ - 1]
                      ELSE [s EXCEPT !.refs[p][d].weak = @ - 1]
    PROVE  WroteRef(s, c, p, d, y)
<1>1. s.refs \in [Proc -> [Desc -> RefRec \cup {NULL}]] /\ s.refs[p] \in [Desc -> RefRec \cup {NULL}]
  BY Types
<1>2. CASE strong
  BY <1>1, <1>2 DEF WroteRef, DriverRec
<1>3. CASE ~strong
  BY <1>1, <1>3 DEF WroteRef, DriverRec
<1> QED BY <1>2, <1>3

\* e is c, with the last strong claim of the reference x taken from its node.
StrongGone(c, e, x, strong) ==
    e = IF strong /\ x.strong = 1 THEN binder_dec_node(c, x.node, TRUE, TRUE) ELSE c

\* A reference has a claim of the kind.
Claiming(x, strong) == (IF strong THEN x.strong ELSE x.weak) > 0

\* The part of binder_dec_ref that comes before the reference is deleted.
LEMMA DecClaim ==
    ASSUME NEW s, NEW L, NEW U, NEW BS, NEW BW, Good(s, L, U, BS, BW),
           NEW p \in Proc, NEW d \in Desc, s.refs[p][d] # NULL, NEW strong \in BOOLEAN,
           NEW x, x = s.refs[p][d],
           NEW y, LessRef(x, y, strong), Claiming(x, strong),
           NEW c, WrittenRef(s, c, p, d, y),
           NEW e, StrongGone(c, e, x, strong)
    PROVE  /\ Good(e, L, U, BS, BW)
           /\ OtherRefs(s, e, p, d)
           /\ e.refs[p][d] = y
           /\ y # NULL
           /\ Informs(s, e)
<1> PICK n : n = x.node
  OBVIOUS
<1> PICK j : j = IF strong /\ x.strong = 1 THEN -1 ELSE 0
  OBVIOUS
<1>1. /\ s \in DriverRec /\ n \in Node /\ s.node[n] # NULL
      /\ NodeOK(s, L, n, BS[n], BW[n])
      /\ Owned(s, n) /\ Quiet(s, L, n)
      /\ RefsTo(s, n) # {}
      /\ x.strong \in Nat
      /\ x.strong > 0 => s.node[n].internal_strong > 0
  BY RefNode
<1>2. /\ y \in RefRec /\ y # NULL /\ y.node = n
      /\ y.strong = IF strong THEN x.strong - 1 ELSE x.strong
  BY NotNull DEF LessRef
<1>3. /\ c \in DriverRec /\ c.ctx = s.ctx /\ c.node = s.node
      /\ c.todo = s.todo /\ c.proc_todo = s.proc_todo
      /\ OtherRefs(s, c, p, d) /\ c.refs[p][d] = y
  BY DEF WrittenRef
<1>4. \A m : (Queued(c, m) <=> Queued(s, m)) /\ (OwnLists(c, m) <=> OwnLists(s, m))
  BY <1>3, SameLists
<1>5. Near(s, c, p, d, n)
  BY <1>2, <1>3, <1>4 DEF Near
<1>6. RefsTo(c, n) # {}
  <2> PICK k : k = <<p, d>>
    OBVIOUS
  <2>1. NearTo(s, c, p, d, k, n)
    BY <1>5, NearRefs
  <2>2. k \in RefsTo(c, n)
    BY <1>2, <1>3, <2>1 DEF NearTo
  <2> QED BY <2>2
<1>7. MoreStrong(s, c, n, j)
  <2>1. Has(s, p, d) <=> x.strong > 0
    BY DEF Has
  <2>2. Has(c, p, d) <=> y.strong > 0
    BY <1>2, <1>3 DEF Has
  <2>3. CASE strong /\ x.strong = 1
    <3>1. j = -1 /\ x.strong > 0 /\ ~(y.strong > 0)
      BY <1>2, <2>3
    <3> QED BY <1>5, <2>1, <2>2, <3>1, StrongChange
  <2>4. CASE ~(strong /\ x.strong = 1)
    <3>1. j = 0 /\ (x.strong > 0 <=> y.strong > 0)
      BY <1>1, <1>2, <2>4
    <3> QED BY <1>5, <2>1, <2>2, <3>1, StrongChange
  <2> QED BY <2>3, <2>4
<1>8. Owned(c, n) /\ Quiet(c, L, n) /\ c.node[n] = s.node[n]
  BY <1>1, <1>3, <1>4 DEF Owned, Quiet
<1>9. Claimed(c, e, L, n, j) /\ Local(c, e, n)
  <2>1. CASE strong /\ x.strong = 1
    <3>1. e = binder_dec_node(c, n, TRUE, TRUE) /\ j = -1
      BY <2>1 DEF StrongGone
    <3>2. x.strong > 0
      BY <1>1, <2>1
    <3>3. c.node[n].internal_strong > 0
      BY <1>1, <1>8, <3>2
    <3>4. Claimed(c, e, L, n, -1) /\ Local(c, e, n)
      BY <1>1, <1>3, <1>6, <1>8, <3>1, <3>3, DecStrong
    <3> QED BY <3>1, <3>4
  <2>2. CASE ~(strong /\ x.strong = 1)
    <3>1. e = c /\ j = 0
      BY <2>2 DEF StrongGone
    <3>2. Claimed(c, c, L, n, 0) /\ Local(c, c, n)
      BY <1>1, <1>3, <1>8, ClaimedSelf
    <3> QED BY <3>1, <3>2
  <2> QED BY <2>1, <2>2
<1>10. Claimed(s, e, L, n, j)
  BY <1>8, <1>9 DEF Claimed
<1>11. e \in DriverRec /\ e.refs = c.refs /\ e.node[n] # NULL
  BY <1>9 DEF Local, Claimed
<1>12. NodeOK(e, L, n, BS[n], BW[n])
  <2> PICK bs : bs = BS[n]
    OBVIOUS
  <2> PICK bw : bw = BW[n]
    OBVIOUS
  <2>1. NodeOK(s, L, n, bs, bw)
    BY <1>1
  <2>2. SameAt(e, e, n)
    BY DEF SameAt
  <2>3. MoreStrong(s, e, n, j) /\ RefsTo(e, n) # {}
    <3>1. RefsTo(e, n) = RefsTo(c, n) /\ StrongRefs(e, n) = StrongRefs(c, n)
      <4>1. e.refs = c.refs
        BY <1>11
      <4>2. \A m : RefsTo(e, m) = RefsTo(c, m) /\ StrongRefs(e, m) = StrongRefs(c, m)
        BY <4>1, SameRefs
      <4> QED BY <4>2
    <3> QED BY <1>6, <1>7, <3>1 DEF MoreStrong
  <2>4. NodeOK(e, L, n, bs, bw)
    BY <1>1, <1>10, <2>1, <2>2, <2>3, ClaimedOK
  <2> QED BY <2>4
<1>13. Near(s, e, p, d, n)
  BY <1>5, <1>9, NearLocal
<1>14. e.refs[p][d] = y
  BY <1>3, <1>11
<1>15. Good(e, L, U, BS, BW)
  <2>1. p \in U
    BY DEF Good
  <2> QED BY <1>1, <1>11, <1>12, <1>13, <2>1, GoodNear
<1>16. ASSUME Informed(s)
       PROVE  Informed(e)
  <2>1. Knows(c, n)
    <3>1. Knows(s, n)
      BY <1>1, <1>16 DEF Informed
    <3>2. RefsTo(c, n) = RefsTo(s, n)
      <4>1. s.refs[p][d] = NULL <=> c.refs[p][d] = NULL
        BY <1>2, <1>3
      <4> PICK k : k = <<p, d>>
        OBVIOUS
      <4>2. NearTo(s, c, p, d, k, n)
        BY <1>5, NearRefs
      <4>3. \A z : z \in RefsTo(c, n) <=> z \in RefsTo(s, n)
        BY <4>1, <4>2 DEF NearTo
      <4> QED BY <4>3
    <3> QED BY <1>4, <1>8, <3>1, <3>2, KnowsSame
  <2>2. Knows(e, n)
    <3>1. CASE strong /\ x.strong = 1
      <4> PICK z \in BOOLEAN : z = TRUE
        OBVIOUS
      <4>1. x.strong > 0
        BY <1>1, <3>1
      <4>2. e = binder_dec_node(c, n, z, z) /\ CountOf(c.node[n], z, z) > 0
        BY <1>1, <1>8, <3>1, <4>1 DEF StrongGone, CountOf
      <4> QED BY <1>1, <1>3, <1>8, <2>1, <4>2, DecKnows
    <3>2. CASE ~(strong /\ x.strong = 1)
      BY <2>1, <3>2 DEF StrongGone
    <3> QED BY <3>1, <3>2
  <2> QED BY <1>13, <1>16, <2>2, InformsNear DEF Informed
<1> QED BY <1>2, <1>13, <1>14, <1>15, <1>16 DEF Near, Informs

\* binder_dec_ref keeps the invariant.
LEMMA DecRef ==
    ASSUME NEW s, NEW L, NEW U, NEW BS, NEW BW, Good(s, L, U, BS, BW),
           NEW p \in Proc, NEW d \in Desc, s.refs[p][d] # NULL, NEW strong \in BOOLEAN
    PROVE  /\ Good(binder_dec_ref(s, p, d, strong), L, U, BS, BW)
           /\ RefDec(s, binder_dec_ref(s, p, d, strong), p, d, strong)
           /\ Informs(s, binder_dec_ref(s, p, d, strong))
<1> PICK r : r = binder_dec_ref(s, p, d, strong)
  OBVIOUS
<1> PICK x : x = s.refs[p][d]
  OBVIOUS
<1>1. s \in DriverRec /\ x \in RefRec /\ x.strong \in Nat /\ x.weak \in Nat
  BY RefFields DEF Good
<1>2. CASE (IF strong THEN x.strong ELSE x.weak) = 0
  <2>1. r = s
    BY <1>2 DEF binder_dec_ref
  <2>2. RefDec(s, r, p, d, strong)
    BY <1>2, <2>1 DEF RefDec
  <2> QED BY <2>1, <2>2 DEF Informs
<1>3. CASE (IF strong THEN x.strong ELSE x.weak) # 0
  <2>0. (IF strong THEN x.strong ELSE x.weak) > 0
    BY <1>1, <1>3
  <2>1. \E c, e, y :
           /\ c = IF strong THEN [s EXCEPT !.refs[p][d].strong = @ - 1]
                  ELSE [s EXCEPT !.refs[p][d].weak = @ - 1]
           /\ e = IF strong /\ x.strong = 1 THEN binder_dec_node(c, x.node, TRUE, TRUE) ELSE c
           /\ y = IF strong THEN [x EXCEPT !.strong = @ - 1] ELSE [x EXCEPT !.weak = @ - 1]
           /\ WroteRef(s, c, p, d, y)
           /\ LessRef(x, y, strong)
           /\ r = IF e.refs[p][d].strong = 0 /\ e.refs[p][d].weak = 0
                  THEN binder_delete_ref(e, p, d) ELSE e
    <3>1. PICK c : c = IF strong THEN [s EXCEPT !.refs[p][d].strong = @ - 1]
                       ELSE [s EXCEPT !.refs[p][d].weak = @ - 1]
      OBVIOUS
    <3>2. PICK e : e = IF strong /\ x.strong = 1 THEN binder_dec_node(c, x.node, TRUE, TRUE) ELSE c
      OBVIOUS
    <3>3. PICK y : y = IF strong THEN [x EXCEPT !.strong = @ - 1] ELSE [x EXCEPT !.weak = @ - 1]
      OBVIOUS
    <3>4. WroteRef(s, c, p, d, y) /\ LessRef(x, y, strong)
      BY <1>1, <2>0, <3>1, <3>3, WroteLess, LessRefs
    <3>5. r = IF e.refs[p][d].strong = 0 /\ e.refs[p][d].weak = 0
              THEN binder_delete_ref(e, p, d) ELSE e
      BY <1>3, <3>1, <3>2 DEF binder_dec_ref
    <3> QED BY <3>1, <3>2, <3>3, <3>4, <3>5
  <2>2. PICK c, e, y :
           /\ StrongGone(c, e, x, strong)
           /\ WroteRef(s, c, p, d, y)
           /\ LessRef(x, y, strong)
           /\ r = IF e.refs[p][d].strong = 0 /\ e.refs[p][d].weak = 0
                  THEN binder_delete_ref(e, p, d) ELSE e
    BY <2>1 DEF StrongGone
  <2>3. WrittenRef(s, c, p, d, y)
    <3>1. y \in RefRec \cup {NULL}
      BY <2>2 DEF LessRef
    <3> QED BY <1>1, <2>2, <3>1, WrittenReference
  <2>4. /\ Good(e, L, U, BS, BW)
        /\ OtherRefs(s, e, p, d)
        /\ e.refs[p][d] = y
        /\ y # NULL
        /\ Informs(s, e)
    <3>1. Claiming(x, strong)
      BY <2>0 DEF Claiming
    <3> QED BY <2>2, <2>3, <3>1, DecClaim
  <2>5. CASE y.strong = 0 /\ y.weak = 0
    <3>1. r = binder_delete_ref(e, p, d)
      BY <2>2, <2>4, <2>5
    <3>2. Good(r, L, U, BS, BW) /\ Deleted(e, r, p, d) /\ Informs(e, r)
      BY <2>4, <3>1, DeleteRef
    <3>3. OtherRefs(s, r, p, d) /\ r.refs[p][d] = NULL
      BY <2>4, <3>2, OtherTrans DEF Deleted
    <3>4. x.strong + x.weak = 1
      BY <1>1, <2>0, <2>2, <2>5 DEF LessRef
    <3>5. Informs(s, r)
      BY <2>4, <3>2 DEF Informs
    <3> QED BY <2>0, <3>2, <3>3, <3>4, <3>5 DEF RefDec
  <2>6. CASE ~(y.strong = 0 /\ y.weak = 0)
    <3>1. r = e
      BY <2>2, <2>4, <2>6
    <3>2. RefDec(s, r, p, d, strong)
      BY <2>0, <2>2, <2>4, <3>1 DEF RefDec
    <3> QED BY <2>4, <3>1, <3>2
  <2> QED BY <2>5, <2>6
<1> QED BY <1>2, <1>3

-----------------------------------------------------------------------------
(* The objects of a transaction *)

\* The greatest member of a set of one number.
LEMMA MaxOne == Max({1}) = 1
BY DEF Max

\* A transaction without objects, and one with one object.
LEMMA TranslatedObjects ==
    ASSUME NEW s, NEW th, NEW q
    PROVE  /\ Translated(s, <<>>, th, q) = [s |-> s, out |-> <<>>]
           /\ \A o : Translated(s, <<o>>, th, q) = Translate([s |-> s, out |-> <<>>], o, th, q)
<1> DEFINE b == [s |-> s, out |-> <<>>]
           step(S, l, g) == [x \in SUBSET S |-> IF x = {} THEN b
                                                ELSE Translate(g[x \ {Max(x)}], l[Max(x)], th, q)]
           fold(S, l) == CHOOSE g : g = step(S, l, g)
<1>1. \A l : Translated(s, l, th, q) = fold(DOMAIN l, l)[DOMAIN l]
  BY DEF Translated, FoldLeft, MapThenFoldSet
<1>2. Translated(s, <<>>, th, q) = b
  <2>1. DOMAIN <<>> = {}
    OBVIOUS
  <2>2. PICK l : l = <<>>
    OBVIOUS
  <2>3. \E g : g = step({}, l, g)
    <3> DEFINE h == [x \in SUBSET {} |-> b]
    <3>1. h = step({}, l, h)
      OBVIOUS
    <3> QED BY <3>1
  <2>4. PICK g : g = fold({}, l) /\ g = step({}, l, g)
    <3> HIDE DEF step
    <3> QED BY <2>3
  <2>5. g[{}] = b
    BY <2>4
  <2> HIDE DEF fold
  <2> QED BY <1>1, <2>1, <2>2, <2>4, <2>5
<1>3. ASSUME NEW o
      PROVE  Translated(s, <<o>>, th, q) = Translate(b, o, th, q)
  <2>1. DOMAIN <<o>> = {1} /\ <<o>>[1] = o
    OBVIOUS
  <2>2. PICK l : l = <<o>>
    OBVIOUS
  <2>3. \E g : g = step({1}, l, g)
    <3> DEFINE h == [x \in SUBSET {1} |-> IF x = {} THEN b ELSE Translate(b, o, th, q)]
    <3>1. h = step({1}, l, h)
      <4>1. ASSUME NEW x \in SUBSET {1}, x # {}
            PROVE  h[x \ {Max(x)}] = b /\ l[Max(x)] = o
        <5>1. x = {1}
          BY <4>1
        <5>2. x \ {Max(x)} = {}
          BY <5>1, MaxOne
        <5>3. h[{}] = b
          OBVIOUS
        <5>4. l[Max(x)] = o
          BY <2>1, <2>2, <5>1, MaxOne
        <5> QED BY <5>2, <5>3, <5>4
      <4> HIDE DEF b
      <4> QED BY <4>1
    <3> QED BY <3>1
  <2>4. PICK g : g = fold({1}, l) /\ g = step({1}, l, g)
    <3> HIDE DEF step
    <3> QED BY <2>3
  <2>5. g[{}] = b
    BY <2>4
  <2>6. g[{1}] = Translate(g[{1} \ {Max({1})}], l[Max({1})], th, q)
    BY <2>4
  <2>7. {1} \ {Max({1})} = {} /\ l[Max({1})] = o
    BY <2>1, <2>2, MaxOne
  <2> HIDE DEF fold
  <2> QED BY <1>1, <2>1, <2>2, <2>4, <2>5, <2>6, <2>7
<1> QED BY <1>2, <1>3

\* b is s with the claim on the target given back.
TargetGone(s, b, target) ==
    b = IF target = NULL THEN s ELSE binder_dec_node(s, target, TRUE, FALSE)

\* g gives back, from b on, the objects of l at the places of a set.
Folds(g, D, l, b, p) ==
    g = [x \in SUBSET D |-> IF x = {} THEN b ELSE ReleaseObject(g[x \ {Max(x)}], l[Max(x)], p)]

\* What a buffer counts for is given back by way of such a function.
LEMMA ReleaseFolds ==
    ASSUME NEW s, NEW p, NEW target, NEW b, TargetGone(s, b, target), NEW l, NEW r,
           r = binder_transaction_buffer_release(s, p, target, l),
           NEW h, NEW D, D = DOMAIN l, Folds(h, D, l, b, p)
    PROVE  \E g : Folds(g, D, l, b, p) /\ r = g[D]
<1> DEFINE step(S, g) == [x \in SUBSET S |-> IF x = {} THEN b
                                             ELSE ReleaseObject(g[x \ {Max(x)}], l[Max(x)], p)]
           fold(S) == CHOOSE g : g = step(S, g)
<1>1. r = fold(D)[D]
  BY DEF binder_transaction_buffer_release, FoldLeft, MapThenFoldSet, TargetGone
<1>2. h = step(D, h)
  BY DEF Folds
<1>3. fold(D) = step(D, fold(D))
  <2> HIDE DEF step
  <2> QED BY <1>2
<1> HIDE DEF fold
<1>4. Folds(fold(D), D, l, b, p)
  BY <1>3 DEF Folds
<1> QED BY <1>1, <1>4

\* A buffer without objects counts for its target.
LEMMA ReleasedNone ==
    ASSUME NEW s, NEW p, NEW target, NEW b, TargetGone(s, b, target), NEW r,
           r = binder_transaction_buffer_release(s, p, target, <<>>)
    PROVE  r = b
<1> PICK l : l = <<>>
  OBVIOUS
<1> PICK D : D = {}
  OBVIOUS
<1>1. D = DOMAIN l /\ r = binder_transaction_buffer_release(s, p, target, l)
  OBVIOUS
<1> DEFINE h == [x \in SUBSET D |-> b]
<1>2. Folds(h, D, l, b, p)
  BY DEF Folds
<1> HIDE DEF h
<1>3. PICK g : Folds(g, D, l, b, p) /\ r = g[D]
  BY <1>1, <1>2, ReleaseFolds
<1> QED BY <1>3 DEF Folds

\* A buffer with one object counts for that, too.
LEMMA ReleasedOne ==
    ASSUME NEW s, NEW p, NEW target, NEW b, TargetGone(s, b, target), NEW r, NEW o, NEW l,
           l = <<o>>,
           r = binder_transaction_buffer_release(s, p, target, l)
    PROVE  r = ReleaseObject(b, o, p)
<1> PICK D : D = {1}
  OBVIOUS
<1>1. D = DOMAIN l /\ l[1] = o
  OBVIOUS
<1> DEFINE h == [x \in SUBSET D |-> IF x = {} THEN b ELSE ReleaseObject(b, o, p)]
<1>2. Folds(h, D, l, b, p)
  <2>1. ASSUME NEW x \in SUBSET D, x # {}
        PROVE  h[x \ {Max(x)}] = b /\ l[Max(x)] = o
    <3>1. x = {1}
      BY <2>1
    <3>2. x \ {Max(x)} = {}
      BY <3>1, MaxOne
    <3>3. h[{}] = b
      OBVIOUS
    <3>4. l[Max(x)] = o
      BY <1>1, <3>1, MaxOne
    <3> QED BY <3>2, <3>3, <3>4
  <2> QED BY <2>1 DEF Folds
<1> HIDE DEF h
<1>3. PICK g : Folds(g, D, l, b, p) /\ r = g[D]
  BY <1>1, <1>2, ReleaseFolds
<1>4. g[{}] = b
  BY <1>3 DEF Folds
<1>5. g[{1}] = ReleaseObject(g[{1} \ {Max({1})}], l[Max({1})], p)
  BY <1>3 DEF Folds
<1>6. {1} \ {Max({1})} = {} /\ l[Max({1})] = o
  BY <1>1, MaxOne
<1> QED BY <1>3, <1>4, <1>5, <1>6

\* binder_new_node, for an object of a process that is there.
LEMMA MakeNode ==
    ASSUME NEW s, NEW L, NEW U, NEW BS, NEW BW, Good(s, L, U, BS, BW),
           NEW n \in Node, n \in L, n \notin CtxNode, s.node[n] = NULL,
           NEW x, x = NewNode(Owner[n]), NEW r, Wrote(s, r, n, x)
    PROVE  Good(r, L, U, BS, BW) /\ r.refs = s.refs /\ r.node[n] # NULL /\ Informs(s, r)
<1>1. s \in DriverRec /\ Owner[n] \in Proc
  BY RefsAssumption DEF Good
<1>2. x \in NodeRec /\ x \in NodeRec \cup {NULL}
  BY <1>1 DEF NewNode, NodeRec
<1>3. Written(s, r, n, x)
  BY <1>1, <1>2, WrittenNode
<1>4. Local(s, r, n) /\ r.node[n] = x /\ (OwnLists(r, n) <=> OwnLists(s, n)) /\ x # NULL
  BY <1>2, <1>3, NotNull DEF Written
<1>5. /\ r.refs = s.refs
      /\ RefsTo(r, n) = RefsTo(s, n) /\ StrongRefs(r, n) = StrongRefs(s, n)
  BY <1>4, SameRefs DEF Local
<1>6. NodeOK(s, L, n, BS[n], BW[n])
  BY DEF Good
<1>7. OwnLists(s, n) /\ BS[n] = 0 /\ BW[n] = 0 /\ RefsTo(s, n) = {}
  BY <1>6 DEF NodeOK, NodeMid
<1>8. Cardinality(StrongRefs(r, n)) = 0
  <2>1. StrongRefs(s, n) = {}
    BY <1>7 DEF StrongRefs
  <2> QED BY <1>5, <2>1, FS_EmptySet
<1>9. /\ x.proc = Owner[n] /\ x.internal_strong = 0 /\ x.local_strong = 0 /\ x.local_weak = 0
      /\ One(x.pending_strong) = 0 /\ One(x.pending_weak) = 0 /\ Ctx(n) = 0
      /\ Answers(x)
  BY DEF NewNode, One, Ctx, Answers
<1>10. NodeOK(r, L, n, 0, 0)
  BY <1>4, <1>7, <1>8, <1>9 DEF NodeOK, NodeMid
<1>11. SameClaims(BS, BW, BS, BW, n) /\ NodeOK(r, L, n, BS[n], BW[n])
  BY <1>7, <1>10 DEF SameClaims
<1>12. Knows(r, n)
  <2>1. ~x.has_strong /\ ~x.has_weak
    BY DEF NewNode
  <2>2. ~Strong(x)
    BY <1>9 DEF Strong
  <2>3. ~Weak(r, n)
    BY <1>4, <1>5, <1>7, <1>9, <2>2 DEF Weak
  <2> QED BY <1>4, <2>1, <2>2, <2>3 DEF Knows
<1>13. Informs(s, r)
  BY <1>4, <1>12, InformsLocal DEF Informs
<1> QED BY <1>4, <1>5, <1>11, <1>13, GoodLocal

\* What thread th may put into a transaction.
MayPut(s, L, o, th) ==
    /\ o \in Object
    /\ \/ /\ o.type = "BINDER"
          /\ Owner[o.node] = ProcOf[th] /\ o.node \in L /\ o.node \notin CtxNode
       \/ /\ o.type = "HANDLE" /\ o.desc \in Desc
          /\ s.refs[ProcOf[th]][o.desc] # NULL
          /\ s.refs[ProcOf[th]][o.desc].node = o.node
          /\ o.strong => s.refs[ProcOf[th]][o.desc].strong > 0

\* p's handle d is for n, and has a claim more of the kind than it had, if it was there.
HandleGot(s, r, p, d, n, strong) ==
    /\ OtherRefs(s, r, p, d)
    /\ r.refs[p][d] # NULL /\ r.refs[p][d].node = n
    /\ s.refs[p][d] # NULL => s.refs[p][d].node = n
    /\ strong => r.refs[p][d].strong = 1 + (IF s.refs[p][d] = NULL THEN 0 ELSE s.refs[p][d].strong)
    /\ ~strong => r.refs[p][d].strong = IF s.refs[p][d] = NULL THEN 0 ELSE s.refs[p][d].strong

\* u is what the receiver q gets for the object o: its own object, which the buffer
\* claims, or a handle.
TransOK(s, r, o, u, q, L, U, BS, BW, BT, BX) ==
    /\ u \in Object /\ u.node = o.node /\ u.strong = o.strong
    /\ \/ /\ u.type = "BINDER" /\ Owner[u.node] = q /\ u.node \in L
          /\ r.refs = s.refs
          /\ Good(r, L, U, BT, BX)
       \/ /\ u.type = "HANDLE" /\ u.desc \in Desc
          /\ HandleGot(s, r, q, u.desc, u.node, u.strong)
          /\ Good(r, L, U, BS, BW)

\* The claims with k more for the object o.
ObjectClaims(BS, BW, BT, BX, o, k) == Claims(BS, BW, BT, BX, o.node, o.strong, k)

\* A reference that is found or made leaves the node known, as far as the claim that
\* comes next needs it.
LEMMA GotInforms ==
    ASSUME NEW s, NEW q \in Proc, NEW n \in Node, NEW d, NEW g, GotRef(s, g, q, n, d),
           NEW strong \in BOOLEAN, NEW list, Informed(s),
           list # NULL \/ (Weak(s, n) /\ (strong => Strong(s.node[n])))
    PROVE  InformedBut(g, q, d, strong, list)
<1>1. /\ d \in Desc /\ g \in DriverRec /\ g.ctx = s.ctx /\ g.node = s.node
      /\ g.todo = s.todo /\ g.proc_todo = s.proc_todo
      /\ OtherRefs(s, g, q, d)
      /\ g.refs[q][d] # NULL /\ g.refs[q][d].node = n
      /\ \/ g = s
         \/ s.refs[q][d] = NULL /\ g.refs[q][d].strong = 0 /\ g.refs[q][d].weak = 0
  BY DEF GotRef
<1>2. \A m : (Queued(g, m) <=> Queued(s, m)) /\ (OwnLists(g, m) <=> OwnLists(s, m))
  BY <1>1, SameLists
<1>3. Near(s, g, q, d, n)
  BY <1>1, <1>2 DEF Near
<1>4. ASSUME NEW m \in Node, m # n
      PROVE  Knows(g, m)
  <2>1. RefsTo(g, m) = RefsTo(s, m)
    BY <1>1, <1>3, <1>4, NearOthers
  <2>2. Knows(s, m)
    BY DEF Informed
  <2> QED BY <1>1, <1>2, <2>1, <2>2, KnowsSame
<1>5. Knows(s, n)
  BY DEF Informed
<1>6. RefsTo(g, n) # {}
  <2> PICK k : k = <<q, d>>
    OBVIOUS
  <2>1. NearTo(s, g, q, d, k, n)
    BY <1>1, <1>3, NearRefs
  <2> QED BY <1>1, <2>1 DEF NearTo
<1>7. CASE g = s
  <2>1. list = NULL /\ strong => Strong(g.node[n])
    BY <1>7
  <2> QED BY <1>1, <1>4, <1>5, <1>7, <2>1 DEF InformedBut
<1>8. CASE list # NULL /\ g.refs[q][d].strong = 0 /\ g.refs[q][d].weak = 0
  <2>1. KnowsStrong(g, n)
    BY <1>1, <1>2, <1>5 DEF Knows, KnowsStrong
  <2> QED BY <1>1, <1>4, <1>8, <2>1 DEF InformedBut
<1>9. CASE list = NULL
  <2>1. Weak(s, n) /\ (strong => Strong(g.node[n]))
    BY <1>1, <1>9
  <2>2. Weak(g, n)
    BY <1>6 DEF Weak
  <2>3. Knows(g, n)
    BY <1>1, <1>2, <1>5, <2>1, <2>2 DEF Knows
  <2> QED BY <1>1, <1>4, <2>1, <2>3 DEF InformedBut
<1> QED BY <1>1, <1>7, <1>8, <1>9

\* A handle is found or made, and claimed.
LEMMA GetAndInc ==
    ASSUME NEW s, NEW L, NEW U, NEW BS, NEW BW, Good(s, L, U, BS, BW),
           NEW q \in Proc, q \in U, NEW n \in Node, s.node[n] # NULL,
           NEW strong \in BOOLEAN, NEW list, ListFor(s, n, list),
           strong => list # NULL \/ s.node[n].internal_strong > 0,
           NEW d, d = DescFor(s, q, n),
           NEW r, r = binder_inc_ref(binder_get_ref_for_node(s, q, n), q, d, strong, list)
    PROVE  /\ d \in Desc /\ HandleGot(s, r, q, d, n, strong) /\ Good(r, L, U, BS, BW)
           /\ list # NULL \/ Weak(s, n) => Informs(s, r)
<1> PICK g : g = binder_get_ref_for_node(s, q, n)
  OBVIOUS
<1>1. GotRef(s, g, q, n, d) /\ Good(g, L, U, BS, BW)
  BY GetRef
<1>2. /\ d \in Desc /\ g.node = s.node
      /\ OtherRefs(s, g, q, d)
      /\ g.refs[q][d] # NULL /\ g.refs[q][d].node = n
      /\ \/ g = s
         \/ s.refs[q][d] = NULL /\ g.refs[q][d].strong = 0 /\ g.refs[q][d].weak = 0
  BY <1>1 DEF GotRef
<1>3. ListFor(g, g.refs[q][d].node, list)
  BY <1>2 DEF ListFor
<1>4. /\ Good(r, L, U, BS, BW) /\ RefInc(g, r, q, d, strong, list)
      /\ InformedBut(g, q, d, strong, list) => Informed(r)
  BY <1>1, <1>2, <1>3, IncRef
<1>5. g.refs[q][d].strong \in Nat
  BY <1>1, <1>2, RefFields DEF Good
<1>6. s.refs[q][d] # NULL => s.refs[q][d].node = n /\ g.refs[q][d].strong = s.refs[q][d].strong
  BY <1>2
<1>7. s.refs[q][d] = NULL => g.refs[q][d].strong = 0
  BY <1>2
<1>10. ASSUME list # NULL \/ Weak(s, n)
       PROVE  Informs(s, r)
  <2>1. s.node[n].internal_strong > 0 => Strong(s.node[n])
    BY DEF Strong
  <2> QED BY <1>1, <1>4, <1>10, <2>1, GotInforms DEF Informs
<1>8. CASE Inced(g, r, q, d, strong)
  <2>1. OtherRefs(s, r, q, d)
    BY <1>2, <1>8, OtherTrans DEF Inced
  <2>2. /\ r.refs[q][d] # NULL /\ r.refs[q][d].node = n
        /\ r.refs[q][d].strong = IF strong THEN g.refs[q][d].strong + 1 ELSE g.refs[q][d].strong
    BY <1>2, <1>8 DEF Inced
  <2>3. strong => r.refs[q][d].strong = 1 + (IF s.refs[q][d] = NULL THEN 0 ELSE s.refs[q][d].strong)
    <3>1. strong => r.refs[q][d].strong = 1 + g.refs[q][d].strong
      BY <1>5, <2>2
    <3>2. g.refs[q][d].strong = IF s.refs[q][d] = NULL THEN 0 ELSE s.refs[q][d].strong
      BY <1>6, <1>7
    <3> QED BY <3>1, <3>2
  <2>4. ~strong => r.refs[q][d].strong = IF s.refs[q][d] = NULL THEN 0 ELSE s.refs[q][d].strong
    BY <1>6, <1>7, <2>2
  <2>5. HandleGot(s, r, q, d, n, strong)
    BY <1>6, <2>1, <2>2, <2>3, <2>4 DEF HandleGot
  <2> QED BY <1>2, <1>4, <1>10, <2>5
<1>9. CASE r = g /\ IncInvalid(g, g.refs[q][d].node, strong, list)
  <2>1. ~strong
    <3>1. strong => list = NULL /\ g.node[n].internal_strong = 0
      BY <1>2, <1>9 DEF IncInvalid
    <3>2. s.node[n].internal_strong = 0 => ~(s.node[n].internal_strong > 0)
      OBVIOUS
    <3> QED BY <1>2, <3>1, <3>2
  <2>2. r.refs[q][d].strong = IF s.refs[q][d] = NULL THEN 0 ELSE s.refs[q][d].strong
    BY <1>6, <1>7, <1>9
  <2>3. HandleGot(s, r, q, d, n, strong)
    BY <1>2, <1>6, <1>9, <2>1, <2>2 DEF HandleGot
  <2> QED BY <1>2, <1>4, <1>10, <2>3
<1> QED BY <1>4, <1>8, <1>9 DEF RefInc

\* A node's owner, when it is there.
LEMMA NodeOwner ==
    ASSUME NEW s, NEW L, NEW U, NEW BS, NEW BW, Good(s, L, U, BS, BW),
           NEW n \in Node, s.node[n] # NULL
    PROVE  /\ n \in L => s.node[n].proc = Owner[n]
           /\ n \notin L => s.node[n].proc = NULL
BY DEF Good, NodeOK, NodeMid

\* x is s with a node for the object o of th's process.
Made(s, x, o, th) ==
    x = IF o.type = "BINDER" /\ s.node[o.node] = NULL
        THEN [s EXCEPT !.node[o.node] = NewNode(ProcOf[th])] ELSE s

\* What the loop in binder_transaction makes of one object.
LEMMA TranslateObject ==
    ASSUME NEW s, NEW L, NEW U, NEW BS, NEW BW, Good(s, L, U, BS, BW),
           NEW th \in Thread, NEW q \in Proc, q \in U, NEW o, MayPut(s, L, o, th),
           NEW BT, NEW BX, ObjectClaims(BS, BW, BT, BX, o, 1),
           NEW r, r = Translate([s |-> s, out |-> <<>>], o, th, q)
    PROVE  /\ \E u : r.out = <<u>> /\ TransOK(s, r.s, o, u, q, L, U, BS, BW, BT, BX)
           /\ Informs(s, r.s)
<1> PICK n : n = o.node
  OBVIOUS
<1> PICK x : Made(s, x, o, th)
  BY DEF Made
<1> PICK d : d = DescFor(x, q, n)
  OBVIOUS
<1> PICK strong : strong = o.strong
  OBVIOUS
<1> PICK list : list = IF o.type = "BINDER" THEN th ELSE NULL
  OBVIOUS
<1>1. /\ o \in Object /\ n \in Node /\ strong \in BOOLEAN /\ ProcOf[th] \in Proc
      /\ o.type = "HANDLE" <=> o.type # "BINDER"
      /\ NULL \notin Thread /\ NULL # q
  BY RefsAssumption DEF MayPut, Object
<1>2. /\ r.s = IF o.type = "HANDLE" /\ x.node[n].proc = q
               THEN binder_inc_node(x, n, strong, FALSE, NULL)
               ELSE binder_inc_ref(binder_get_ref_for_node(x, q, n), q, d, strong, list)
      /\ r.out = Append(<<>>, IF o.type = "HANDLE" /\ x.node[n].proc = q
                              THEN [o EXCEPT !.type = "BINDER", !.desc = NULL]
                              ELSE [o EXCEPT !.type = "HANDLE", !.desc = d])
  BY DEF Translate, Made
<1>3. Good(x, L, U, BS, BW) /\ x.refs = s.refs /\ x.node[n] # NULL /\ Informs(s, x)
  <2>1. CASE o.type = "BINDER" /\ s.node[n] = NULL
    <3> PICK y : y = NewNode(Owner[n])
      OBVIOUS
    <3>1. Wrote(s, x, n, y)
      BY <2>1 DEF Wrote, MayPut, Made
    <3>2. n \in L /\ n \notin CtxNode
      BY <2>1 DEF MayPut
    <3> QED BY <1>1, <2>1, <3>1, <3>2, MakeNode
  <2>2. CASE o.type = "BINDER" /\ s.node[n] # NULL
    <3>1. x = s
      BY <2>2 DEF Made
    <3> QED BY <2>2, <3>1 DEF Informs
  <2>3. CASE o.type = "HANDLE"
    <3>1. x = s
      BY <1>1, <2>3 DEF Made
    <3>2. /\ s.refs[ProcOf[th]][o.desc] # NULL /\ s.refs[ProcOf[th]][o.desc].node = n
          /\ o.desc \in Desc
      BY <2>3 DEF MayPut
    <3>3. s.node[n] # NULL
      BY <1>1, <3>2, RefNode
    <3> QED BY <3>1, <3>3 DEF Informs
  <2> QED BY <1>1, <2>1, <2>2, <2>3
<1>6. ASSUME o.type = "HANDLE"
      PROVE  Weak(x, n) /\ (strong => x.node[n].internal_strong > 0)
  <2>1. x = s
    BY <1>1, <1>6 DEF Made
  <2>2. /\ s.refs[ProcOf[th]][o.desc] # NULL /\ s.refs[ProcOf[th]][o.desc].node = n
        /\ o.desc \in Desc
        /\ strong => s.refs[ProcOf[th]][o.desc].strong > 0
    BY <1>1, <1>6 DEF MayPut
  <2>3. /\ RefsTo(s, n) # {}
        /\ s.refs[ProcOf[th]][o.desc].strong > 0 => s.node[n].internal_strong > 0
    BY <1>1, <2>2, RefNode
  <2> QED BY <2>1, <2>2, <2>3 DEF Weak
<1>4. CASE o.type = "HANDLE" /\ x.node[n].proc = q
  <2>3. n \in L /\ Owner[n] = q
    BY <1>1, <1>3, <1>4, NodeOwner
  <2>4. r.s = IncLocal(x, n, strong)
    BY <1>2, <1>4 DEF IncLocal
  <2>5. Good(r.s, L, U, BT, BX) /\ r.s.refs = x.refs /\ Informs(x, r.s)
    <3>1. Claims(BS, BW, BT, BX, n, strong, 1)
      BY DEF ObjectClaims
    <3>2. Weak(x, n) /\ (strong => Strong(x.node[n]))
      BY <1>4, <1>6 DEF Strong
    <3> QED BY <1>1, <1>3, <2>3, <2>4, <3>1, <3>2, GoodIncLocal
  <2> PICK u : u = [o EXCEPT !.type = "BINDER", !.desc = NULL]
    OBVIOUS
  <2>1. r.out = <<u>>
    BY <1>2, <1>4
  <2>2. u \in Object /\ u.node = n /\ u.strong = strong /\ u.type = "BINDER"
    BY <1>1 DEF Object
  <2>6. Informs(s, r.s)
    BY <1>3, <2>5 DEF Informs
  <2> QED BY <1>3, <2>1, <2>2, <2>3, <2>5, <2>6 DEF TransOK
<1>5. CASE ~(o.type = "HANDLE" /\ x.node[n].proc = q)
  <2> PICK u : u = [o EXCEPT !.type = "HANDLE", !.desc = d]
    OBVIOUS
  <2>1. r.out = <<u>>
    BY <1>2, <1>5
  <2>2. r.s = binder_inc_ref(binder_get_ref_for_node(x, q, n), q, d, strong, list)
    BY <1>2, <1>5
  <2>3. ListFor(x, n, list)
    <3>1. CASE o.type = "BINDER"
      <4>1. list = th /\ ProcOf[th] = Owner[n] /\ n \in L
        BY <3>1 DEF MayPut
      <4> QED BY <1>1, <1>3, <4>1, NodeOwner DEF ListFor
    <3>2. CASE o.type # "BINDER"
      BY <3>2 DEF ListFor
    <3> QED BY <3>1, <3>2
  <2>4. strong => list # NULL \/ x.node[n].internal_strong > 0
    <3>1. CASE o.type = "BINDER"
      BY <1>1, <3>1
    <3>2. CASE o.type = "HANDLE"
      BY <1>6, <3>2
    <3> QED BY <1>1, <3>1, <3>2
  <2>8. list # NULL \/ Weak(x, n)
    BY <1>1, <1>6
  <2>5. /\ d \in Desc /\ HandleGot(x, r.s, q, d, n, strong) /\ Good(r.s, L, U, BS, BW)
        /\ Informs(x, r.s)
    BY <1>1, <1>3, <2>2, <2>3, <2>4, <2>8, GetAndInc
  <2>6. HandleGot(s, r.s, q, d, n, strong)
    BY <1>3, <2>5, OtherSame DEF HandleGot
  <2>7. u \in Object /\ u.node = n /\ u.strong = strong /\ u.type = "HANDLE" /\ u.desc = d
    BY <1>1, <2>5 DEF Object
  <2>9. Informs(s, r.s)
    BY <1>3, <2>5 DEF Informs
  <2> QED BY <2>1, <2>5, <2>6, <2>7, <2>9 DEF TransOK
<1> QED BY <1>4, <1>5

-----------------------------------------------------------------------------
(* Buffers *)

\* The claims of an object in a buffer on n.
Claim(objects, n, strong) ==
    IF /\ objects # <<>>
       /\ objects[1].type = "BINDER" /\ objects[1].node = n /\ objects[1].strong = strong
    THEN 1 ELSE 0

\* The claims may be added in either order.
LEMMA PlusSwap == \A i, j, m \in Nat : i + j + m = i + m + j /\ i + m \in Nat
OBVIOUS

\* CS and CW are BS and BW with the claims of a buffer for target with these objects.
BufAdds(BS, BW, CS, CW, target, objects) ==
    \A n \in Node :
       /\ BS[n] \in Nat /\ BW[n] \in Nat
       /\ CS[n] = BS[n] + One(n = target) + Claim(objects, n, TRUE)
       /\ CW[n] = BW[n] + Claim(objects, n, FALSE)

\* The objects of a buffer of q: none, or one that q can make sense of.
BufObjects(objects, q) ==
    \/ objects = <<>>
    \/ \E u \in Object : /\ objects = <<u>>
                         /\ u.type = "BINDER" => Owner[u.node] = q
                         /\ u.type = "HANDLE" => u.desc \in Desc

\* The claims matter node by node.
LEMMA GoodSame ==
    ASSUME NEW s, NEW L, NEW U, NEW BS, NEW BW, Good(s, L, U, BS, BW),
           NEW CS, NEW CW, \A n \in Node : CS[n] = BS[n] /\ CW[n] = BW[n]
    PROVE  Good(s, L, U, CS, CW)
BY DEF Good

\* The claims are numbers.
LEMMA GoodNat ==
    ASSUME NEW s, NEW L, NEW U, NEW BS, NEW BW, Good(s, L, U, BS, BW), NEW n \in Node
    PROVE  BS[n] \in Nat /\ BW[n] \in Nat
BY DEF Good, NodeOK, NodeMid

\* Where a transaction may go to.
MayGo(s, L, n) ==
    n = NULL \/ (n \in Node /\ n \in L /\ s.node[n] # NULL /\ Strong(s.node[n]))

\* A transaction's target is claimed.
LEMMA TargetClaimed ==
    ASSUME NEW s, NEW L, NEW U, NEW BS, NEW BW, Good(s, L, U, BS, BW),
           NEW target, MayGo(s, L, target),
           NEW MS, \A n \in Node : MS[n] = BS[n] + One(n = target)
    PROVE  /\ Good(WithTarget(s, target), L, U, MS, BW) /\ WithTarget(s, target).refs = s.refs
           /\ Informs(s, WithTarget(s, target))
<1> PICK r : r = WithTarget(s, target)
  OBVIOUS
<1>1. CASE target = NULL
  <2>1. r = s
    BY <1>1 DEF WithTarget
  <2>2. \A n \in Node : MS[n] = BS[n]
    <3> SUFFICES ASSUME NEW n \in Node
                 PROVE  MS[n] = BS[n]
      OBVIOUS
    <3>1. n # target
      BY <1>1, RefsAssumption
    <3>2. MS[n] = BS[n] + 0 /\ BS[n] \in Nat
      BY <3>1, GoodNat DEF One
    <3> QED BY <3>2
  <2> QED BY <2>1, <2>2, GoodSame DEF Informs
<1>2. CASE target # NULL
  <2> PICK strong \in BOOLEAN : strong = TRUE
    OBVIOUS
  <2>1. r = IncLocal(s, target, strong)
    BY <1>2 DEF WithTarget, IncLocal
  <2>2. target \in Node /\ target \in L /\ s.node[target] # NULL
    BY <1>2 DEF MayGo
  <2>3. Claims(BS, BW, MS, BW, target, strong, 1)
    <3> SUFFICES ASSUME NEW n \in Node
                 PROVE  MS[n] = IF n = target THEN BS[n] + 1 ELSE BS[n]
      BY DEF Claims
    <3>1. BS[n] \in Nat /\ MS[n] = BS[n] + One(n = target)
      BY GoodNat
    <3> QED BY <3>1 DEF One
  <2>4. \A z \in BOOLEAN : r = IncLocal(s, target, z) /\ Claims(BS, BW, MS, BW, target, z, 1) =>
          Good(r, L, U, MS, BW) /\ r.refs = s.refs /\ Informs(s, r)
    <3>1. Strong(s.node[target]) /\ Weak(s, target)
      BY <1>2 DEF MayGo, Weak
    <3> QED BY <2>2, <3>1, GoodIncLocal
  <2> QED BY <2>1, <2>3, <2>4
<1> QED BY <1>1, <1>2

\* What a transaction did to the references, and what it brought: for a handle, see
\* HandleGot.
Sent(s, r, objects, out, q, L) ==
    \/ objects = <<>> /\ out = <<>> /\ r.refs = s.refs
    \/ \E o \in Object, u \in Object :
          /\ objects = <<o>> /\ out = <<u>>
          /\ u.node = o.node /\ u.strong = o.strong
          /\ \/ u.type = "BINDER" /\ Owner[u.node] = q /\ u.node \in L /\ r.refs = s.refs
             \/ u.type = "HANDLE" /\ u.desc \in Desc /\ HandleGot(s, r, q, u.desc, u.node, u.strong)

\* The part of binder_transaction that counts keeps the invariant.
LEMMA SendGood ==
    ASSUME NEW s, NEW L, NEW U, NEW BS, NEW BW, Good(s, L, U, BS, BW),
           NEW th \in Thread, NEW q \in Proc, q \in U,
           NEW target, MayGo(s, L, target),
           NEW objects, objects = <<>> \/ \E o : objects = <<o>> /\ MayPut(s, L, o, th),
           NEW t, t = Translated(WithTarget(s, target), objects, th, q)
    PROVE  /\ Sent(s, t.s, objects, t.out, q, L)
           /\ BufObjects(t.out, q)
           /\ Informs(s, t.s)
           /\ \A CS, CW : BufAdds(BS, BW, CS, CW, target, t.out) => Good(t.s, L, U, CS, CW)
<1> PICK w : w = WithTarget(s, target)
  OBVIOUS
<1> DEFINE MS == [n \in Node |-> BS[n] + One(n = target)]
<1>1. \A n \in Node : MS[n] = BS[n] + One(n = target)
  OBVIOUS
<1> HIDE DEF MS
<1>2. Good(w, L, U, MS, BW) /\ w.refs = s.refs /\ Informs(s, w)
  BY <1>1, TargetClaimed
<1>3. CASE objects = <<>>
  <2>1. t = [s |-> w, out |-> <<>>]
    BY <1>3, TranslatedObjects
  <2>2. t.s = w /\ t.out = <<>>
    BY <2>1
  <2>3. ASSUME NEW CS, NEW CW, BufAdds(BS, BW, CS, CW, target, t.out)
        PROVE  Good(t.s, L, U, CS, CW)
    <3> SUFFICES ASSUME NEW n \in Node
                 PROVE  CS[n] = MS[n] /\ CW[n] = BW[n]
      BY <1>2, <2>2, GoodSame
    <3>1. Claim(t.out, n, TRUE) = 0 /\ Claim(t.out, n, FALSE) = 0
      BY <2>2 DEF Claim
    <3>2. One(n = target) \in Nat
      BY DEF One
    <3>3. /\ BS[n] \in Nat /\ BW[n] \in Nat
          /\ CS[n] = BS[n] + One(n = target) + 0
          /\ CW[n] = BW[n] + 0
      BY <2>3, <3>1 DEF BufAdds
    <3> QED BY <1>1, <3>2, <3>3
  <2> QED BY <1>2, <1>3, <2>2, <2>3 DEF Sent, BufObjects
<1>4. CASE \E o : objects = <<o>> /\ MayPut(s, L, o, th)
  <2>1. PICK o : objects = <<o>> /\ MayPut(s, L, o, th)
    BY <1>4
  <2>2. t = Translate([s |-> w, out |-> <<>>], o, th, q)
    BY <2>1, TranslatedObjects
  <2>3. MayPut(w, L, o, th)
    BY <1>2, <2>1 DEF MayPut
  <2> DEFINE BT == [n \in Node |-> IF n = o.node /\ o.strong THEN MS[n] + 1 ELSE MS[n]]
             BX == [n \in Node |-> IF n = o.node /\ ~o.strong THEN BW[n] + 1 ELSE BW[n]]
  <2>4. ObjectClaims(MS, BW, BT, BX, o, 1)
    BY DEF ObjectClaims, Claims
  <2> HIDE DEF BT, BX
  <2>5. PICK u : /\ t.out = <<u>> /\ TransOK(w, t.s, o, u, q, L, U, MS, BW, BT, BX)
                 /\ Informs(w, t.s)
    BY <1>2, <2>2, <2>3, <2>4, TranslateObject
  <2>6. o \in Object /\ u \in Object /\ u.node = o.node /\ u.strong = o.strong
    BY <2>1, <2>5 DEF MayPut, TransOK
  <2>7. Sent(s, t.s, objects, t.out, q, L)
    <3>1. CASE u.type = "BINDER" /\ Owner[u.node] = q /\ u.node \in L /\ t.s.refs = w.refs
      BY <1>2, <2>1, <2>5, <2>6, <3>1 DEF Sent
    <3>2. CASE u.type = "HANDLE" /\ u.desc \in Desc /\ HandleGot(w, t.s, q, u.desc, u.node, u.strong)
      <4>1. HandleGot(s, t.s, q, u.desc, u.node, u.strong)
        BY <1>2, <3>2, OtherSame DEF HandleGot
      <4> QED BY <2>1, <2>5, <2>6, <3>2, <4>1 DEF Sent
    <3> QED BY <2>5, <3>1, <3>2 DEF TransOK
  <2>8. BufObjects(t.out, q)
    <3>1. u.type = "BINDER" => Owner[u.node] = q
      BY <2>5 DEF TransOK
    <3>2. u.type = "HANDLE" => u.desc \in Desc
      BY <2>5 DEF TransOK
    <3> QED BY <2>5, <2>6, <3>1, <3>2 DEF BufObjects
  <2>9. ASSUME NEW CS, NEW CW, BufAdds(BS, BW, CS, CW, target, t.out)
        PROVE  Good(t.s, L, U, CS, CW)
    <3>0. t.out # <<>> /\ t.out[1] = u
      BY <2>5
    <3>1. ASSUME NEW n \in Node
          PROVE  /\ BW[n] \in Nat
                 /\ MS[n] \in Nat
                 /\ CS[n] = MS[n] + Claim(t.out, n, TRUE)
                 /\ CW[n] = BW[n] + Claim(t.out, n, FALSE)
      <4>1. One(n = target) \in Nat /\ BS[n] \in Nat /\ MS[n] = BS[n] + One(n = target)
        BY <1>1, <2>9 DEF BufAdds, One
      <4>2. /\ BW[n] \in Nat
            /\ CS[n] = MS[n] + Claim(t.out, n, TRUE)
            /\ CW[n] = BW[n] + Claim(t.out, n, FALSE)
        BY <2>9, <4>1 DEF BufAdds
      <4>3. MS[n] \in Nat
        BY <4>1
      <4> QED BY <4>2, <4>3
    <3>2. CASE u.type = "BINDER" /\ Good(t.s, L, U, BT, BX)
      <4> SUFFICES ASSUME NEW n \in Node
                   PROVE  CS[n] = BT[n] /\ CW[n] = BX[n]
        BY <3>2, GoodSame
      <4>1. /\ BT[n] = IF n = o.node /\ o.strong THEN MS[n] + 1 ELSE MS[n]
            /\ BX[n] = IF n = o.node /\ ~o.strong THEN BW[n] + 1 ELSE BW[n]
        BY <2>4 DEF ObjectClaims, Claims
      <4>2. o.strong \in BOOLEAN
        BY <2>6 DEF Object
      <4>3. /\ Claim(t.out, n, TRUE) = IF n = o.node /\ o.strong THEN 1 ELSE 0
            /\ Claim(t.out, n, FALSE) = IF n = o.node /\ ~o.strong THEN 1 ELSE 0
        BY <2>6, <3>0, <3>2, <4>2 DEF Claim
      <4> PICK x \in Nat, y \in Nat : x = MS[n] /\ y = BW[n]
        BY <3>1
      <4>0. CS[n] = x + Claim(t.out, n, TRUE) /\ CW[n] = y + Claim(t.out, n, FALSE)
        BY <3>1
      <4>4. CS[n] = BT[n]
        <5>1. CASE n = o.node /\ o.strong
          BY <4>0, <4>1, <4>3, <5>1
        <5>2. CASE ~(n = o.node /\ o.strong)
          <6>1. CS[n] = x + 0 /\ BT[n] = x
            BY <4>0, <4>1, <4>3, <5>2
          <6> QED BY <6>1
        <5> QED BY <5>1, <5>2
      <4>5. CW[n] = BX[n]
        <5>1. CASE n = o.node /\ ~o.strong
          BY <4>0, <4>1, <4>3, <5>1
        <5>2. CASE ~(n = o.node /\ ~o.strong)
          <6>1. CW[n] = y + 0 /\ BX[n] = y
            BY <4>0, <4>1, <4>3, <5>2
          <6> QED BY <6>1
        <5> QED BY <5>1, <5>2
      <4> QED BY <4>4, <4>5
    <3>3. CASE u.type = "HANDLE" /\ Good(t.s, L, U, MS, BW)
      <4> SUFFICES ASSUME NEW n \in Node
                   PROVE  CS[n] = MS[n] /\ CW[n] = BW[n]
        BY <3>3, GoodSame
      <4>1. Claim(t.out, n, TRUE) = 0 /\ Claim(t.out, n, FALSE) = 0
        BY <3>0, <3>3 DEF Claim
      <4> PICK x \in Nat, y \in Nat : x = MS[n] /\ y = BW[n]
        BY <3>1
      <4>2. CS[n] = x + 0 /\ CW[n] = y + 0
        BY <3>1, <4>1
      <4> QED BY <4>2
    <3> QED BY <2>5, <3>2, <3>3 DEF TransOK
  <2>10. Informs(s, t.s)
    BY <1>2, <2>5 DEF Informs
  <2> QED BY <2>7, <2>8, <2>9, <2>10
<1> QED BY <1>3, <1>4

\* p's handle d has a claim of the kind less, if it was there and had one.
HandleLost(s, r, p, d, strong) ==
    \/ s.refs[p][d] = NULL /\ r.refs = s.refs
    \/ /\ s.refs[p][d] # NULL
       /\ (IF strong THEN s.refs[p][d].strong ELSE s.refs[p][d].weak) = 0
       /\ r.refs = s.refs
    \/ /\ s.refs[p][d] # NULL
       /\ (IF strong THEN s.refs[p][d].strong ELSE s.refs[p][d].weak) > 0
       /\ OtherRefs(s, r, p, d)
       /\ \/ r.refs[p][d] # NULL /\ LessRef(s.refs[p][d], r.refs[p][d], strong)
          \/ /\ r.refs[p][d] = NULL
             /\ s.refs[p][d].strong + s.refs[p][d].weak = 1

\* What giving back a buffer did to the references.
Given(s, r, objects, p) ==
    \/ objects = <<>> /\ r.refs = s.refs
    \/ \E u \in Object :
          /\ objects = <<u>>
          /\ \/ u.type = "BINDER" /\ r.refs = s.refs
             \/ u.type = "HANDLE" /\ u.desc \in Desc /\ HandleLost(s, r, p, u.desc, u.strong)

\* CS are the claims MS with one more for the target.
TargetClaims(MS, CS, target) ==
    \A n \in Node : MS[n] \in Nat /\ CS[n] = MS[n] + One(n = target)

\* A transaction's target is given back.
LEMMA TargetGiven ==
    ASSUME NEW s, NEW L, NEW U, NEW CS, NEW CW, Good(s, L, U, CS, CW),
           NEW target, target = NULL \/ target \in Node,
           NEW MS, TargetClaims(MS, CS, target),
           NEW r, TargetGone(s, r, target)
    PROVE  Good(r, L, U, MS, CW) /\ r.refs = s.refs /\ Informs(s, r)
<1>1. CASE target = NULL
  <2>2. \A n \in Node : MS[n] = CS[n]
    <3> SUFFICES ASSUME NEW n \in Node
                 PROVE  MS[n] = CS[n]
      OBVIOUS
    <3>1. n # target
      BY <1>1, RefsAssumption
    <3>2. CS[n] = MS[n] + 0 /\ MS[n] \in Nat
      BY <3>1 DEF One, TargetClaims
    <3> QED BY <3>2
  <2>3. r = s
    BY <1>1 DEF TargetGone
  <2> QED BY <2>2, <2>3, GoodSame DEF Informs
<1>2. CASE target # NULL
  <2> PICK strong \in BOOLEAN : strong = TRUE
    OBVIOUS
  <2>1. r = DecLocal(s, target, strong)
    BY <1>2 DEF DecLocal, TargetGone
  <2>2. target \in Node
    BY <1>2
  <2>3. Claims(CS, CW, MS, CW, target, strong, -1)
    <3> SUFFICES ASSUME NEW n \in Node
                 PROVE  MS[n] = IF n = target THEN CS[n] + (-1) ELSE CS[n]
      BY DEF Claims
    <3>1. MS[n] \in Nat /\ CS[n] = MS[n] + One(n = target)
      BY DEF TargetClaims
    <3> QED BY <3>1 DEF One
  <2>4. CS[target] > 0
    <3>1. MS[target] \in Nat /\ CS[target] = MS[target] + 1
      BY <2>2 DEF One, TargetClaims
    <3> QED BY <3>1
  <2>5. Some(CS, CW, target, strong)
    BY <2>4 DEF Some
  <2>6. \A z \in BOOLEAN : /\ r = DecLocal(s, target, z) /\ Claims(CS, CW, MS, CW, target, z, -1)
                           /\ Some(CS, CW, target, z)
                           => Good(r, L, U, MS, CW) /\ r.refs = s.refs /\ Informs(s, r)
    BY <2>2, GoodDecLocal
  <2> QED BY <2>1, <2>3, <2>5, <2>6
<1> QED BY <1>1, <1>2

\* MS and CW are the claims BS and BW with those of the objects.
ObjectsClaims(BS, BW, MS, CW, objects) ==
    \A n \in Node : /\ BS[n] \in Nat /\ BW[n] \in Nat
                    /\ MS[n] = BS[n] + Claim(objects, n, TRUE)
                    /\ CW[n] = BW[n] + Claim(objects, n, FALSE)

\* One object of a buffer is given back.
LEMMA ReleaseOne ==
    ASSUME NEW s, NEW L, NEW U, NEW MS, NEW CW, Good(s, L, U, MS, CW),
           NEW p \in Proc, NEW u \in Object, u.type = "HANDLE" => u.desc \in Desc,
           NEW objects, objects = <<u>>,
           NEW BS, NEW BW, ObjectsClaims(BS, BW, MS, CW, objects),
           NEW r, r = ReleaseObject(s, u, p)
    PROVE  /\ Good(r, L, U, BS, BW) /\ Informs(s, r)
           /\ \/ u.type = "BINDER" /\ r.refs = s.refs
              \/ u.type = "HANDLE" /\ HandleLost(s, r, p, u.desc, u.strong)
<1> PICK n : n = u.node
  OBVIOUS
<1> PICK strong : strong = u.strong
  OBVIOUS
<1> PICK d : d = u.desc
  OBVIOUS
<1>1. /\ n \in Node /\ strong \in BOOLEAN
      /\ u.type = "BINDER" \/ u.type = "HANDLE"
  BY DEF Object
<1>2. objects # <<>> /\ objects[1] = u
  OBVIOUS
<1>3. CASE u.type = "BINDER"
  <2>1. ASSUME NEW m \in Node
        PROVE  /\ Claim(objects, m, TRUE) = IF m = n /\ strong THEN 1 ELSE 0
               /\ Claim(objects, m, FALSE) = IF m = n /\ ~strong THEN 1 ELSE 0
    BY <1>1, <1>2, <1>3 DEF Claim
  <2>2. ASSUME NEW m \in Node
        PROVE  /\ BS[m] = IF m = n /\ strong THEN MS[m] + (-1) ELSE MS[m]
               /\ BW[m] = IF m = n /\ ~strong THEN CW[m] + (-1) ELSE CW[m]
    <3> PICK x \in Nat, y \in Nat : x = BS[m] /\ y = BW[m]
      BY DEF ObjectsClaims
    <3>1. MS[m] = x + Claim(objects, m, TRUE) /\ CW[m] = y + Claim(objects, m, FALSE)
      BY DEF ObjectsClaims
    <3>2. BS[m] = IF m = n /\ strong THEN MS[m] + (-1) ELSE MS[m]
      <4>1. CASE m = n /\ strong
        <5>1. Claim(objects, m, TRUE) = 1
          BY <2>1, <4>1
        <5>2. MS[m] = x + 1
          BY <3>1, <5>1
        <5> QED BY <4>1, <5>2
      <4>2. CASE ~(m = n /\ strong)
        <5>1. MS[m] = x + 0
          BY <2>1, <3>1, <4>2
        <5> QED BY <4>2, <5>1
      <4> QED BY <4>1, <4>2
    <3>3. BW[m] = IF m = n /\ ~strong THEN CW[m] + (-1) ELSE CW[m]
      <4>1. CASE m = n /\ ~strong
        <5>1. Claim(objects, m, FALSE) = 1
          BY <2>1, <4>1
        <5>2. CW[m] = y + 1
          BY <3>1, <5>1
        <5> QED BY <4>1, <5>2
      <4>2. CASE ~(m = n /\ ~strong)
        <5>1. CW[m] = y + 0
          BY <2>1, <3>1, <4>2
        <5> QED BY <4>2, <5>1
      <4> QED BY <4>1, <4>2
    <3> QED BY <3>2, <3>3
  <2>3. Claims(MS, CW, BS, BW, n, strong, -1)
    BY <2>2 DEF Claims
  <2>4. Some(MS, CW, n, strong)
    <3> PICK x \in Nat, y \in Nat : x = BS[n] /\ y = BW[n]
      BY <1>1 DEF ObjectsClaims
    <3>1. MS[n] = x + Claim(objects, n, TRUE) /\ CW[n] = y + Claim(objects, n, FALSE)
      BY <1>1 DEF ObjectsClaims
    <3>2. CASE strong
      <4>1. Claim(objects, n, TRUE) = 1
        BY <1>1, <2>1, <3>2
      <4>2. MS[n] = x + 1
        BY <3>1, <4>1
      <4> QED BY <3>2, <4>2 DEF Some
    <3>3. CASE ~strong
      <4>1. Claim(objects, n, FALSE) = 1
        BY <1>1, <2>1, <3>3
      <4>2. CW[n] = y + 1
        BY <3>1, <4>1
      <4> QED BY <3>3, <4>2 DEF Some
    <3> QED BY <3>2, <3>3
  <2>5. s.node[n] # NULL
    <3>1. NodeOK(s, L, n, MS[n], CW[n])
      BY <1>1 DEF Good
    <3> QED BY <1>1, <2>4, <3>1 DEF NodeOK, NodeMid, Some
  <2>6. r = DecLocal(s, n, strong)
    BY <1>3, <2>5 DEF ReleaseObject, DecLocal
  <2>7. Good(r, L, U, BS, BW) /\ r.refs = s.refs /\ Informs(s, r)
    BY <1>1, <2>3, <2>4, <2>6, GoodDecLocal
  <2> QED BY <1>3, <2>7
<1>4. CASE u.type = "HANDLE"
  <2>1. ASSUME NEW m \in Node
        PROVE  BS[m] = MS[m] /\ BW[m] = CW[m]
    <3> PICK x \in Nat, y \in Nat : x = BS[m] /\ y = BW[m]
      BY DEF ObjectsClaims
    <3>1. Claim(objects, m, TRUE) = 0 /\ Claim(objects, m, FALSE) = 0
      BY <1>2, <1>4 DEF Claim
    <3>2. MS[m] = x + 0 /\ CW[m] = y + 0
      BY <3>1 DEF ObjectsClaims
    <3> QED BY <3>2
  <2>2. Good(s, L, U, BS, BW) /\ d \in Desc
    BY <1>4, <2>1, GoodSame
  <2>3. CASE s.refs[p][d] = NULL
    <3>1. r = s
      BY <1>4, <2>3 DEF ReleaseObject
    <3>2. HandleLost(s, r, p, d, strong)
      BY <2>3, <3>1 DEF HandleLost
    <3> QED BY <1>4, <2>2, <3>1, <3>2 DEF Informs
  <2>4. CASE s.refs[p][d] # NULL
    <3>1. r = binder_dec_ref(s, p, d, strong)
      BY <1>4, <2>4 DEF ReleaseObject
    <3>2. Good(r, L, U, BS, BW) /\ RefDec(s, r, p, d, strong) /\ Informs(s, r)
      BY <1>1, <2>2, <2>4, <3>1, DecRef
    <3>3. HandleLost(s, r, p, d, strong)
      BY <2>4, <3>2 DEF HandleLost, RefDec
    <3> QED BY <1>4, <3>2, <3>3
  <2> QED BY <2>3, <2>4
<1> QED BY <1>1, <1>3, <1>4

\* binder_transaction_buffer_release keeps the invariant.
LEMMA ReleaseGood ==
    ASSUME NEW s, NEW L, NEW U, NEW CS, NEW CW, Good(s, L, U, CS, CW),
           NEW p \in Proc, NEW target, target = NULL \/ target \in Node,
           NEW objects, BufObjects(objects, p),
           NEW BS, NEW BW, BufAdds(BS, BW, CS, CW, target, objects),
           NEW r, r = binder_transaction_buffer_release(s, p, target, objects)
    PROVE  Good(r, L, U, BS, BW) /\ Given(s, r, objects, p) /\ Informs(s, r)
<1> PICK w : TargetGone(s, w, target)
  BY DEF TargetGone
<1> DEFINE MS == [n \in Node |-> BS[n] + Claim(objects, n, TRUE)]
<1>1. \A n \in Node : MS[n] = BS[n] + Claim(objects, n, TRUE)
  OBVIOUS
<1> HIDE DEF MS
<1>2. TargetClaims(MS, CS, target)
  <2> SUFFICES ASSUME NEW n \in Node
               PROVE  MS[n] \in Nat /\ CS[n] = MS[n] + One(n = target)
    BY DEF TargetClaims
  <2>1. Claim(objects, n, TRUE) \in Nat
    BY DEF Claim
  <2>2. One(n = target) \in Nat
    BY DEF One
  <2>3. BS[n] \in Nat
    BY DEF BufAdds
  <2>4. CS[n] = BS[n] + One(n = target) + Claim(objects, n, TRUE)
    BY DEF BufAdds
  <2>5. MS[n] = BS[n] + Claim(objects, n, TRUE)
    BY <1>1
  <2>6. \A i, j, m \in Nat : MS[n] = i + m /\ CS[n] = i + j + m => MS[n] \in Nat /\ CS[n] = MS[n] + j
    BY PlusSwap
  <2> QED BY <2>1, <2>2, <2>3, <2>4, <2>5, <2>6, Zenon
<1>3. Good(w, L, U, MS, CW) /\ w.refs = s.refs /\ Informs(s, w)
  BY <1>2, TargetGiven
<1>4. ObjectsClaims(BS, BW, MS, CW, objects)
  BY <1>1 DEF BufAdds, ObjectsClaims
<1>5. CASE objects = <<>>
  <2>1. r = w
    BY <1>5, ReleasedNone
  <2>2. \A n \in Node : BS[n] = MS[n] /\ BW[n] = CW[n]
    <3> SUFFICES ASSUME NEW n \in Node
                 PROVE  BS[n] = MS[n] /\ BW[n] = CW[n]
      OBVIOUS
    <3> PICK x \in Nat, y \in Nat : x = BS[n] /\ y = BW[n]
      BY <1>4 DEF ObjectsClaims
    <3>1. Claim(objects, n, TRUE) = 0 /\ Claim(objects, n, FALSE) = 0
      BY <1>5 DEF Claim
    <3>2. MS[n] = x + 0 /\ CW[n] = y + 0
      BY <1>4, <3>1 DEF ObjectsClaims
    <3> QED BY <3>2
  <2>3. Good(r, L, U, BS, BW)
    BY <1>3, <2>1, <2>2, GoodSame
  <2> QED BY <1>3, <1>5, <2>1, <2>3 DEF Given
<1>6. CASE objects # <<>>
  <2>1. PICK u \in Object : objects = <<u>> /\ (u.type = "HANDLE" => u.desc \in Desc)
    BY <1>6 DEF BufObjects
  <2>2. r = ReleaseObject(w, u, p)
    BY <2>1, ReleasedOne
  <2>3. /\ Good(r, L, U, BS, BW) /\ Informs(w, r)
        /\ \/ u.type = "BINDER" /\ r.refs = w.refs
           \/ u.type = "HANDLE" /\ HandleLost(w, r, p, u.desc, u.strong)
    BY <1>3, <1>4, <2>1, <2>2, ReleaseOne
  <2>4. HandleLost(w, r, p, u.desc, u.strong) => HandleLost(s, r, p, u.desc, u.strong)
    BY <1>3 DEF HandleLost, OtherRefs
  <2>5. Given(s, r, objects, p)
    BY <1>3, <2>1, <2>3, <2>4 DEF Given
  <2>6. Informs(s, r)
    BY <1>3, <2>3 DEF Informs
  <2> QED BY <2>3, <2>5, <2>6
<1> QED BY <1>5, <1>6

-----------------------------------------------------------------------------
(* What the owner is told, and answers *)

\* The node x of an owner becomes y, with bt and bx claims of the buffers.
Rewritten(x, y, n, bt, bx) ==
    /\ y \in NodeRec
    /\ y.proc = x.proc /\ y.internal_strong = x.internal_strong
    /\ y.local_strong = bt + One(y.pending_strong) + Ctx(n)
    /\ y.local_weak = bx + One(y.pending_weak) + Ctx(n)
    /\ Answers(y)

\* Such a step keeps the invariant.
LEMMA GoodRewritten ==
    ASSUME NEW s, NEW L, NEW U, NEW BS, NEW BW, Good(s, L, U, BS, BW),
           NEW n \in Node, n \in L, s.node[n] # NULL,
           NEW BT, NEW BX, SameClaims(BS, BW, BT, BX, n), BT[n] \in Nat, BX[n] \in Nat,
           NEW y, Rewritten(s.node[n], y, n, BT[n], BX[n]),
           NEW r, Wrote(s, r, n, y)
    PROVE  /\ Good(r, L, U, BT, BX)
           /\ r.refs = s.refs /\ r.node[n] = y
<1>1. s \in DriverRec /\ NodeOK(s, L, n, BS[n], BW[n])
  BY DEF Good
<1>2. y \in NodeRec /\ y \in NodeRec \cup {NULL} /\ y # NULL
  BY NotNull DEF Rewritten
<1>3. Written(s, r, n, y)
  BY <1>1, <1>2, WrittenNode
<1>4. /\ Local(s, r, n) /\ r.node[n] = y
      /\ OwnLists(r, n) <=> OwnLists(s, n)
      /\ r.refs = s.refs
  BY <1>3 DEF Written, Local
<1>5. RefsTo(r, n) = RefsTo(s, n) /\ StrongRefs(r, n) = StrongRefs(s, n)
  BY <1>4, SameRefs
<1>6. NodeOK(r, L, n, BT[n], BX[n])
  BY <1>1, <1>2, <1>4, <1>5 DEF NodeOK, NodeMid, Rewritten
<1>7. Good(r, L, U, BT, BX)
  BY <1>2, <1>4, <1>6, GoodLocal
<1> QED BY <1>4, <1>7

\* The node x is told of in one of four ways, for a reason.
NodeTells(x, command) ==
    \/ command = "INCREFS" /\ ~x.has_weak
    \/ command = "ACQUIRE" /\ ~x.has_strong
    \/ command = "RELEASE" /\ ~(x.local_strong > 0)
    \/ command = "DECREFS" /\ ~(x.local_weak > 0)

\* What is told is remembered, and the claim that an answer will give back.
LEMMA ToldRewritten ==
    ASSUME NEW x \in NodeRec, NEW n, NEW bs \in Nat, NEW bw \in Nat, NEW a \in Nat, a = Ctx(n),
           x.local_strong = bs + One(x.pending_strong) + a,
           x.local_weak = bw + One(x.pending_weak) + a,
           Answers(x), NEW command, NodeTells(x, command),
           NEW y, y = NodeTold(x, command)
    PROVE  Rewritten(x, y, n, bs, bw)
<1>0. \A i, k \in Nat : i + 0 + k + 1 = i + 1 + k
  OBVIOUS
<1>1. CASE command = "INCREFS" /\ ~x.has_weak
  <2>1. y = [x EXCEPT !.has_weak = TRUE, !.pending_weak = TRUE, !.local_weak = @ + 1]
    BY <1>1 DEF NodeTold
  <2>2. /\ x.has_weak = FALSE /\ x.pending_weak = FALSE
    BY <1>1 DEF Answers, NodeRec
  <2>3. x.local_weak + 1 = bw + 1 + a
    <3>1. x.local_weak = bw + 0 + a
      BY <2>2, Ones
    <3> QED BY <1>0, <3>1
  <2>4. y = [proc |-> x.proc, internal_strong |-> x.internal_strong,
             local_strong |-> x.local_strong, local_weak |-> bw + 1 + a,
             has_strong |-> x.has_strong, has_weak |-> TRUE,
             pending_strong |-> x.pending_strong, pending_weak |-> TRUE]
    BY <2>1, <2>3 DEF NodeRec
  <2>5. y \in NodeRec
    BY <2>4 DEF NodeRec
  <2>6. /\ y.proc = x.proc /\ y.internal_strong = x.internal_strong
        /\ y.local_strong = x.local_strong /\ y.pending_strong = x.pending_strong
        /\ y.has_strong = x.has_strong
    BY <2>4
  <2>7. y.has_weak = TRUE /\ y.local_weak = bw + One(y.pending_weak) + a
    <3>1. y.has_weak = TRUE /\ y.pending_weak = TRUE /\ y.local_weak = bw + 1 + a
      BY <2>4
    <3>2. One(y.pending_weak) = 1
      BY <3>1 DEF One
    <3> QED BY <3>1, <3>2
  <2>8. Answers(y)
    BY <2>6, <2>7 DEF Answers
  <2> QED BY <2>5, <2>6, <2>7, <2>8 DEF Rewritten
<1>2. CASE command = "ACQUIRE" /\ ~x.has_strong
  <2>1. y = [x EXCEPT !.has_strong = TRUE, !.pending_strong = TRUE, !.local_strong = @ + 1]
    BY <1>2 DEF NodeTold
  <2>2. /\ x.has_strong = FALSE /\ x.pending_strong = FALSE
    BY <1>2 DEF Answers, NodeRec
  <2>3. x.local_strong + 1 = bs + 1 + a
    <3>1. x.local_strong = bs + 0 + a
      BY <2>2, Ones
    <3> QED BY <1>0, <3>1
  <2>4. y = [proc |-> x.proc, internal_strong |-> x.internal_strong,
             local_strong |-> bs + 1 + a, local_weak |-> x.local_weak,
             has_strong |-> TRUE, has_weak |-> x.has_weak,
             pending_strong |-> TRUE, pending_weak |-> x.pending_weak]
    BY <2>1, <2>3 DEF NodeRec
  <2>5. y \in NodeRec
    BY <2>4 DEF NodeRec
  <2>6. /\ y.proc = x.proc /\ y.internal_strong = x.internal_strong
        /\ y.local_weak = x.local_weak /\ y.pending_weak = x.pending_weak
        /\ y.has_weak = x.has_weak
    BY <2>4
  <2>7. y.has_strong = TRUE /\ y.local_strong = bs + One(y.pending_strong) + a
    <3>1. y.has_strong = TRUE /\ y.pending_strong = TRUE /\ y.local_strong = bs + 1 + a
      BY <2>4
    <3>2. One(y.pending_strong) = 1
      BY <3>1 DEF One
    <3> QED BY <3>1, <3>2
  <2>8. Answers(y)
    BY <2>6, <2>7 DEF Answers
  <2> QED BY <2>5, <2>6, <2>7, <2>8 DEF Rewritten
<1>3. CASE command = "RELEASE" /\ ~(x.local_strong > 0)
  <2>1. y = [x EXCEPT !.has_strong = FALSE]
    BY <1>3 DEF NodeTold
  <2>2. x.pending_strong = FALSE
    <3>1. x.pending_strong \in BOOLEAN
      BY DEF NodeRec
    <3>2. x.pending_strong = TRUE => x.local_strong = bs + 1 + a
      BY Ones
    <3>3. bs + 1 + a > 0
      OBVIOUS
    <3> QED BY <1>3, <3>1, <3>2, <3>3
  <2>3. /\ y \in NodeRec /\ y.proc = x.proc /\ y.internal_strong = x.internal_strong
        /\ y.local_weak = x.local_weak /\ y.pending_weak = x.pending_weak
        /\ y.local_strong = x.local_strong /\ y.pending_strong = x.pending_strong
        /\ y.has_weak = x.has_weak
    BY <2>1 DEF NodeRec
  <2>4. Answers(y)
    BY <2>2, <2>3 DEF Answers
  <2> QED BY <2>3, <2>4 DEF Rewritten
<1>4. CASE command = "DECREFS" /\ ~(x.local_weak > 0)
  <2>1. y = [x EXCEPT !.has_weak = FALSE]
    BY <1>4 DEF NodeTold
  <2>2. x.pending_weak = FALSE
    <3>1. x.pending_weak \in BOOLEAN
      BY DEF NodeRec
    <3>2. x.pending_weak = TRUE => x.local_weak = bw + 1 + a
      BY Ones
    <3>3. bw + 1 + a > 0
      OBVIOUS
    <3> QED BY <1>4, <3>1, <3>2, <3>3
  <2>3. /\ y \in NodeRec /\ y.proc = x.proc /\ y.internal_strong = x.internal_strong
        /\ y.local_weak = x.local_weak /\ y.pending_weak = x.pending_weak
        /\ y.local_strong = x.local_strong /\ y.pending_strong = x.pending_strong
        /\ y.has_strong = x.has_strong
    BY <2>1 DEF NodeRec
  <2>4. Answers(y)
    BY <2>2, <2>3 DEF Answers
  <2> QED BY <2>3, <2>4 DEF Rewritten
<1> QED BY <1>1, <1>2, <1>3, <1>4 DEF NodeTells

\* An owner that is told never holds an object strongly but not weakly.
LEMMA ToldHolds ==
    ASSUME NEW s, NEW n, NEW x \in NodeRec, x = s.node[n],
           NodeCommand(s, n) # "none",
           NEW y, y = NodeTold(x, NodeCommand(s, n)),
           x.has_strong => x.has_weak
    PROVE  y.has_strong => y.has_weak
<1> PICK command : command = NodeCommand(s, n)
  OBVIOUS
<1>0. Strong(x) => Weak(s, n)
  BY DEF Weak
<1>1. CASE command = "INCREFS"
  <2>1. y = [x EXCEPT !.has_weak = TRUE, !.pending_weak = TRUE, !.local_weak = @ + 1]
    BY <1>1 DEF NodeTold
  <2> QED BY <2>1 DEF NodeRec
<1>2. CASE command = "ACQUIRE"
  <2>1. y = [x EXCEPT !.has_strong = TRUE, !.pending_strong = TRUE, !.local_strong = @ + 1]
    BY <1>2 DEF NodeTold
  <2>2. x.has_weak
    BY <1>0, <1>2 DEF NodeCommand
  <2>3. y.has_weak = x.has_weak
    BY <2>1 DEF NodeRec
  <2> QED BY <2>2, <2>3
<1>3. CASE command = "RELEASE"
  <2>1. y = [x EXCEPT !.has_strong = FALSE]
    BY <1>3 DEF NodeTold
  <2>2. y.has_strong = FALSE
    BY <2>1 DEF NodeRec
  <2> QED BY <2>2
<1>4. CASE command = "DECREFS"
  <2>1. y = [x EXCEPT !.has_weak = FALSE]
    BY <1>4 DEF NodeTold
  <2>2. ~x.has_strong
    BY <1>0, <1>4 DEF NodeCommand
  <2>3. y.has_strong = x.has_strong
    BY <2>1 DEF NodeRec
  <2> QED BY <2>2, <2>3
<1> QED BY <1>1, <1>2, <1>3, <1>4 DEF NodeCommand

\* BINDER_WORK_NODE keeps the invariant.
LEMMA ToldGood ==
    ASSUME NEW s, NEW L, NEW U, NEW BS, NEW BW, Good(s, L, U, BS, BW),
           NEW n \in Node, n \in L, s.node[n] # NULL,
           NEW r, r = Told(s, n)
    PROVE  /\ Good(r, L, U, BS, BW) /\ r.refs = s.refs
           /\ Queued(s, n) => Informs(s, r)
<1> PICK x : x = s.node[n]
  OBVIOUS
<1> PICK bs \in Nat : bs = BS[n]
  BY GoodNat
<1> PICK bw \in Nat : bw = BW[n]
  BY GoodNat
<1> PICK a \in Nat : a = Ctx(n)
  BY DEF Ctx
<1>1. s \in DriverRec /\ NodeOK(s, L, n, BS[n], BW[n])
  BY DEF Good
<1>2. /\ x \in NodeRec /\ x.local_strong \in Nat /\ x.local_weak \in Nat
      /\ x.has_strong \in BOOLEAN /\ x.has_weak \in BOOLEAN
      /\ x.pending_strong \in BOOLEAN /\ x.pending_weak \in BOOLEAN
      /\ x.internal_strong \in Nat
  BY <1>1, NodeFields
<1>3. /\ x.local_strong = bs + One(x.pending_strong) + a
      /\ x.local_weak = bw + One(x.pending_weak) + a
      /\ Answers(x) /\ OwnLists(s, n)
  BY <1>1 DEF NodeOK, NodeMid
<1>4. SameClaims(BS, BW, BS, BW, n)
  BY DEF SameClaims
<1>5. ASSUME NEW y, Rewritten(x, y, n, bs, bw), Wrote(s, r, n, y)
      PROVE  Good(r, L, U, BS, BW) /\ r.refs = s.refs
  BY <1>4, <1>5, GoodRewritten
<1>6. CASE NodeCommand(s, n) # "none"
  <2>1. NodeTells(x, NodeCommand(s, n))
    BY <1>6 DEF NodeTells, NodeCommand, Strong, Weak
  <2> PICK command : command = NodeCommand(s, n)
    OBVIOUS
  <2> PICK y : y = NodeTold(x, command)
    OBVIOUS
  <2>2. Rewritten(x, y, n, bs, bw)
    BY <1>2, <1>3, <2>1, ToldRewritten
  <2>3. Wrote(s, r, n, y)
    <3>1. r = [s EXCEPT !.node[n] = NodeTold(@, command)]
      BY <1>6 DEF Told
    <3> QED BY <1>1, <3>1, Types DEF DriverRec, Wrote
  <2>4. ASSUME Queued(s, n), Informed(s)
        PROVE  Informed(r)
    <3>1. y \in NodeRec \cup {NULL}
      BY <2>2 DEF Rewritten
    <3>2. Local(s, r, n) /\ r.node[n] = y /\ (Queued(r, n) <=> Queued(s, n))
      BY <1>1, <2>3, <3>1, WrittenNode DEF Written
    <3>3. y.proc # NULL => (x.has_strong => x.has_weak)
      <4>1. y.proc = x.proc /\ Knows(s, n)
        BY <2>2, <2>4 DEF Rewritten, Informed
      <4> QED BY <4>1 DEF Knows
    <3>4. y.proc # NULL => (y.has_strong => y.has_weak)
      BY <1>2, <1>6, <3>3, ToldHolds
    <3>5. Knows(r, n)
      BY <2>4, <3>2, <3>4 DEF Knows
    <3> QED BY <2>4, <3>2, <3>5, InformsLocal
  <2> QED BY <1>5, <2>2, <2>3, <2>4 DEF Informs
<1>10. CASE NodeCommand(s, n) = "none"
  <2>1. r = [Unqueued(s, n) EXCEPT !.node[n] = IF Weak(s, n) THEN @ ELSE NULL]
    BY <1>10 DEF Told
  <2> PICK u : u = Unqueued(s, n)
    OBVIOUS
  <2>2. Lists(s, u, n) /\ OwnLists(u, n) /\ ~Queued(u, n)
    BY <1>1, <1>3, UnqueuedLists
  <2>3. u \in DriverRec /\ u.node = s.node
    BY <2>2 DEF Lists
  <2>4. CASE Weak(s, n)
    <3>1. r = u
      BY <2>1, <2>3, <2>4, Types DEF DriverRec
    <3>2. Local(s, r, n)
      BY <2>2, <3>1, LocalLists
    <3>3. /\ RefsTo(r, n) = RefsTo(s, n) /\ StrongRefs(r, n) = StrongRefs(s, n)
          /\ r.refs = s.refs /\ r.node = s.node
      BY <2>3, <3>1, <3>2, SameRefs DEF Local
    <3>4. NodeOK(r, L, n, BS[n], BW[n])
      BY <1>1, <2>2, <3>1, <3>3 DEF NodeOK, NodeMid
    <3>5. Good(r, L, U, BS, BW)
      BY <1>4, <3>2, <3>3, <3>4, GoodLocal
    <3>6. ASSUME Informed(s)
          PROVE  Informed(r)
      <4>1. x.has_strong <=> Strong(x)
        BY <1>10 DEF NodeCommand
      <4>2. x.has_weak <=> Weak(s, n)
        BY <1>10 DEF NodeCommand
      <4>3. (Weak(r, n) <=> Weak(s, n)) /\ (Strong(x) => Weak(s, n))
        BY <3>3 DEF Weak
      <4>4. Knows(r, n)
        BY <3>3, <4>1, <4>2, <4>3 DEF Knows
      <4> QED BY <3>2, <3>6, <4>4, InformsLocal
    <3> QED BY <3>3, <3>5, <3>6 DEF Informs
  <2>5. CASE ~Weak(s, n)
    <3>1. r = [u EXCEPT !.node[n] = NULL]
      BY <2>1, <2>5
    <3>2. Local(s, r, n) /\ OwnLists(r, n) /\ ~Queued(r, n) /\ r.node[n] = NULL
      <4>1. u \in DriverRec
        BY <2>3
      <4>2. r = [Unqueued(s, n) EXCEPT !.node[n] = NULL]
        BY <3>1
      <4> QED BY <1>1, <1>3, <4>2, Freed
    <3>3. RefsTo(s, n) = {} /\ ~(x.local_weak > 0) /\ ~(x.local_strong > 0)
      BY <2>5 DEF Weak, Strong
    <3>4. bs = 0 /\ bw = 0 /\ a = 0
      <4> PICK k \in Nat : k = One(x.pending_strong)
        BY DEF One
      <4> PICK m \in Nat : m = One(x.pending_weak)
        BY DEF One
      <4>1. bs = 0 /\ a = 0
        <5>1. bs + k + a = x.local_strong
          BY <1>3
        <5> QED BY <3>3, <5>1
      <4>2. bw = 0
        <5>1. bw + m + a = x.local_weak
          BY <1>3
        <5> QED BY <3>3, <5>1
      <4> QED BY <4>1, <4>2
    <3>5. RefsTo(r, n) = {} /\ r.refs = s.refs
      BY <3>2, <3>3, SameRefs DEF Local
    <3>6. NodeOK(r, L, n, BS[n], BW[n])
      BY <3>2, <3>4, <3>5 DEF NodeOK, NodeMid
    <3>7. s.ctx # n
      <4>1. n \notin CtxNode
        BY <3>4 DEF Ctx
      <4>2. s.ctx \in CtxNode \cup {NULL} /\ n # NULL
        BY <1>1, Types, RefsAssumption
      <4> QED BY <4>1, <4>2
    <3>8. Good(r, L, U, BS, BW)
      BY <1>4, <3>2, <3>6, <3>7, GoodLocal
    <3>9. Knows(r, n)
      BY <3>2 DEF Knows
    <3>10. Informs(s, r)
      BY <3>2, <3>9, InformsLocal DEF Informs
    <3> QED BY <3>5, <3>8, <3>10
  <2> QED BY <2>4, <2>5
<1> QED BY <1>6, <1>10

\* An answer of the kind is open.
Open(x, strong) == IF strong THEN x.pending_strong ELSE x.pending_weak

\* c is s with the answer taken.
Answered(s, c, n, strong) ==
    c = IF strong THEN [s EXCEPT !.node[n].pending_strong = FALSE]
        ELSE [s EXCEPT !.node[n].pending_weak = FALSE]

\* y is x with the answer taken.
Closed(x, y, strong) ==
    y = IF strong THEN [x EXCEPT !.pending_strong = FALSE] ELSE [x EXCEPT !.pending_weak = FALSE]

\* A node whose answer is taken has a claim left that no buffer makes.
LEMMA ClosedRewritten ==
    ASSUME NEW x \in NodeRec, NEW n, NEW bs \in Nat, NEW bw \in Nat, NEW a \in Nat, a = Ctx(n),
           x.local_strong = bs + One(x.pending_strong) + a,
           x.local_weak = bw + One(x.pending_weak) + a,
           Answers(x), NEW strong \in BOOLEAN, Open(x, strong),
           NEW y, Closed(x, y, strong),
           NEW bt, bt = IF strong THEN bs + 1 ELSE bs,
           NEW bx, bx = IF strong THEN bw ELSE bw + 1
    PROVE  Rewritten(x, y, n, bt, bx)
<1>0. \A i, k \in Nat : i + 1 + k = i + 1 + 0 + k
  OBVIOUS
<1>1. CASE strong
  <2>1. y = [x EXCEPT !.pending_strong = FALSE]
    BY <1>1 DEF Closed
  <2>2. x.pending_strong = TRUE
    BY <1>1 DEF Open, NodeRec
  <2>3. /\ y \in NodeRec /\ y.proc = x.proc /\ y.internal_strong = x.internal_strong
        /\ y.local_weak = x.local_weak /\ y.pending_weak = x.pending_weak
        /\ y.local_strong = x.local_strong /\ y.pending_strong = FALSE
        /\ y.has_strong = x.has_strong /\ y.has_weak = x.has_weak
    BY <2>1 DEF NodeRec
  <2>4. y.local_strong = bt + One(y.pending_strong) + a
    <3>1. One(y.pending_strong) = 0
      BY <2>3 DEF One
    <3>2. One(x.pending_strong) = 1
      BY <2>2 DEF One
    <3>3. x.local_strong = bs + 1 + a
      BY <3>2
    <3>4. bt = bs + 1
      BY <1>1
    <3> QED BY <1>0, <2>3, <3>1, <3>3, <3>4
  <2>5. Answers(y)
    BY <2>3 DEF Answers
  <2>6. bx = bw
    BY <1>1
  <2> QED BY <2>3, <2>4, <2>5, <2>6 DEF Rewritten
<1>2. CASE ~strong
  <2>1. y = [x EXCEPT !.pending_weak = FALSE]
    BY <1>2 DEF Closed
  <2>2. x.pending_weak = TRUE
    BY <1>2 DEF Open, NodeRec
  <2>3. /\ y \in NodeRec /\ y.proc = x.proc /\ y.internal_strong = x.internal_strong
        /\ y.local_strong = x.local_strong /\ y.pending_strong = x.pending_strong
        /\ y.local_weak = x.local_weak /\ y.pending_weak = FALSE
        /\ y.has_strong = x.has_strong /\ y.has_weak = x.has_weak
    BY <2>1 DEF NodeRec
  <2>4. y.local_weak = bx + One(y.pending_weak) + a
    <3>1. One(y.pending_weak) = 0
      BY <2>3 DEF One
    <3>2. One(x.pending_weak) = 1
      BY <2>2 DEF One
    <3>3. x.local_weak = bw + 1 + a
      BY <3>2
    <3>4. bx = bw + 1
      BY <1>2
    <3> QED BY <1>0, <2>3, <3>1, <3>3, <3>4
  <2>5. Answers(y)
    BY <2>3 DEF Answers
  <2>6. bt = bs
    BY <1>2
  <2> QED BY <2>3, <2>4, <2>5, <2>6 DEF Rewritten
<1> QED BY <1>1, <1>2

\* BC_INCREFS_DONE and BC_ACQUIRE_DONE keep the invariant.
LEMMA AnsweredGood ==
    ASSUME NEW s, NEW L, NEW U, NEW BS, NEW BW, Good(s, L, U, BS, BW),
           NEW n \in Node, n \in L, s.node[n] # NULL,
           NEW strong \in BOOLEAN, Open(s.node[n], strong),
           NEW c, Answered(s, c, n, strong),
           NEW r, r = DecLocal(c, n, strong)
    PROVE  Good(r, L, U, BS, BW) /\ r.refs = s.refs /\ Informs(s, r)
<1> PICK x : x = s.node[n]
  OBVIOUS
<1> PICK bs \in Nat : bs = BS[n]
  BY GoodNat
<1> PICK bw \in Nat : bw = BW[n]
  BY GoodNat
<1> PICK a \in Nat : a = Ctx(n)
  BY DEF Ctx
<1> PICK y : Closed(x, y, strong)
  BY DEF Closed
<1> DEFINE BT == [m \in Node |-> IF m = n /\ strong THEN BS[m] + 1 ELSE BS[m]]
           BX == [m \in Node |-> IF m = n /\ ~strong THEN BW[m] + 1 ELSE BW[m]]
<1>1. s \in DriverRec /\ NodeOK(s, L, n, BS[n], BW[n])
  BY DEF Good
<1>2. x \in NodeRec
  BY <1>1, NodeFields
<1>3. /\ x.local_strong = bs + One(x.pending_strong) + a
      /\ x.local_weak = bw + One(x.pending_weak) + a
      /\ Answers(x)
  BY <1>1 DEF NodeOK, NodeMid
<1>4. /\ BT[n] = IF strong THEN bs + 1 ELSE bs
      /\ BX[n] = IF strong THEN bw ELSE bw + 1
  OBVIOUS
<1>5. SameClaims(BS, BW, BT, BX, n)
  BY DEF SameClaims
<1>6. Claims(BT, BX, BS, BW, n, strong, -1)
  <2> SUFFICES ASSUME NEW m \in Node
               PROVE  /\ BS[m] = IF m = n /\ strong THEN BT[m] + (-1) ELSE BT[m]
                      /\ BW[m] = IF m = n /\ ~strong THEN BX[m] + (-1) ELSE BX[m]
    BY DEF Claims
  <2>1. BS[m] \in Nat /\ BW[m] \in Nat
    BY GoodNat
  <2>2. BT[m] = IF m = n /\ strong THEN BS[m] + 1 ELSE BS[m]
    OBVIOUS
  <2>3. BX[m] = IF m = n /\ ~strong THEN BW[m] + 1 ELSE BW[m]
    OBVIOUS
  <2> HIDE DEF BT, BX
  <2>4. BS[m] = IF m = n /\ strong THEN BT[m] + (-1) ELSE BT[m]
    BY <2>1, <2>2
  <2>5. BW[m] = IF m = n /\ ~strong THEN BX[m] + (-1) ELSE BX[m]
    BY <2>1, <2>3
  <2> QED BY <2>4, <2>5
<1> HIDE DEF BT, BX
<1>7. BT[n] \in Nat /\ BX[n] \in Nat /\ Some(BT, BX, n, strong)
  BY <1>4 DEF Some
<1>8. Rewritten(x, y, n, BT[n], BX[n])
  BY <1>2, <1>3, <1>4, ClosedRewritten
<1>9. Wrote(s, c, n, y)
  <2>1. CASE strong
    <3>1. c = [s EXCEPT !.node[n].pending_strong = FALSE] /\ y = [x EXCEPT !.pending_strong = FALSE]
      BY <2>1 DEF Answered, Closed
    <3> QED BY <1>1, <3>1, Types DEF DriverRec, Wrote
  <2>2. CASE ~strong
    <3>1. c = [s EXCEPT !.node[n].pending_weak = FALSE] /\ y = [x EXCEPT !.pending_weak = FALSE]
      BY <2>2 DEF Answered, Closed
    <3> QED BY <1>1, <3>1, Types DEF DriverRec, Wrote
  <2> QED BY <2>1, <2>2
<1>10. Good(c, L, U, BT, BX) /\ c.refs = s.refs
  BY <1>5, <1>7, <1>8, <1>9, GoodRewritten
<1>11. Informs(s, c)
  <2>1. y \in NodeRec \cup {NULL}
    BY <1>8 DEF Rewritten
  <2>2. Local(s, c, n) /\ c.node[n] = y /\ (Queued(c, n) <=> Queued(s, n))
    BY <1>1, <1>9, <2>1, WrittenNode DEF Written
  <2>3. /\ y.proc = x.proc /\ y.has_strong = x.has_strong /\ y.has_weak = x.has_weak
        /\ y.internal_strong = x.internal_strong
        /\ y.local_strong = x.local_strong /\ y.local_weak = x.local_weak
    <3>1. CASE strong
      BY <1>2, <3>1 DEF Closed, NodeRec
    <3>2. CASE ~strong
      BY <1>2, <3>2 DEF Closed, NodeRec
    <3> QED BY <3>1, <3>2
  <2>4. Strong(y) <=> Strong(x)
    BY <2>3 DEF Strong
  <2>5. Weak(c, n) <=> Weak(s, n)
    <3>1. RefsTo(c, n) = RefsTo(s, n)
      BY <2>2, SameRefs DEF Local
    <3> QED BY <2>2, <2>3, <2>4, <3>1 DEF Weak
  <2>6. Knows(s, n) => Knows(c, n)
    BY <2>2, <2>3, <2>4, <2>5 DEF Knows
  <2>7. Informed(s) => Knows(s, n)
    BY DEF Informed
  <2> QED BY <2>2, <2>6, <2>7, InformsLocal DEF Informs
<1>12. Good(r, L, U, BS, BW) /\ r.refs = c.refs /\ Informs(c, r)
  BY <1>6, <1>7, <1>10, GoodDecLocal
<1> QED BY <1>10, <1>11, <1>12 DEF Informs

-----------------------------------------------------------------------------
(* Lists are emptied, and the context manager goes *)

\* r is s without some of what is on its lists, and perhaps without its context manager.
Fewer(s, r) ==
    /\ r \in DriverRec
    /\ r.node = s.node /\ r.refs = s.refs
    /\ r.ctx = s.ctx \/ r.ctx = NULL
    /\ \A m \in Node : /\ Queued(r, m) => Queued(s, m)
                       /\ OwnLists(s, m) => OwnLists(r, m)

\* Such a step keeps the invariant.
LEMMA GoodFewer ==
    ASSUME NEW s, NEW L, NEW U, NEW BS, NEW BW, Good(s, L, U, BS, BW), NEW r, Fewer(s, r)
    PROVE  Good(r, L, U, BS, BW)
<1>1. \A m \in Node : RefsTo(r, m) = RefsTo(s, m) /\ StrongRefs(r, m) = StrongRefs(s, m)
  BY SameRefs DEF Fewer
<1>2. ASSUME NEW m \in Node
      PROVE  NodeOK(r, L, m, BS[m], BW[m])
  <2>1. NodeOK(s, L, m, BS[m], BW[m])
    BY DEF Good
  <2> QED BY <1>1, <2>1 DEF Fewer, NodeOK, NodeMid
<1>3. /\ r \in DriverRec /\ r.refs = s.refs /\ r.node = s.node
      /\ r.ctx = s.ctx \/ r.ctx = NULL
  BY DEF Fewer
<1> QED BY <1>2, <1>3 DEF Good

\* As long as the nodes that have an owner stay where they are, they stay known.
LEMMA InformsFewer ==
    ASSUME NEW s, NEW r, Fewer(s, r), NEW n \in Node, Knows(s, n),
           s.node[n] # NULL /\ s.node[n].proc # NULL /\ Queued(s, n) => Queued(r, n)
    PROVE  Knows(r, n)
<1>1. r.node = s.node /\ RefsTo(r, n) = RefsTo(s, n)
  BY SameRefs DEF Fewer
<1> QED BY <1>1 DEF Knows, Weak

\* A list that is empty holds nothing.
LEMMA EmptyList == \A x : ~On(<<>>, x) /\ Once(<<>>, x)
BY DEF On, Once

\* Each list of r is that of s or empty.
Emptied(s, r) ==
    /\ r \in DriverRec
    /\ r.node = s.node /\ r.refs = s.refs
    /\ r.ctx = s.ctx \/ r.ctx = NULL
    /\ \A th \in Thread : r.todo[th] = s.todo[th] \/ r.todo[th] = <<>>
    /\ \A p \in Proc : r.proc_todo[p] = s.proc_todo[p] \/ r.proc_todo[p] = <<>>

\* Lists that are emptied hold less.
LEMMA EmptiedFewer ==
    ASSUME NEW s, NEW r, Emptied(s, r)
    PROVE  Fewer(s, r)
<1>1. \A th \in Thread : \A x : /\ On(r.todo[th], x) => On(s.todo[th], x)
                                /\ Once(s.todo[th], x) => Once(r.todo[th], x)
  BY EmptyList DEF Emptied
<1>2. \A p \in Proc : \A x : /\ On(r.proc_todo[p], x) => On(s.proc_todo[p], x)
                             /\ Once(s.proc_todo[p], x) => Once(r.proc_todo[p], x)
  BY EmptyList DEF Emptied
<1>3. ASSUME NEW m \in Node
      PROVE  (Queued(r, m) => Queued(s, m)) /\ (OwnLists(s, m) => OwnLists(r, m))
  <2>1. Queued(r, m) => Queued(s, m)
    BY <1>1, <1>2, QueuedOn
  <2>2. OwnLists(s, m) => OwnLists(r, m)
    BY <1>1, <1>2 DEF OwnLists
  <2> QED BY <2>1, <2>2
<1> QED BY <1>3 DEF Emptied, Fewer

\* A list without its head holds less.
LEMMA TailOn ==
    ASSUME NEW S, NEW q \in Seq(S), q # <<>>
    PROVE  /\ Tail(q) \in Seq(S)
           /\ \A x : On(Tail(q), x) => On(q, x)
           /\ \A x : Once(q, x) => Once(Tail(q), x)
           /\ \A x : x # Head(q) /\ On(q, x) => On(Tail(q), x)
<1> PICK r : r = Tail(q)
  OBVIOUS
<1>1. /\ r \in Seq(S) /\ DOMAIN q = 1 .. Len(q) /\ DOMAIN r = 1 .. Len(q) - 1 /\ Len(q) \in Nat
      /\ \A i \in 1 .. Len(q) - 1 : r[i] = q[i + 1]
  OBVIOUS
<1>2. \A i \in DOMAIN r : i + 1 \in DOMAIN q /\ r[i] = q[i + 1]
  BY <1>1
<1>3. \A i, j \in DOMAIN r : i + 1 = j + 1 => i = j
  BY <1>1
<1>4. \A x : On(r, x) => On(q, x)
  BY <1>2 DEF On
<1>5. \A x : Once(q, x) => Once(r, x)
  BY <1>2, <1>3 DEF Once
<1>6. ASSUME NEW x, x # Head(q), On(q, x)
      PROVE  On(r, x)
  <2>1. PICK i \in DOMAIN q : q[i] = x
    BY <1>6 DEF On
  <2>2. i # 1
    BY <1>6, <2>1
  <2>3. i - 1 \in DOMAIN r /\ r[i - 1] = q[i]
    BY <1>1, <2>2
  <2> QED BY <2>1, <2>3 DEF On
<1> QED BY <1>1, <1>4, <1>5, <1>6

\* r is s with the head of the list of thread u taken off.
Taken(s, r, u) == r = [s EXCEPT !.todo[u] = Tail(@)]

\* Taking the head off a thread's list leaves less.
LEMMA TakenFewer ==
    ASSUME NEW s \in DriverRec, NEW u \in Thread, s.todo[u] # <<>>, NEW r, Taken(s, r, u)
    PROVE  /\ Fewer(s, r)
           /\ \A m \in Node : m # Head(s.todo[u]) /\ Queued(s, m) => Queued(r, m)
<1> DEFINE L == [s.todo EXCEPT ![u] = Tail(s.todo[u])]
<1>1. /\ r.ctx = s.ctx /\ r.node = s.node /\ r.refs = s.refs
      /\ r.todo = L /\ r.proc_todo = s.proc_todo
      /\ r = [ctx |-> s.ctx, node |-> s.node, refs |-> s.refs, todo |-> L, proc_todo |-> s.proc_todo]
  BY DEF DriverRec, Taken
<1>2. s.todo \in [Thread -> Seq(Node \cup {COMPLETE})] /\ s.todo[u] \in Seq(Node \cup {COMPLETE})
  BY Types
<1>3. /\ \A q \in Thread : q # u => L[q] = s.todo[q]
      /\ L[u] = Tail(s.todo[u])
  BY <1>2
<1>4. /\ L[u] \in Seq(Node \cup {COMPLETE})
      /\ \A x : On(L[u], x) => On(s.todo[u], x)
      /\ \A x : Once(s.todo[u], x) => Once(L[u], x)
      /\ \A x : x # Head(s.todo[u]) /\ On(s.todo[u], x) => On(L[u], x)
  <2>1. PICK S : S = Node \cup {COMPLETE}
    OBVIOUS
  <2>2. s.todo[u] \in Seq(S) /\ L[u] = Tail(s.todo[u])
    BY <1>2, <1>3, <2>1
  <2>3. /\ L[u] \in Seq(S)
        /\ \A x : On(L[u], x) => On(s.todo[u], x)
        /\ \A x : Once(s.todo[u], x) => Once(L[u], x)
        /\ \A x : x # Head(s.todo[u]) /\ On(s.todo[u], x) => On(L[u], x)
    BY <2>2, TailOn
  <2> QED BY <2>1, <2>3
<1>5. L \in [Thread -> Seq(Node \cup {COMPLETE})]
  BY <1>2, <1>4
<1> HIDE DEF L
<1>6. r \in DriverRec
  BY <1>1, <1>5, Types DEF DriverRec
<1>7. ASSUME NEW m \in Node
      PROVE  (Queued(r, m) => Queued(s, m)) /\ (OwnLists(s, m) => OwnLists(r, m))
  <2>1. \A q \in Thread : /\ On(L[q], m) => On(s.todo[q], m)
                          /\ Once(s.todo[q], m) => Once(L[q], m)
    BY <1>3, <1>4
  <2>2. Queued(r, m) => Queued(s, m)
    BY <1>1, <2>1, QueuedOn
  <2>3. OwnLists(s, m) => OwnLists(r, m)
    BY <1>1, <2>1 DEF OwnLists
  <2> QED BY <2>2, <2>3
<1>8. ASSUME NEW m \in Node, m # Head(s.todo[u]), Queued(s, m)
      PROVE  Queued(r, m)
  <2>1. \A q \in Thread : On(s.todo[q], m) => On(r.todo[q], m)
    BY <1>1, <1>3, <1>4, <1>8
  <2> QED BY <1>1, <1>8, <2>1, QueuedOn
<1> QED BY <1>1, <1>6, <1>7, <1>8 DEF Fewer

-----------------------------------------------------------------------------
(* The loops over the nodes and the references of a process that ends *)

\* A set of numbers has a least one.
LEMMA Least ==
    ASSUME NEW K, K \subseteq Nat, K # {}
    PROVE  \E m \in K : \A k \in K : m <= k
<1>1. \E x \in K : \A y \in K : ~(<<y, x>> \in OpToRel(<, Nat))
  BY NatLessThanWellFounded, WFMin
<1>2. PICK x \in K : \A y \in K : ~(<<y, x>> \in OpToRel(<, Nat))
  BY <1>1
<1>3. \A y \in K : ~(y < x)
  BY <1>2 DEF OpToRel
<1> QED BY <1>3

\* One turn of the loop over the nodes own, or of the one over the references of p.
Turn(x, i, own, p, loop) ==
    IF loop = "nodes" THEN NodeReleased(x, own[i])
    ELSE IF x.refs[p][i - 1] = NULL THEN x ELSE binder_delete_ref(x, p, i - 1)

\* g are the states after each of N turns.
Turns(g, s, own, p, loop, N) ==
    g = [i \in 0 .. N |-> IF i = 0 THEN s ELSE Turn(g[i - 1], i, own, p, loop)]

\* There are such states.
LEMMA TurnsExist ==
    ASSUME NEW s, NEW own, NEW p, NEW loop, NEW N \in Nat
    PROVE  \E g : Turns(g, s, own, p, loop, N)
<1> DEFINE K == {k \in Nat : ~\E g : Turns(g, s, own, p, loop, k)}
<1>1. K = {}
  <2> SUFFICES ASSUME K # {}
               PROVE  FALSE
    OBVIOUS
  <2>1. PICK m \in K : \A k \in K : m <= k
    <3>1. K \subseteq Nat
      OBVIOUS
    <3> HIDE DEF K
    <3> QED BY <3>1, Least
  <2>2. m \in Nat /\ ~\E g : Turns(g, s, own, p, loop, m)
    OBVIOUS
  <2>3. CASE m = 0
    <3> DEFINE h == [i \in 0 .. 0 |-> s]
    <3>1. h = [i \in 0 .. 0 |-> IF i = 0 THEN s ELSE Turn(h[i - 1], i, own, p, loop)]
      OBVIOUS
    <3>2. Turns(h, s, own, p, loop, 0)
      BY <3>1 DEF Turns
    <3> QED BY <2>2, <2>3, <3>2
  <2>4. CASE m # 0
    <3>1. m - 1 \in Nat /\ ~(m <= m - 1)
      BY <2>2, <2>4
    <3>2. m - 1 \notin K
      BY <2>1, <3>1
    <3>3. PICK g : Turns(g, s, own, p, loop, m - 1)
      BY <3>1, <3>2
    <3> HIDE DEF K
    <3> DEFINE h == [i \in 0 .. m |-> IF i = m THEN Turn(g[m - 1], m, own, p, loop) ELSE g[i]]
    <3>4. ASSUME NEW i \in 0 .. m
          PROVE  h[i] = IF i = 0 THEN s ELSE Turn(h[i - 1], i, own, p, loop)
      <4>1. CASE i = m
        <5>1. h[i] = Turn(g[m - 1], m, own, p, loop)
          BY <4>1
        <5>2. h[i - 1] = g[m - 1]
          BY <2>2, <2>4, <4>1
        <5> QED BY <2>4, <4>1, <5>1, <5>2
      <4>2. CASE i # m
        <5>1. i \in 0 .. m - 1
          BY <2>2, <4>2
        <5>2. g[i] = IF i = 0 THEN s ELSE Turn(g[i - 1], i, own, p, loop)
          BY <3>3, <5>1 DEF Turns
        <5>3. h[i] = g[i]
          BY <4>2
        <5>4. i # 0 => h[i - 1] = g[i - 1]
          BY <2>2, <5>1
        <5> HIDE DEF h
        <5> QED BY <5>2, <5>3, <5>4
      <4> QED BY <4>1, <4>2
    <3>5. h = [i \in 0 .. m |-> IF i = 0 THEN s ELSE Turn(h[i - 1], i, own, p, loop)]
      <4>1. h = [i \in 0 .. m |-> h[i]]
        OBVIOUS
      <4> HIDE DEF h
      <4> QED BY <3>4, <4>1
    <3>6. Turns(h, s, own, p, loop, m)
      BY <3>5 DEF Turns
    <3> QED BY <2>2, <3>6
  <2> QED BY <2>3, <2>4
<1> QED BY <1>1

\* Each state of g is one turn of the loop after the one before.
After(g, s, own, p, loop, N) ==
    /\ g[0] = s
    /\ \A i \in 1 .. N : g[i] = Turn(g[i - 1], i, own, p, loop)

\* What the states are.
LEMMA TurnAfter ==
    ASSUME NEW s, NEW own, NEW p, NEW loop, NEW N \in Nat, NEW g, Turns(g, s, own, p, loop, N)
    PROVE  After(g, s, own, p, loop, N)
<1>1. 0 \in 0 .. N /\ \A i \in 1 .. N : i \in 0 .. N /\ i # 0
  OBVIOUS
<1> QED BY <1>1 DEF Turns, After

\* The sequence of a set has each member once.
LEMMA SeqOfSet ==
    ASSUME NEW S, IsFiniteSet(S), NEW q, q = SetToSeq(S), NEW N, N = Cardinality(S)
    PROVE  /\ N \in Nat /\ Len(q) = N /\ q \in [1 .. N -> S]
           /\ \A i, j \in 1 .. N : q[i] = q[j] => i = j
           /\ \A x \in S : \E i \in 1 .. N : q[i] = x
<1>1. N \in Nat /\ ExistsBijection(1 .. N, S)
  BY FS_CardinalityType
<1>2. \E f \in [1 .. N -> S] : IsInjective(f)
  BY <1>1 DEF ExistsBijection, Bijection, Injection
<1>3. q \in [1 .. N -> S] /\ IsInjective(q)
  BY <1>2 DEF SetToSeq
<1>4. q \in Injection(1 .. N, S)
  BY <1>3 DEF Injection
<1>5. IsFiniteSet(1 .. N) /\ Cardinality(1 .. N) = N
  <2>1. 1 \in Int /\ N \in Int
    BY <1>1
  <2>2. IsFiniteSet(1 .. N) /\ Cardinality(1 .. N) = IF 1 > N THEN 0 ELSE N - 1 + 1
    BY <2>1, FS_Interval
  <2> QED BY <1>1, <2>2
<1>6. q \in Surjection(1 .. N, S)
  BY <1>4, <1>5, FS_Injection
<1>7. \A x \in S : \E i \in 1 .. N : q[i] = x
  BY <1>6 DEF Surjection
<1>8. \A i, j \in 1 .. N : q[i] = q[j] => i = j
  BY <1>3 DEF IsInjective
<1>9. Len(q) = N
  BY <1>1, <1>3
<1> QED BY <1>1, <1>3, <1>7, <1>8, <1>9

\* The nodes of a process.
NodesOf(s, p) == {n \in Node : s.node[n] # NULL /\ s.node[n].proc = p}

\* The loops of the model are made of these turns.
LEMMA NodesTurns ==
    ASSUME NEW s, NEW p, NEW r, r = NodesReleased(s, p),
           NEW own, own = SetToSeq(NodesOf(s, p)),
           NEW N \in Nat, N = Len(own), NEW loop, loop = "nodes"
    PROVE  \E g : Turns(g, s, own, p, loop, N) /\ r = g[N]
<1> DEFINE step(g) == [i \in 0 .. Len(own) |-> IF i = 0 THEN s ELSE NodeReleased(g[i - 1], own[i])]
           after == CHOOSE g : g = step(g)
<1>1. r = after[Len(own)]
  BY DEF NodesReleased, NodesOf
<1>2. PICK h : Turns(h, s, own, p, loop, N)
  BY TurnsExist
<1>3. h = step(h)
  BY <1>2 DEF Turns, Turn
<1>4. after = step(after)
  <2> HIDE DEF step
  <2> QED BY <1>3
<1> HIDE DEF after
<1>5. Turns(after, s, own, p, loop, N)
  BY <1>4 DEF Turns, Turn
<1> QED BY <1>1, <1>5

\* The number of handles.
DescCount == Cardinality(Node) + 1

\* And so is the loop over the references.
LEMMA RefsTurns ==
    ASSUME NEW s, NEW p, NEW r, r = RefsDeleted(s, p), NEW own,
           NEW N \in Nat, N = DescCount, NEW loop, loop = "refs"
    PROVE  \E g : Turns(g, s, own, p, loop, N) /\ r = g[N]
<1> DEFINE step(g) == [i \in 0 .. Cardinality(Node) + 1 |->
                          IF i = 0 THEN s
                          ELSE IF g[i - 1].refs[p][i - 1] = NULL THEN g[i - 1]
                          ELSE binder_delete_ref(g[i - 1], p, i - 1)]
           after == CHOOSE g : g = step(g)
<1>0. DescCount = Cardinality(Node) + 1
  BY DEF DescCount
<1>1. r = after[Cardinality(Node) + 1]
  BY DEF RefsDeleted
<1>2. PICK h : Turns(h, s, own, p, loop, N)
  BY TurnsExist
<1>3. h = step(h)
  BY <1>0, <1>2 DEF Turns, Turn
<1>4. after = step(after)
  <2> HIDE DEF step
  <2> QED BY <1>3
<1> HIDE DEF after
<1>5. Turns(after, s, own, p, loop, N)
  BY <1>0, <1>4 DEF Turns, Turn
<1> QED BY <1>0, <1>1, <1>5

\* r is x without the owner of n.
Orphaned(x, r, n) ==
    /\ Local(x, r, n)
    /\ OwnLists(r, n)
    /\ ~Queued(r, n)
    /\ \/ RefsTo(x, n) = {} /\ r.node[n] = NULL
       \/ /\ RefsTo(x, n) # {}
          /\ r.node[n] \in NodeRec
          /\ r.node[n].proc = NULL
          /\ r.node[n].internal_strong = x.node[n].internal_strong
          /\ r.node[n].local_strong = 0 /\ r.node[n].local_weak = 0
          /\ Answers(x.node[n]) => Answers(r.node[n])

\* z is the node x without its owner and the claims of that.
Bereft(x, z) == z = [x EXCEPT !.proc = NULL, !.local_strong = 0, !.local_weak = 0]
Dead(x, z) ==
    /\ z \in NodeRec /\ z.proc = NULL /\ z.local_strong = 0 /\ z.local_weak = 0
    /\ z.internal_strong = x.internal_strong
    /\ z.pending_strong = x.pending_strong /\ z.pending_weak = x.pending_weak
    /\ z.has_strong = x.has_strong /\ z.has_weak = x.has_weak

\* A node that loses its owner and the claims of that.
LEMMA DeadNode ==
    ASSUME NEW x \in NodeRec, NEW z, Bereft(x, z)
    PROVE  Dead(x, z)
<1>1. z = [proc |-> NULL, internal_strong |-> x.internal_strong,
           local_strong |-> 0, local_weak |-> 0,
           has_strong |-> x.has_strong, has_weak |-> x.has_weak,
           pending_strong |-> x.pending_strong, pending_weak |-> x.pending_weak]
  BY DEF NodeRec, Bereft
<1>2. /\ x.internal_strong \in Nat
      /\ x.has_strong \in BOOLEAN /\ x.has_weak \in BOOLEAN
      /\ x.pending_strong \in BOOLEAN /\ x.pending_weak \in BOOLEAN
  BY DEF NodeRec
<1>3. z \in NodeRec
  BY <1>1, <1>2 DEF NodeRec
<1>4. /\ z.proc = NULL /\ z.local_strong = 0 /\ z.local_weak = 0
      /\ z.internal_strong = x.internal_strong
  BY <1>1
<1>5. /\ z.pending_strong = x.pending_strong /\ z.pending_weak = x.pending_weak
      /\ z.has_strong = x.has_strong /\ z.has_weak = x.has_weak
  BY <1>1
<1> QED BY <1>3, <1>4, <1>5 DEF Dead

\* binder_node_release takes a node from its owner.
LEMMA NodeOrphaned ==
    ASSUME NEW x \in DriverRec, NEW n \in Node, x.node[n] # NULL, OwnLists(x, n),
           NEW r, r = NodeReleased(x, n)
    PROVE  Orphaned(x, r, n)
<1> PICK u : u = Unqueued(x, n)
  OBVIOUS
<1>1. Lists(x, u, n) /\ OwnLists(u, n) /\ ~Queued(u, n)
  BY UnqueuedLists
<1>2. u \in DriverRec /\ u.node = x.node /\ u.refs = x.refs
  BY <1>1 DEF Lists
<1>3. x.node[n] \in NodeRec
  BY NodeFields
<1> PICK z : Bereft(x.node[n], z)
  BY DEF Bereft
<1>4. Dead(x.node[n], z)
  BY <1>3, DeadNode
<1>5. Answers(x.node[n]) => Answers(z)
  BY <1>4 DEF Answers, Dead
<1> PICK y : y = IF RefsTo(x, n) = {} THEN NULL ELSE z
  OBVIOUS
<1>6. y \in NodeRec \cup {NULL}
  BY <1>4 DEF Dead
<1>7. Wrote(u, r, n, y)
  <2>1. r = [u EXCEPT !.node[n] = IF RefsTo(x, n) = {} THEN NULL
                                  ELSE [@ EXCEPT !.proc = NULL, !.local_strong = 0, !.local_weak = 0]]
    BY DEF NodeReleased
  <2> QED BY <1>2, <2>1 DEF Wrote, Bereft
<1>8. /\ Local(u, r, n) /\ r.node[n] = y
      /\ Queued(r, n) <=> Queued(u, n)
      /\ OwnLists(r, n) <=> OwnLists(u, n)
  BY <1>2, <1>6, <1>7, WrittenNode DEF Written
<1>9. Local(x, r, n)
  BY <1>1, <1>8, LocalLists, LocalTrans
<1> QED BY <1>1, <1>4, <1>5, <1>8, <1>9 DEF Orphaned, Dead

\* M are the objects of L but for those of F.
Without(L, M, F) == \A m \in Node : m \in M <=> m \in L /\ m \notin F

\* BT and BX are the claims BS and BW without those on F.
Unclaimed(BS, BW, BT, BX, F) ==
    \A m \in Node : /\ BT[m] = IF m \in F THEN 0 ELSE BS[m]
                    /\ BX[m] = IF m \in F THEN 0 ELSE BW[m]

\* A node that loses its owner, with the claims of the owner's buffers.
LEMMA OrphanedGood ==
    ASSUME NEW x, NEW L, NEW U, NEW BS, NEW BW, Good(x, L, U, BS, BW),
           NEW n \in Node, n \in L, x.node[n] # NULL, x.ctx # n,
           NEW r, r = NodeReleased(x, n),
           NEW F, F = {n}, NEW M, Without(L, M, F),
           NEW BT, NEW BX, Unclaimed(BS, BW, BT, BX, F)
    PROVE  /\ Good(r, M, U, BT, BX) /\ Local(x, r, n)
           /\ \A m \in Node : m = n \/ Knows(x, m) => Knows(r, m)
<1>1. x \in DriverRec /\ NodeOK(x, L, n, BS[n], BW[n])
  BY DEF Good
<1>2. OwnLists(x, n) /\ x.node[n].internal_strong = Cardinality(StrongRefs(x, n)) /\ Answers(x.node[n])
  BY <1>1 DEF NodeOK, NodeMid
<1>3. Orphaned(x, r, n)
  BY <1>1, <1>2, NodeOrphaned
<1>4. Local(x, r, n) /\ OwnLists(r, n) /\ ~Queued(r, n)
  BY <1>3 DEF Orphaned
<1>5. r.refs = x.refs /\ r.ctx = x.ctx /\ r \in DriverRec
  BY <1>4 DEF Local
<1>6. RefsTo(r, n) = RefsTo(x, n) /\ StrongRefs(r, n) = StrongRefs(x, n)
  BY <1>5, SameRefs
<1>7. BT[n] = 0 /\ BX[n] = 0 /\ n \notin M
  BY DEF Unclaimed, Without
<1>8. NodeOK(r, M, n, BT[n], BX[n])
  <2>1. CASE RefsTo(x, n) = {} /\ r.node[n] = NULL
    BY <1>4, <1>6, <1>7, <2>1 DEF NodeOK, NodeMid
  <2>2. CASE ~(RefsTo(x, n) = {} /\ r.node[n] = NULL)
    BY <1>2, <1>3, <1>4, <1>6, <1>7, <2>2, NotNull DEF NodeOK, NodeMid, Orphaned
  <2> QED BY <2>1, <2>2
<1>9. ASSUME NEW m \in Node, m # n
      PROVE  NodeOK(r, M, m, BT[m], BX[m])
  <2>1. NodeOK(x, L, m, BS[m], BW[m])
    BY DEF Good
  <2>2. NodeOK(r, L, m, BS[m], BW[m])
    BY <1>4, <1>9, <2>1, LocalOthers
  <2>3. BT[m] = BS[m] /\ BX[m] = BW[m] /\ (m \in M <=> m \in L)
    BY <1>9 DEF Unclaimed, Without
  <2> QED BY <2>2, <2>3 DEF NodeOK, NodeMid
<1>10. r.ctx # NULL => r.node[r.ctx] # NULL /\ r.ctx \in M
  <2> SUFFICES ASSUME r.ctx # NULL
               PROVE  r.node[r.ctx] # NULL /\ r.ctx \in M
    OBVIOUS
  <2>1. r.ctx \in Node \ {n} /\ x.node[r.ctx] # NULL /\ r.ctx \in L
    BY <1>1, <1>5, Types, RefsAssumption DEF Good
  <2> QED BY <1>4, <2>1 DEF Local, Without
<1>11. Good(r, M, U, BT, BX)
  <2>1. \A m \in Node : NodeOK(r, M, m, BT[m], BX[m])
    BY <1>8, <1>9
  <2> QED BY <1>5, <1>10, <2>1 DEF Good
<1>12. ASSUME NEW m \in Node, m = n \/ Knows(x, m)
       PROVE  Knows(r, m)
  <2>1. CASE m = n
    BY <1>3, <2>1 DEF Knows, Orphaned
  <2>2. CASE m # n
    <3>1. RefsTo(r, m) = RefsTo(x, m)
      BY <1>5, SameRefs
    <3>2. r.node[m] = x.node[m] /\ (Queued(r, m) <=> Queued(x, m))
      BY <1>4, <2>2 DEF Local
    <3> QED BY <1>12, <2>2, <3>1, <3>2, KnowsSame
  <2> QED BY <2>1, <2>2
<1> QED BY <1>4, <1>11, <1>12

\* The first i of the nodes own.
FirstOf(own, i) == {own[j] : j \in 1 .. i}

\* x is s after the nodes of F lost their owner.
NodesDone(s, x, L, U, BS, BW, F) ==
    /\ \E M, BT, BX : Without(L, M, F) /\ Unclaimed(BS, BW, BT, BX, F) /\ Good(x, M, U, BT, BX)
    /\ x.refs = s.refs /\ x.ctx = s.ctx
    /\ \A m \in Node : m \notin F => x.node[m] = s.node[m]
    /\ \A m \in Node : m \in F \/ Knows(s, m) => Knows(x, m)

\* One turn of the loop over the nodes.
LEMMA NodesTurn ==
    ASSUME NEW s, NEW L, NEW U, NEW BS, NEW BW, NEW x, NEW F, NodesDone(s, x, L, U, BS, BW, F),
           NEW n \in Node, n \in L, n \notin F, s.node[n] # NULL, s.ctx # n,
           NEW r, r = NodeReleased(x, n), NEW H, \A m : m \in H <=> m \in F \/ m = n
    PROVE  NodesDone(s, r, L, U, BS, BW, H)
<1>1. PICK M, BT, BX : Without(L, M, F) /\ Unclaimed(BS, BW, BT, BX, F) /\ Good(x, M, U, BT, BX)
  BY DEF NodesDone
<1>2. /\ x.refs = s.refs /\ x.ctx = s.ctx
      /\ \A m \in Node : m \notin F => x.node[m] = s.node[m]
      /\ \A m \in Node : m \in F \/ Knows(s, m) => Knows(x, m)
  BY DEF NodesDone
<1> DEFINE W == M \ {n}
           CT == [m \in Node |-> IF m \in {n} THEN 0 ELSE BT[m]]
           CX == [m \in Node |-> IF m \in {n} THEN 0 ELSE BX[m]]
<1> PICK G : G = {n}
  OBVIOUS
<1>3. Without(M, W, G) /\ Unclaimed(BT, BX, CT, CX, G)
  BY DEF Without, Unclaimed
<1> HIDE DEF W, CT, CX
<1>4. n \in M /\ x.node[n] # NULL /\ x.ctx # n
  BY <1>1, <1>2 DEF Without
<1>5. /\ Good(r, W, U, CT, CX) /\ Local(x, r, n)
      /\ \A m \in Node : m = n \/ Knows(x, m) => Knows(r, m)
  BY <1>1, <1>3, <1>4, OrphanedGood
<1>6. Without(L, W, H)
  BY <1>1, <1>3 DEF Without
<1>7. Unclaimed(BS, BW, CT, CX, H)
  BY <1>1, <1>3 DEF Unclaimed
<1>8. /\ r.refs = s.refs /\ r.ctx = s.ctx
      /\ \A m \in Node : m \notin H => r.node[m] = s.node[m]
  BY <1>2, <1>5 DEF Local
<1>9. \A m \in Node : m \in H \/ Knows(s, m) => Knows(r, m)
  BY <1>2, <1>5
<1> QED BY <1>5, <1>6, <1>7, <1>8, <1>9 DEF NodesDone

\* All its nodes lose their owner.
LEMMA NodesLoop ==
    ASSUME NEW s, NEW L, NEW U, NEW BS, NEW BW, Good(s, L, U, BS, BW),
           NEW p \in Proc, \A n \in NodesOf(s, p) : n \in L /\ s.ctx # n,
           NEW r, r = NodesReleased(s, p)
    PROVE  NodesDone(s, r, L, U, BS, BW, NodesOf(s, p))
<1> PICK S : S = NodesOf(s, p)
  OBVIOUS
<1> PICK own : own = SetToSeq(S)
  OBVIOUS
<1> PICK N : N = Cardinality(S)
  OBVIOUS
<1> PICK loop : loop = "nodes"
  OBVIOUS
<1>1. S \subseteq Node /\ IsFiniteSet(S) /\ \A n \in S : s.node[n] # NULL /\ n \in L /\ s.ctx # n
  <2>1. S \subseteq Node /\ \A n \in S : s.node[n] # NULL /\ n \in L /\ s.ctx # n
    BY DEF NodesOf
  <2> QED BY <2>1, RefsAssumption, FS_Subset
<1>2. /\ N \in Nat /\ Len(own) = N /\ own \in [1 .. N -> S]
      /\ \A i, j \in 1 .. N : own[i] = own[j] => i = j
      /\ \A x \in S : \E i \in 1 .. N : own[i] = x
  BY <1>1, SeqOfSet
<1>3. own = SetToSeq(NodesOf(s, p)) /\ N = Len(own)
  BY <1>2
<1>4. PICK g : Turns(g, s, own, p, loop, N) /\ r = g[N]
  BY <1>2, <1>3, NodesTurns
<1>5. /\ g[0] = s
      /\ \A i \in 1 .. N : g[i] = NodeReleased(g[i - 1], own[i])
  <2>1. After(g, s, own, p, loop, N)
    BY <1>2, <1>4, TurnAfter
  <2> QED BY <2>1 DEF After, Turn
<1> DEFINE K == {k \in 0 .. N : ~NodesDone(s, g[k], L, U, BS, BW, FirstOf(own, k))}
<1>6. K = {}
  <2> SUFFICES ASSUME K # {}
               PROVE  FALSE
    OBVIOUS
  <2>1. PICK k \in K : \A j \in K : k <= j
    <3>1. K \subseteq Nat
      OBVIOUS
    <3> HIDE DEF K
    <3> QED BY <3>1, Least
  <2>2. k \in 0 .. N /\ ~NodesDone(s, g[k], L, U, BS, BW, FirstOf(own, k))
    OBVIOUS
  <2>3. CASE k = 0
    <3>1. FirstOf(own, k) = {} /\ g[k] = s
      BY <1>5, <2>3 DEF FirstOf
    <3>2. Unclaimed(BS, BW, BS, BW, {}) /\ Without(L, L, {})
      BY DEF Unclaimed, Without
    <3>3. NodesDone(s, s, L, U, BS, BW, {})
      BY <3>2 DEF NodesDone
    <3> QED BY <2>2, <3>1, <3>3
  <2>4. CASE k # 0
    <3>1. k \in 1 .. N /\ k - 1 \in 0 .. N /\ ~(k <= k - 1)
      BY <1>2, <2>2, <2>4
    <3>2. NodesDone(s, g[k - 1], L, U, BS, BW, FirstOf(own, k - 1))
      BY <2>1, <3>1
    <3> HIDE DEF K
    <3> PICK n : n = own[k]
      OBVIOUS
    <3>3. n \in S /\ n \notin FirstOf(own, k - 1)
      <4>1. n \in S
        BY <1>2, <3>1
      <4>2. \A j \in 1 .. k - 1 : j \in 1 .. N /\ j # k
        BY <1>2, <3>1
      <4>3. \A j \in 1 .. k - 1 : own[j] # own[k]
        BY <1>2, <3>1, <4>2
      <4> QED BY <4>1, <4>3 DEF FirstOf
    <3>4. \A m : m \in FirstOf(own, k) <=> m \in FirstOf(own, k - 1) \/ m = n
      <4>1. \A j : j \in 1 .. k <=> j \in 1 .. k - 1 \/ j = k
        BY <1>2, <3>1
      <4> QED BY <4>1 DEF FirstOf
    <3>5. g[k] = NodeReleased(g[k - 1], n)
      BY <1>5, <3>1
    <3>6. n \in Node /\ n \in L /\ s.node[n] # NULL /\ s.ctx # n
      BY <1>1, <3>3
    <3>7. NodesDone(s, g[k], L, U, BS, BW, FirstOf(own, k))
      BY <3>2, <3>3, <3>4, <3>5, <3>6, NodesTurn
    <3> QED BY <2>2, <3>7
  <2> QED BY <2>3, <2>4
<1>7. NodesDone(s, g[N], L, U, BS, BW, FirstOf(own, N))
  <2>1. N \in 0 .. N
    BY <1>2
  <2> QED BY <1>6, <2>1
<1>8. FirstOf(own, N) = S
  <2>1. \A x : x \in FirstOf(own, N) <=> x \in S
    BY <1>2 DEF FirstOf
  <2> QED BY <2>1
<1> QED BY <1>4, <1>7, <1>8

\* r informs of the nodes of F as well, if s informs of the others.
InformsWith(s, r, F) == \A m \in Node : m \in F \/ Knows(s, m) => Knows(r, m)

\* F are the objects of p, of L and none of them the context manager of s.
ObjectsOf(s, L, p, F) ==
    \A n \in Node : /\ n \in F <=> Owner[n] = p
                    /\ n \in F => n \in L /\ s.ctx # n

\* What the objects of p come to when p ends.
LEMMA NodesGone ==
    ASSUME NEW s, NEW L, NEW U, NEW BS, NEW BW, Good(s, L, U, BS, BW),
           NEW p \in Proc, NEW F, ObjectsOf(s, L, p, F),
           NEW r, r = NodesReleased(s, p),
           NEW M, Without(L, M, F), NEW BT, NEW BX, Unclaimed(BS, BW, BT, BX, F)
    PROVE  /\ Good(r, M, U, BT, BX) /\ r.refs = s.refs
           /\ InformsWith(s, r, F)
<1> PICK S : S = NodesOf(s, p)
  OBVIOUS
<1>1. \A n \in Node : /\ NodeOK(s, L, n, BS[n], BW[n])
                      /\ n \in S <=> s.node[n] # NULL /\ s.node[n].proc = p
  BY DEF Good, NodesOf
<1>2. p # NULL /\ \A n \in Node : /\ n \in F <=> Owner[n] = p
                                  /\ n \in F => n \in L /\ s.ctx # n
  BY RefsAssumption DEF ObjectsOf
<1>3. \A n \in Node : n \in S <=> s.node[n] # NULL /\ n \in F
  <2> SUFFICES ASSUME NEW n \in Node
               PROVE  n \in S <=> s.node[n] # NULL /\ n \in F
    OBVIOUS
  <2>1. /\ s.node[n] # NULL /\ n \in L => s.node[n].proc = Owner[n]
        /\ s.node[n] # NULL /\ n \notin L => s.node[n].proc = NULL
    BY <1>1 DEF NodeOK, NodeMid
  <2> QED BY <1>1, <1>2, <2>1
<1>4. \A n \in S : n \in L /\ s.ctx # n
  <2>1. S \subseteq Node
    BY DEF NodesOf
  <2> QED BY <1>2, <1>3, <2>1
<1>5. NodesDone(s, r, L, U, BS, BW, S)
  BY <1>4, NodesLoop
<1>6. PICK W, CT, CX : Without(L, W, S) /\ Unclaimed(BS, BW, CT, CX, S) /\ Good(r, W, U, CT, CX)
  BY <1>5 DEF NodesDone
<1>7. /\ r.refs = s.refs /\ r.ctx = s.ctx
      /\ \A m \in Node : m \notin S => r.node[m] = s.node[m]
  BY <1>5 DEF NodesDone
<1>8. ASSUME NEW m \in Node
      PROVE  NodeOK(r, M, m, BT[m], BX[m])
  <2>1. NodeOK(r, W, m, CT[m], CX[m])
    BY <1>6 DEF Good
  <2>2. CASE m \in S \/ m \notin F
    <3>1. m \in S <=> m \in F
      BY <1>3, <2>2
    <3>2. CT[m] = BT[m] /\ CX[m] = BX[m] /\ (m \in M <=> m \in W)
      BY <1>6, <3>1 DEF Without, Unclaimed
    <3> QED BY <2>1, <3>2 DEF NodeOK, NodeMid
  <2>3. CASE m \notin S /\ m \in F
    <3>1. r.node[m] = NULL
      BY <1>3, <1>7, <2>3
    <3>2. CT[m] = 0 /\ CX[m] = 0
      BY <2>1, <3>1 DEF NodeOK, NodeMid
    <3>3. BT[m] = 0 /\ BX[m] = 0
      BY <2>3 DEF Unclaimed
    <3> QED BY <2>1, <3>1, <3>2, <3>3 DEF NodeOK, NodeMid
  <2> QED BY <2>2, <2>3
<1>9. r.ctx # NULL => r.node[r.ctx] # NULL /\ r.ctx \in M
  <2> SUFFICES ASSUME r.ctx # NULL
               PROVE  r.node[r.ctx] # NULL /\ r.ctx \in M
    OBVIOUS
  <2>1. r.ctx \in Node /\ r.node[r.ctx] # NULL /\ r.ctx \in L
    BY <1>6, <1>7, Types, RefsAssumption DEF Good
  <2>2. r.ctx \notin F
    BY <1>2, <1>7, <2>1
  <2> QED BY <2>1, <2>2 DEF Without
<1>10. Good(r, M, U, BT, BX)
  BY <1>6, <1>8, <1>9 DEF Good
<1>11. ASSUME NEW m \in Node, m \in F \/ Knows(s, m)
       PROVE  Knows(r, m)
  <2>1. CASE m \in S \/ Knows(s, m)
    BY <1>5, <2>1 DEF NodesDone
  <2>2. CASE m \notin S /\ m \in F
    BY <1>3, <1>7, <2>2 DEF Knows
  <2> QED BY <1>11, <2>1, <2>2
<1> QED BY <1>7, <1>10, <1>11 DEF InformsWith

\* x is s after p's handles below i were deleted.
RefsDone(s, x, L, U, BS, BW, p, i) ==
    /\ Good(x, L, U, BS, BW) /\ Informs(s, x)
    /\ \A q \in Proc, e \in Desc : q # p => x.refs[q][e] = s.refs[q][e]
    /\ \A e \in Desc : e < i => x.refs[p][e] = NULL

\* All the references of p are deleted.
LEMMA RefsLoop ==
    ASSUME NEW s, NEW L, NEW U, NEW BS, NEW BW, Good(s, L, U, BS, BW),
           NEW p \in Proc, NEW r, r = RefsDeleted(s, p)
    PROVE  RefsDone(s, r, L, U, BS, BW, p, DescCount)
<1> PICK N : N = DescCount
  OBVIOUS
<1> PICK loop : loop = "refs"
  OBVIOUS
<1> PICK own : own = p
  OBVIOUS
<1>1. N \in Nat /\ \A d : d \in Desc <=> d \in 0 .. N - 1
  <2>1. Cardinality(Node) \in Nat
    BY RefsAssumption, FS_CardinalityType
  <2> QED BY <2>1, RefsAssumption DEF DescCount
<1>2. PICK g : Turns(g, s, own, p, loop, N) /\ r = g[N]
  BY <1>1, RefsTurns
<1>3. /\ g[0] = s
      /\ \A i \in 1 .. N : g[i] = IF g[i - 1].refs[p][i - 1] = NULL THEN g[i - 1]
                                  ELSE binder_delete_ref(g[i - 1], p, i - 1)
  <2>0. N \in Nat /\ Turns(g, s, own, p, loop, N)
    BY <1>1, <1>2
  <2>1. After(g, s, own, p, loop, N)
    BY <2>0, TurnAfter
  <2> QED BY <2>1 DEF After, Turn
<1> DEFINE K == {k \in 0 .. N : ~RefsDone(s, g[k], L, U, BS, BW, p, k)}
<1>4. K = {}
  <2> SUFFICES ASSUME K # {}
               PROVE  FALSE
    OBVIOUS
  <2>1. PICK k \in K : \A j \in K : k <= j
    <3>1. K \subseteq Nat
      OBVIOUS
    <3> HIDE DEF K
    <3> QED BY <3>1, Least
  <2>2. k \in 0 .. N /\ ~RefsDone(s, g[k], L, U, BS, BW, p, k)
    OBVIOUS
  <2>3. CASE k = 0
    <3>1. \A e \in Desc : ~(e < 0)
      BY <1>1
    <3>2. RefsDone(s, s, L, U, BS, BW, p, 0)
      BY <3>1 DEF RefsDone, Informs
    <3> QED BY <1>3, <2>2, <2>3, <3>2
  <2>4. CASE k # 0
    <3>1. k \in 1 .. N /\ k - 1 \in 0 .. N /\ ~(k <= k - 1) /\ k - 1 \in 0 .. N - 1
      BY <1>1, <2>2, <2>4
    <3>2. RefsDone(s, g[k - 1], L, U, BS, BW, p, k - 1)
      BY <2>1, <3>1
    <3> HIDE DEF K
    <3> PICK d \in Desc : d = k - 1
      BY <1>1, <3>1
    <3> PICK x : x = g[k - 1]
      OBVIOUS
    <3>3. \A e \in Desc : e < k <=> e < d \/ e = d
      BY <1>1, <3>1
    <3>4. /\ Good(x, L, U, BS, BW) /\ Informs(s, x)
          /\ \A q \in Proc, e \in Desc : q # p => x.refs[q][e] = s.refs[q][e]
          /\ \A e \in Desc : e < d => x.refs[p][e] = NULL
      BY <3>2 DEF RefsDone
    <3>5. CASE x.refs[p][d] = NULL
      <4>1. g[k] = x
        BY <1>3, <3>1, <3>5
      <4>2. RefsDone(s, x, L, U, BS, BW, p, k)
        BY <3>3, <3>4, <3>5 DEF RefsDone
      <4> QED BY <2>2, <4>1, <4>2
    <3>6. CASE x.refs[p][d] # NULL
      <4> PICK y : y = binder_delete_ref(x, p, d)
        OBVIOUS
      <4>1. g[k] = y
        BY <1>3, <3>1, <3>6
      <4>2. Good(y, L, U, BS, BW) /\ Deleted(x, y, p, d) /\ Informs(x, y)
        BY <3>4, <3>6, DeleteRef
      <4>3. Informs(s, y)
        BY <3>4, <4>2 DEF Informs
      <4>4. RefsDone(s, y, L, U, BS, BW, p, k)
        BY <3>3, <3>4, <4>2, <4>3 DEF RefsDone, Deleted, OtherRefs
      <4> QED BY <2>2, <4>1, <4>4
    <3> QED BY <3>5, <3>6
  <2> QED BY <2>3, <2>4
<1>5. RefsDone(s, g[N], L, U, BS, BW, p, N)
  <2>1. N \in 0 .. N
    BY <1>1
  <2> QED BY <1>4, <2>1
<1> QED BY <1>2, <1>5

\* The driver without the work of p.
Workless(s, p) == [s EXCEPT !.proc_todo[p] = <<>>]

\* The lists of the processes other than p, and of their threads, stay.
OthersLists(s, c, p) ==
    /\ \A th \in Thread : ProcOf[th] # p => c.todo[th] = s.todo[th]
    /\ \A q \in Proc : q # p => c.proc_todo[q] = s.proc_todo[q]

\* What the others were told of their nodes stays as well.
LEMMA OthersKnown ==
    ASSUME NEW s, NEW p, NEW c, Emptied(s, c), OthersLists(s, c, p),
           NEW n \in Node, OwnLists(s, n), Owner[n] # p, Knows(s, n)
    PROVE  Knows(c, n)
<1>1. Queued(s, n) => Queued(c, n)
  <2>1. \A th \in Thread : On(s.todo[th], n) => On(c.todo[th], n)
    BY DEF OthersLists, OwnLists
  <2>2. \A q \in Proc : On(s.proc_todo[q], n) => On(c.proc_todo[q], n)
    BY DEF OthersLists, OwnLists
  <2> QED BY <2>1, <2>2, QueuedOn
<1> QED BY <1>1, EmptiedFewer, InformsFewer

\* The threads of p and its context manager go.
LEMMA ThreadsGone ==
    ASSUME NEW s \in DriverRec, NEW p \in Proc, NEW c, c = ThreadsReleased(s, p)
    PROVE  /\ Emptied(s, c) /\ OthersLists(s, c, p)
           /\ c.ctx # NULL => c.ctx = s.ctx /\ Owner[c.ctx] # p
<1> DEFINE k == IF s.ctx # NULL /\ Owner[s.ctx] = p THEN NULL ELSE s.ctx
           L == [th \in Thread |-> IF ProcOf[th] = p THEN <<>> ELSE s.todo[th]]
<1>1. /\ c.ctx = k /\ c.node = s.node /\ c.refs = s.refs
      /\ c.todo = L /\ c.proc_todo = s.proc_todo
      /\ c = [ctx |-> k, node |-> s.node, refs |-> s.refs, todo |-> L, proc_todo |-> s.proc_todo]
  BY DEF DriverRec, ThreadsReleased
<1>2. k \in CtxNode \cup {NULL} /\ (k # NULL => k = s.ctx /\ Owner[k] # p) /\ (k = s.ctx \/ k = NULL)
  BY Types
<1>3. \A th \in Thread : /\ L[th] = s.todo[th] \/ L[th] = <<>>
                         /\ L[th] \in Seq(Node \cup {COMPLETE})
                         /\ ProcOf[th] # p => L[th] = s.todo[th]
  BY Types
<1>4. L \in [Thread -> Seq(Node \cup {COMPLETE})]
  BY <1>3
<1> HIDE DEF k, L
<1>5. c \in DriverRec
  BY <1>1, <1>2, <1>4, Types DEF DriverRec
<1> QED BY <1>1, <1>2, <1>3, <1>5 DEF Emptied, OthersLists

\* The work of p goes.
LEMMA WorkGone ==
    ASSUME NEW s \in DriverRec, NEW p \in Proc, NEW c, c = Workless(s, p)
    PROVE  Emptied(s, c) /\ OthersLists(s, c, p)
<1> DEFINE P == [s.proc_todo EXCEPT ![p] = <<>>]
<1>1. /\ c.ctx = s.ctx /\ c.node = s.node /\ c.refs = s.refs
      /\ c.todo = s.todo /\ c.proc_todo = P
      /\ c = [ctx |-> s.ctx, node |-> s.node, refs |-> s.refs, todo |-> s.todo, proc_todo |-> P]
  BY DEF DriverRec, Workless
<1>2. \A q \in Proc : /\ P[q] = s.proc_todo[q] \/ P[q] = <<>>
                      /\ P[q] \in Seq(Node)
                      /\ q # p => P[q] = s.proc_todo[q]
  BY Types
<1>3. P \in [Proc -> Seq(Node)]
  BY <1>2, Types
<1> HIDE DEF P
<1>4. c \in DriverRec
  BY <1>1, <1>3, Types DEF DriverRec
<1> QED BY <1>1, <1>2, <1>4 DEF Emptied, OthersLists

\* The references of p are gone, those of the others are not.
OnlyRefs(s, r, p) ==
    /\ \A q \in Proc, e \in Desc : q # p => r.refs[q][e] = s.refs[q][e]
    /\ \A e \in Desc : r.refs[p][e] = NULL

\* W are the members of U but for p.
Leaving(U, W, p) == \A q \in Proc : q \in W <=> q \in U /\ q # p

\* p ends, with its objects F and the claims on them.
LEMMA ProcessGone ==
    ASSUME NEW s, NEW L, NEW U, NEW BS, NEW BW, Good(s, L, U, BS, BW),
           NEW p \in Proc, NEW F, \A n \in Node : n \in F <=> Owner[n] = p,
           \A n \in Node : n \in F => n \in L,
           NEW M, Without(L, M, F), NEW W, Leaving(U, W, p),
           NEW BT, NEW BX, Unclaimed(BS, BW, BT, BX, F),
           NEW r, r = Workless(RefsDeleted(NodesReleased(ThreadsReleased(s, p), p), p), p)
    PROVE  Good(r, M, W, BT, BX) /\ OnlyRefs(s, r, p) /\ Informs(s, r)
<1> PICK c : c = ThreadsReleased(s, p)
  OBVIOUS
<1> PICK x : x = NodesReleased(c, p)
  OBVIOUS
<1> PICK y : y = RefsDeleted(x, p)
  OBVIOUS
<1>1. /\ Emptied(s, c) /\ OthersLists(s, c, p)
      /\ c.ctx # NULL => c.ctx = s.ctx /\ Owner[c.ctx] # p
  <2>1. s \in DriverRec
    BY DEF Good
  <2> QED BY <2>1, ThreadsGone
<1>2. Good(c, L, U, BS, BW) /\ c.refs = s.refs
  BY <1>1, EmptiedFewer, GoodFewer DEF Emptied
<1>3. \A n \in Node : n \in F => n \in L /\ c.ctx # n
  BY <1>1, RefsAssumption
<1>4. /\ Good(x, M, U, BT, BX) /\ x.refs = c.refs
      /\ InformsWith(c, x, F)
  <2>1. Good(c, L, U, BS, BW) /\ x = NodesReleased(c, p)
    BY <1>2
  <2>2. ObjectsOf(c, L, p, F)
    BY <1>3 DEF ObjectsOf
  <2> QED BY <2>1, <2>2, NodesGone
<1>5. RefsDone(x, y, M, U, BT, BX, p, DescCount)
  BY <1>4, RefsLoop
<1>6. /\ Good(y, M, U, BT, BX)
      /\ OnlyRefs(s, y, p) /\ Informs(x, y)
  <2>1. \A e \in Desc : e < DescCount
    <3>1. Cardinality(Node) \in Nat
      BY RefsAssumption, FS_CardinalityType
    <3> QED BY <3>1, RefsAssumption DEF DescCount
  <2> QED BY <1>2, <1>4, <1>5, <2>1 DEF RefsDone, OnlyRefs
<1>7. r = Workless(y, p)
  OBVIOUS
<1>8. Emptied(y, r) /\ OthersLists(y, r, p) /\ r.refs = y.refs /\ r.node = y.node
  <2>1. y \in DriverRec
    BY <1>6 DEF Good
  <2>2. Emptied(y, r) /\ OthersLists(y, r, p)
    BY <1>7, <2>1, WorkGone
  <2> QED BY <2>2 DEF Emptied
<1>9. Good(r, M, U, BT, BX)
  BY <1>6, <1>8, EmptiedFewer, GoodFewer
<1>10. OnlyRefs(s, r, p)
  BY <1>6, <1>8 DEF OnlyRefs
<1>11. \A q \in Proc, d \in Desc : r.refs[q][d] # NULL => q \in W
  BY <1>9, <1>10 DEF Good, OnlyRefs, Leaving
<1>12. Good(r, M, W, BT, BX)
  BY <1>9, <1>11 DEF Good
<1>13. ASSUME Informed(s)
       PROVE  Informed(r)
  <2>1. ASSUME NEW m \in Node, m \notin F
        PROVE  Knows(c, m)
    <3>1. OwnLists(s, m) /\ Knows(s, m) /\ Owner[m] # p
      BY <1>13, <2>1 DEF Good, NodeOK, NodeMid, Informed
    <3> QED BY <1>1, <3>1, OthersKnown
  <2>2. Informed(y)
    <3>1. Informed(x)
      BY <1>4, <2>1 DEF Informed, InformsWith
    <3> QED BY <1>6, <3>1 DEF Informs
  <2>3. ASSUME NEW m \in Node
        PROVE  Knows(r, m)
    <3>1. NodeOK(y, M, m, BT[m], BX[m])
      BY <1>6 DEF Good
    <3>2. CASE m \in F
      <4>1. m \notin M
        BY <3>2 DEF Without
      <4> QED BY <1>8, <3>1, <4>1 DEF NodeOK, NodeMid, Knows
    <3>3. CASE m \notin F
      <4>1. OwnLists(y, m) /\ Knows(y, m) /\ Owner[m] # p
        BY <2>2, <3>1, <3>3 DEF NodeOK, NodeMid, Informed
      <4> QED BY <1>8, <4>1, OthersKnown
    <3> QED BY <3>2, <3>3
  <2> QED BY <2>3 DEF Informed
<1> QED BY <1>10, <1>12, <1>13 DEF Informs

\* y is the node that BINDER_SET_CONTEXT_MGR makes of n.
Manager(y, n) ==
    y = [NewNode(Owner[n]) EXCEPT !.local_weak = 1, !.local_strong = 1,
                                  !.has_strong = TRUE, !.has_weak = TRUE]

\* Its fields.
LEMMA ManagerFields ==
    ASSUME NEW n \in Node, NEW y, Manager(y, n)
    PROVE  /\ y \in NodeRec /\ y.proc = Owner[n] /\ y.internal_strong = 0
           /\ y.local_strong = 1 /\ y.local_weak = 1
           /\ y.pending_strong = FALSE /\ y.pending_weak = FALSE /\ Answers(y)
           /\ y.has_strong /\ y.has_weak
<1>1. y = [proc |-> Owner[n], internal_strong |-> 0, local_strong |-> 1, local_weak |-> 1,
           has_strong |-> TRUE, has_weak |-> TRUE,
           pending_strong |-> FALSE, pending_weak |-> FALSE]
  BY DEF Manager, NewNode
<1>2. Owner[n] \in Proc
  BY RefsAssumption
<1>3. y \in NodeRec
  BY <1>1, <1>2 DEF NodeRec
<1>4. /\ y.proc = Owner[n] /\ y.internal_strong = 0
      /\ y.local_strong = 1 /\ y.local_weak = 1
      /\ y.pending_strong = FALSE /\ y.pending_weak = FALSE
      /\ y.has_strong /\ y.has_weak
  BY <1>1
<1> QED BY <1>3, <1>4 DEF Answers

\* c is s with the context manager n.
Managed(s, c, n) ==
    /\ c = [ctx |-> n, node |-> s.node, refs |-> s.refs, todo |-> s.todo, proc_todo |-> s.proc_todo]

\* BINDER_SET_CONTEXT_MGR
LEMMA ManagerGood ==
    ASSUME NEW s, NEW L, NEW U, NEW BS, NEW BW, Good(s, L, U, BS, BW),
           NEW n \in CtxNode, n \in L, s.ctx = NULL, s.node[n] = NULL,
           NEW y, Manager(y, n), NEW w, Wrote(s, w, n, y), NEW r, Managed(w, r, n)
    PROVE  Good(r, L, U, BS, BW) /\ r.refs = s.refs /\ Informs(s, r)
<1>1. n \in Node
  BY RefsAssumption
<1>2. s \in DriverRec /\ NodeOK(s, L, n, BS[n], BW[n])
  BY <1>1 DEF Good
<1>3. /\ y \in NodeRec /\ y.proc = Owner[n] /\ y.internal_strong = 0
      /\ y.local_strong = 1 /\ y.local_weak = 1
      /\ y.pending_strong = FALSE /\ y.pending_weak = FALSE /\ Answers(y)
      /\ y.has_strong /\ y.has_weak
  BY <1>1, ManagerFields
<1>4. y \in NodeRec \cup {NULL} /\ y # NULL
  BY <1>3, NotNull
<1>5. Written(s, w, n, y)
  BY <1>1, <1>2, <1>4, WrittenNode
<1>6. /\ Local(s, w, n) /\ w.node[n] = y
      /\ Queued(w, n) <=> Queued(s, n)
      /\ OwnLists(w, n) <=> OwnLists(s, n)
  BY <1>5 DEF Written
<1>7. w.refs = s.refs /\ w.ctx = s.ctx /\ w \in DriverRec
  BY <1>6 DEF Local
<1>8. RefsTo(w, n) = RefsTo(s, n) /\ StrongRefs(w, n) = StrongRefs(s, n)
  BY <1>7, SameRefs
<1>9. /\ OwnLists(s, n) /\ BS[n] = 0 /\ BW[n] = 0 /\ RefsTo(s, n) = {} /\ BS[n] \in Nat /\ BW[n] \in Nat
  BY <1>2 DEF NodeOK, NodeMid
<1>10. Cardinality(StrongRefs(w, n)) = 0
  <2>1. StrongRefs(w, n) = {}
    BY <1>8, <1>9 DEF StrongRefs
  <2> QED BY <2>1, FS_EmptySet
<1>11. One(y.pending_strong) = 0 /\ One(y.pending_weak) = 0 /\ Ctx(n) = 1
  BY <1>3 DEF One, Ctx
<1>12. NodeOK(w, L, n, BS[n], BW[n])
  BY <1>3, <1>4, <1>6, <1>9, <1>10, <1>11 DEF NodeOK, NodeMid
<1>13. SameClaims(BS, BW, BS, BW, n)
  BY DEF SameClaims
<1>14. s.ctx = n => w.node[n] # NULL
  BY <1>4, <1>6
<1>15. Good(w, L, U, BS, BW)
  BY <1>1, <1>6, <1>12, <1>13, <1>14, GoodLocal
<1>16. /\ r.ctx = n /\ r.node = w.node /\ r.refs = w.refs
       /\ r.todo = w.todo /\ r.proc_todo = w.proc_todo
  BY DEF Managed
<1>17. r \in DriverRec
  BY <1>7, Types DEF Managed, DriverRec
<1>18. ASSUME NEW m \in Node
       PROVE  NodeOK(r, L, m, BS[m], BW[m])
  <2>1. NodeOK(w, L, m, BS[m], BW[m])
    BY <1>15 DEF Good
  <2>2. RefsTo(r, m) = RefsTo(w, m) /\ StrongRefs(r, m) = StrongRefs(w, m)
    BY <1>16, SameRefs
  <2>3. (Queued(r, m) <=> Queued(w, m)) /\ (OwnLists(r, m) <=> OwnLists(w, m))
    BY <1>16, SameLists
  <2> QED BY <1>16, <2>1, <2>2, <2>3, Unchanged
<1>19. r.node[r.ctx] # NULL /\ r.ctx \in L
  BY <1>4, <1>6, <1>16
<1>20. Good(r, L, U, BS, BW)
  BY <1>15, <1>16, <1>17, <1>18, <1>19 DEF Good
<1>21. ASSUME Informed(s)
       PROVE  Informed(r)
  <2>1. Knows(w, n)
    <3>1. Strong(y)
      BY <1>3 DEF Strong
    <3> QED BY <1>3, <1>6, <3>1 DEF Knows, Weak
  <2>2. Informed(w)
    BY <1>1, <1>6, <1>21, <2>1, InformsLocal
  <2>3. ASSUME NEW m \in Node
        PROVE  Knows(r, m)
    <3>1. RefsTo(r, m) = RefsTo(w, m) /\ (Queued(r, m) <=> Queued(w, m))
      BY <1>16, SameRefs, SameLists
    <3> QED BY <1>16, <2>2, <3>1, KnowsSame DEF Informed
  <2> QED BY <2>3 DEF Informed
<1> QED BY <1>7, <1>16, <1>20, <1>21 DEF Informs

\* A transaction's completion goes to its sender.
LEMMA CompletedFewer ==
    ASSUME NEW s \in DriverRec, NEW u \in Thread,
           NEW r, Put(s, r, u, COMPLETE)
    PROVE  Fewer(s, r) /\ Informs(s, r)
<1>1. /\ r \in DriverRec /\ r.ctx = s.ctx /\ r.node = s.node /\ r.refs = s.refs
      /\ \A m \in Node : /\ Queued(r, m) <=> Queued(s, m)
                         /\ OwnLists(s, m) => OwnLists(r, m)
  BY CompleteLists DEF Put
<1>2. Fewer(s, r)
  BY <1>1 DEF Fewer
<1> QED BY <1>1, <1>2, InformsFewer DEF Informs, Informed

-----------------------------------------------------------------------------
(* What the buffers claim *)

\* The buffer y has an object of the kind for n.
HasBinder(y, n, strong) ==
    /\ y # NULL /\ y.objects # <<>>
    /\ y.objects[1].type = "BINDER" /\ y.objects[1].node = n /\ y.objects[1].strong = strong
HasTarget(y, n) == y # NULL /\ y.target_node = n

BindersOf(B, n, strong) == {b \in Buf : HasBinder(B[b], n, strong)}
TargetOf(B, n) == {b \in Buf : HasTarget(B[b], n)}

\* The claims of the buffers on each object.
StrongClaims(B) ==
    [n \in Node |-> Cardinality(BindersOf(B, n, TRUE)) + Cardinality(TargetOf(B, n))]
WeakClaims(B) == [n \in Node |-> Cardinality(BindersOf(B, n, FALSE))]

\* A buffer is its process's, and so is the object it is for.
BufOK(y, A) ==
    /\ y \in BufRec
    /\ y.proc \in A
    /\ y.target_node \in Node \cup {NULL}
    /\ y.target_node # NULL => Owner[y.target_node] = y.proc
    /\ BufObjects(y.objects, y.proc)

BufsOK(B, A) ==
    /\ B \in [Buf -> BufRec \cup {NULL}]
    /\ \A b \in Buf : B[b] # NULL => BufOK(B[b], A)

\* The sets of buffers are finite.
LEMMA BufsFinite ==
    ASSUME NEW B, NEW n, NEW strong
    PROVE  /\ IsFiniteSet(BindersOf(B, n, strong)) /\ Cardinality(BindersOf(B, n, strong)) \in Nat
           /\ IsFiniteSet(TargetOf(B, n)) /\ Cardinality(TargetOf(B, n)) \in Nat
<1>1. BindersOf(B, n, strong) \subseteq Buf /\ TargetOf(B, n) \subseteq Buf /\ IsFiniteSet(Buf)
  BY RefsAssumption DEF BindersOf, TargetOf
<1>2. IsFiniteSet(BindersOf(B, n, strong)) /\ IsFiniteSet(TargetOf(B, n))
  BY <1>1, FS_Subset
<1> QED BY <1>2, FS_CardinalityType

\* C is B with y in b.
Filled(B, C, b, y) == C[b] = y /\ \A x \in Buf : x # b => C[x] = B[x]

\* S becomes T when b joins it.
LEMMA OneMore ==
    ASSUME NEW S, IsFiniteSet(S), NEW b, b \notin S, NEW T, \A x : x \in T <=> x \in S \/ x = b
    PROVE  Cardinality(T) = Cardinality(S) + 1
<1>1. Cardinality(S \cup {b}) = Cardinality(S) + 1
  BY FS_AddElement
<1>2. T = S \cup {b}
  OBVIOUS
<1> QED BY <1>1, <1>2

\* What one kind of object adds.
LEMMA BinderAdded ==
    ASSUME NEW B, NEW C, NEW b \in Buf, NEW y, y # NULL, B[b] = NULL, Filled(B, C, b, y),
           NEW n, NEW strong \in BOOLEAN
    PROVE  Cardinality(BindersOf(C, n, strong)) =
             Cardinality(BindersOf(B, n, strong)) + Claim(y.objects, n, strong)
<1> PICK S : S = BindersOf(B, n, strong)
  OBVIOUS
<1> PICK T : T = BindersOf(C, n, strong)
  OBVIOUS
<1>1. IsFiniteSet(S) /\ Cardinality(S) \in Nat
  BY BufsFinite
<1>2. b \notin S
  BY DEF BindersOf, HasBinder
<1>3. \A x : x # b => (x \in T <=> x \in S)
  BY DEF BindersOf, Filled
<1>4. b \in T <=> HasBinder(y, n, strong)
  BY DEF BindersOf, Filled
<1>5. CASE HasBinder(y, n, strong)
  <2>1. \A x : x \in T <=> x \in S \/ x = b
    BY <1>3, <1>4, <1>5
  <2>2. Cardinality(T) = Cardinality(S) + 1
    BY <1>1, <1>2, <2>1, OneMore
  <2>3. Claim(y.objects, n, strong) = 1
    BY <1>5 DEF HasBinder, Claim
  <2> QED BY <2>2, <2>3
<1>6. CASE ~HasBinder(y, n, strong)
  <2>1. \A x : x \in T <=> x \in S
    BY <1>2, <1>3, <1>4, <1>6
  <2>2. T = S
    BY <2>1
  <2>3. Claim(y.objects, n, strong) = 0
    BY <1>6 DEF HasBinder, Claim
  <2> QED BY <1>1, <2>2, <2>3
<1> QED BY <1>5, <1>6

\* What the target adds.
LEMMA TargetAdded ==
    ASSUME NEW B, NEW C, NEW b \in Buf, NEW y, y # NULL, B[b] = NULL, Filled(B, C, b, y), NEW n
    PROVE  Cardinality(TargetOf(C, n)) = Cardinality(TargetOf(B, n)) + One(n = y.target_node)
<1> PICK S : S = TargetOf(B, n)
  OBVIOUS
<1> PICK T : T = TargetOf(C, n)
  OBVIOUS
<1>1. IsFiniteSet(S) /\ Cardinality(S) \in Nat
  BY BufsFinite
<1>2. b \notin S
  BY DEF TargetOf, HasTarget
<1>3. \A x : x # b => (x \in T <=> x \in S)
  BY DEF TargetOf, Filled
<1>4. b \in T <=> HasTarget(y, n)
  BY DEF TargetOf, Filled
<1>5. CASE HasTarget(y, n)
  <2>1. \A x : x \in T <=> x \in S \/ x = b
    BY <1>3, <1>4, <1>5
  <2>2. Cardinality(T) = Cardinality(S) + 1
    BY <1>1, <1>2, <2>1, OneMore
  <2>3. One(n = y.target_node) = 1
    BY <1>5 DEF HasTarget, One
  <2> QED BY <2>2, <2>3
<1>6. CASE ~HasTarget(y, n)
  <2>1. \A x : x \in T <=> x \in S
    BY <1>2, <1>3, <1>4, <1>6
  <2>2. T = S
    BY <2>1
  <2>3. One(n = y.target_node) = 0
    BY <1>6 DEF HasTarget, One
  <2> QED BY <1>1, <2>2, <2>3
<1> QED BY <1>5, <1>6

\* How four numbers are added.
LEMMA PlusFour ==
    ASSUME NEW i \in Nat, NEW j \in Nat, NEW k \in Nat, NEW m \in Nat
    PROVE  (i + k) + (j + m) = (i + j) + m + k /\ i + j \in Nat
  OBVIOUS

\* A buffer's claims are added when it is filled and given back when it is freed.
LEMMA ClaimsFilled ==
    ASSUME NEW B, NEW C, NEW b \in Buf, NEW y, y # NULL, B[b] = NULL, Filled(B, C, b, y)
    PROVE  BufAdds(StrongClaims(B), WeakClaims(B), StrongClaims(C), WeakClaims(C),
                   y.target_node, y.objects)
<1> SUFFICES ASSUME NEW n \in Node
             PROVE  /\ StrongClaims(B)[n] \in Nat /\ WeakClaims(B)[n] \in Nat
                    /\ StrongClaims(C)[n] = StrongClaims(B)[n] + One(n = y.target_node)
                                            + Claim(y.objects, n, TRUE)
                    /\ WeakClaims(C)[n] = WeakClaims(B)[n] + Claim(y.objects, n, FALSE)
  BY DEF BufAdds
<1>1. /\ \A strong \in BOOLEAN : Cardinality(BindersOf(B, n, strong)) \in Nat
      /\ Cardinality(TargetOf(B, n)) \in Nat
  BY BufsFinite
<1>2. \A strong \in BOOLEAN : Cardinality(BindersOf(C, n, strong)) =
                                Cardinality(BindersOf(B, n, strong)) + Claim(y.objects, n, strong)
  BY BinderAdded
<1>3. Cardinality(TargetOf(C, n)) = Cardinality(TargetOf(B, n)) + One(n = y.target_node)
  BY TargetAdded
<1>4. PICK i \in Nat : i = Cardinality(BindersOf(B, n, TRUE))
  BY <1>1
<1>5. PICK j \in Nat : j = Cardinality(TargetOf(B, n))
  BY <1>1
<1>6. PICK k \in Nat : k = Claim(y.objects, n, TRUE)
  BY DEF Claim
<1>7. PICK m \in Nat : m = One(n = y.target_node)
  BY DEF One
<1>8. (i + k) + (j + m) = (i + j) + m + k /\ i + j \in Nat
  BY PlusFour
<1>9. /\ StrongClaims(B)[n] = i + j
      /\ WeakClaims(B)[n] = Cardinality(BindersOf(B, n, FALSE))
      /\ WeakClaims(C)[n] = Cardinality(BindersOf(C, n, FALSE))
      /\ StrongClaims(C)[n] = (i + k) + (j + m)
  BY <1>2, <1>3, <1>4, <1>5, <1>6, <1>7 DEF StrongClaims, WeakClaims
<1>10. /\ WeakClaims(B)[n] \in Nat
       /\ WeakClaims(C)[n] = WeakClaims(B)[n] + Claim(y.objects, n, FALSE)
  BY <1>1, <1>2, <1>9
<1> QED BY <1>6, <1>7, <1>8, <1>9, <1>10

\* C is B without p's buffers.
Vacated(B, C, p) == \A b \in Buf : C[b] = IF B[b] # NULL /\ B[b].proc = p THEN NULL ELSE B[b]

\* The claims of p's buffers go when p ends: they are on p's objects.
LEMMA ClaimsGone ==
    ASSUME NEW B, NEW A, BufsOK(B, A), NEW p \in Proc,
           NEW C, Vacated(B, C, p),
           NEW F, \A n \in Node : n \in F <=> Owner[n] = p
    PROVE  Unclaimed(StrongClaims(B), WeakClaims(B), StrongClaims(C), WeakClaims(C), F)
<1> SUFFICES ASSUME NEW n \in Node
             PROVE  /\ StrongClaims(C)[n] = IF n \in F THEN 0 ELSE StrongClaims(B)[n]
                    /\ WeakClaims(C)[n] = IF n \in F THEN 0 ELSE WeakClaims(B)[n]
  BY DEF Unclaimed
<1>1. /\ StrongClaims(B)[n] = Cardinality(BindersOf(B, n, TRUE)) + Cardinality(TargetOf(B, n))
      /\ WeakClaims(B)[n] = Cardinality(BindersOf(B, n, FALSE))
      /\ StrongClaims(C)[n] = Cardinality(BindersOf(C, n, TRUE)) + Cardinality(TargetOf(C, n))
      /\ WeakClaims(C)[n] = Cardinality(BindersOf(C, n, FALSE))
  BY DEF StrongClaims, WeakClaims
<1>2. ASSUME NEW b \in Buf, B[b] # NULL
      PROVE  /\ \A strong : HasBinder(B[b], n, strong) => B[b].proc = Owner[n]
             /\ HasTarget(B[b], n) => B[b].proc = Owner[n]
  <2>1. BufOK(B[b], A)
    BY <1>2 DEF BufsOK
  <2> PICK y : y = B[b]
    OBVIOUS
  <2>2. /\ y.target_node # NULL => Owner[y.target_node] = y.proc
        /\ BufObjects(y.objects, y.proc)
    BY <2>1 DEF BufOK
  <2>3. HasTarget(y, n) => y.proc = Owner[n]
    BY <2>2, RefsAssumption DEF HasTarget
  <2>4. ASSUME NEW strong, HasBinder(y, n, strong)
        PROVE  y.proc = Owner[n]
    <3>1. y.objects # <<>> /\ y.objects[1].type = "BINDER" /\ y.objects[1].node = n
      BY <2>4 DEF HasBinder
    <3>2. PICK u \in Object : y.objects = <<u>> /\ (u.type = "BINDER" => Owner[u.node] = y.proc)
      BY <2>2, <3>1 DEF BufObjects
    <3> QED BY <3>1, <3>2
  <2> QED BY <2>3, <2>4
<1>3. ASSUME NEW strong
      PROVE  /\ n \in F => BindersOf(C, n, strong) = {}
             /\ n \notin F => BindersOf(C, n, strong) = BindersOf(B, n, strong)
  <2>1. \A b \in Buf : HasBinder(C[b], n, strong) <=> HasBinder(B[b], n, strong) /\ n \notin F
    BY <1>2 DEF HasBinder, Vacated
  <2> QED BY <2>1 DEF BindersOf
<1>4. /\ n \in F => TargetOf(C, n) = {}
      /\ n \notin F => TargetOf(C, n) = TargetOf(B, n)
  <2>1. \A b \in Buf : HasTarget(C[b], n) <=> HasTarget(B[b], n) /\ n \notin F
    BY <1>2 DEF HasTarget, Vacated
  <2> QED BY <2>1 DEF TargetOf
<1>5. CASE n \in F
  <2>1. BindersOf(C, n, TRUE) = {} /\ BindersOf(C, n, FALSE) = {} /\ TargetOf(C, n) = {}
    BY <1>3, <1>4, <1>5
  <2>2. /\ Cardinality(BindersOf(C, n, TRUE)) = 0 /\ Cardinality(BindersOf(C, n, FALSE)) = 0
        /\ Cardinality(TargetOf(C, n)) = 0
    BY <2>1, FS_EmptySet
  <2>3. StrongClaims(C)[n] = 0 + 0 /\ WeakClaims(C)[n] = 0
    BY <1>1, <2>2, Zenon
  <2>4. 0 + 0 = 0
    OBVIOUS
  <2> QED BY <1>5, <2>3, <2>4
<1>6. CASE n \notin F
  <2>1. /\ BindersOf(C, n, TRUE) = BindersOf(B, n, TRUE) /\ TargetOf(C, n) = TargetOf(B, n)
        /\ BindersOf(C, n, FALSE) = BindersOf(B, n, FALSE)
    BY <1>3, <1>4, <1>6
  <2> QED BY <1>1, <1>6, <2>1
<1> QED BY <1>5, <1>6

\* The pairs of a set and of the numbers 1.
LEMMA Paired ==
    ASSUME NEW S, IsFiniteSet(S), NEW T, \A x : x \in T <=> \E b \in S : x = <<b, 1>>
    PROVE  Cardinality(T) = Cardinality(S)
<1> DEFINE f == [b \in S |-> <<b, 1>>]
<1>1. f \in [S -> T]
  OBVIOUS
<1>2. \A a, b \in S : f[a] = f[b] => a = b
  OBVIOUS
<1>3. \A t \in T : \E b \in S : f[b] = t
  OBVIOUS
<1>4. f \in Bijection(S, T)
  BY <1>1, <1>2, <1>3 DEF Bijection, Injection, Surjection, IsInjective
<1>5. ExistsBijection(S, T)
  BY <1>4 DEF ExistsBijection
<1> QED BY <1>5, FS_Bijection

\* The objects for n are counted by the buffers that have one.
LEMMA BindersCount ==
    ASSUME BufsOK(buf, alive), NEW n \in Node, NEW strong \in BOOLEAN
    PROVE  Cardinality(Binders(n, strong)) = Cardinality(BindersOf(buf, n, strong))
<1> PICK S : S = BindersOf(buf, n, strong)
  OBVIOUS
<1> PICK T : T = Binders(n, strong)
  OBVIOUS
<1>1. IsFiniteSet(S)
  BY BufsFinite
<1>2. ASSUME NEW b \in Buf, buf[b] # NULL
      PROVE  \/ buf[b].objects = <<>>
             \/ \E u : buf[b].objects = <<u>>
  BY <1>2 DEF BufsOK, BufOK, BufObjects
<1>3. ASSUME NEW x
      PROVE  x \in T <=> \E b \in S : x = <<b, 1>>
  <2>1. x \in T <=> \E b \in Buf : /\ buf[b] # NULL
                                   /\ \E i \in DOMAIN buf[b].objects :
                                         /\ x = <<b, i>>
                                         /\ buf[b].objects[i].type = "BINDER"
                                         /\ buf[b].objects[i].node = n
                                         /\ buf[b].objects[i].strong = strong
    BY DEF Binders
  <2>2. ASSUME NEW b \in Buf, buf[b] # NULL, NEW i
        PROVE  i \in DOMAIN buf[b].objects <=> i = 1 /\ buf[b].objects # <<>>
    BY <1>2, <2>2
  <2>3. x \in T <=> \E b \in Buf : /\ x = <<b, 1>> /\ buf[b] # NULL /\ buf[b].objects # <<>>
                                   /\ buf[b].objects[1].type = "BINDER"
                                   /\ buf[b].objects[1].node = n
                                   /\ buf[b].objects[1].strong = strong
    BY <2>1, <2>2
  <2> QED BY <2>3 DEF BindersOf, HasBinder
<1> QED BY <1>1, <1>3, Paired

-----------------------------------------------------------------------------
(* The inductive invariant *)

\* The objects of the processes A.
Owners(A) == {n \in Node : Owner[n] \in A}

\* What a thread has read or has to answer is about an object of its process.
CmdsOK(c) ==
    /\ c \in [Thread -> Commands]
    /\ \A th \in Thread : c[th].name # "none" =>
          c[th].node \in Node /\ Owner[c[th].node] = ProcOf[th]

\* The driver s is sound for the buffers B, the commands c and the processes A.  The
\* owners are informed as long as no thread exits with a node on its list.
Sound(s, B, c, A) ==
    /\ A \subseteq Proc
    /\ BufsOK(B, A)
    /\ CmdsOK(c)
    /\ Good(s, Owners(A), A, StrongClaims(B), WeakClaims(B))
    /\ Exits = {} => Informed(s)

CountsInv == Sound(Driver, buf, cmd, alive)

\* The driver becomes the state r.
LEMMA BecomesIs ==
    ASSUME NEW r, r \in DriverRec, Becomes(r)
    PROVE  Driver' = r
BY DEF Becomes, Driver, DriverRec

\* Where the references do not change nor do the buffers.
LEMMA SoundGood ==
    ASSUME NEW s, NEW B, NEW c, NEW A, Sound(s, B, c, A),
           NEW r, Good(r, Owners(A), A, StrongClaims(B), WeakClaims(B)),
           Exits = {} => Informs(s, r)
    PROVE  Sound(r, B, c, A)
BY DEF Sound, Informs

\* The driver claims the context manager for itself.
LEMMA ManagerStrong ==
    ASSUME NEW s, NEW L, NEW U, NEW BS, NEW BW, Good(s, L, U, BS, BW),
           NEW n \in Node, n = s.ctx
    PROVE  s.node[n] # NULL /\ n \in L /\ Strong(s.node[n]) /\ Weak(s, n)
<1>1. s \in DriverRec /\ NodeOK(s, L, n, BS[n], BW[n]) /\ n # NULL
  BY RefsAssumption DEF Good
<1>2. n \in CtxNode /\ s.node[n] # NULL /\ n \in L
  BY <1>1, Types DEF Good
<1> PICK x : x = s.node[n]
  OBVIOUS
<1>3. PICK bs \in Nat : bs = BS[n]
  BY GoodNat
<1>4. PICK a \in Nat : a = One(x.pending_strong)
  BY DEF One
<1>5. x.local_strong = bs + a + 1
  BY <1>1, <1>2, <1>3, <1>4 DEF NodeOK, NodeMid, Ctx
<1>6. bs + a + 1 > 0
  OBVIOUS
<1> QED BY <1>2, <1>5, <1>6 DEF Strong, Weak

\* Where a transaction may go.
LEMMA TargetsOK ==
    ASSUME CountsInv, NEW th \in Thread, NEW t \in Targets(th)
    PROVE  /\ MayGo(Driver, Owners(alive), t[1])
           /\ t[1] \in Node \cup {NULL} /\ (t[1] # NULL => Owner[t[1]] = t[2])
           /\ t[2] \in Proc /\ t[2] \in alive
<1>1. alive \subseteq Proc
  BY DEF CountsInv, Sound
<1>2. CASE \E q \in alive \ {ProcOf[th]} : t = <<NULL, q>>
  BY <1>1, <1>2 DEF MayGo
<1>3. CASE \E n \in Node : /\ node[n] # NULL /\ node[n].proc \notin {NULL, ProcOf[th]}
                           /\ t = <<n, node[n].proc>>
                           /\ \/ n = ctx
                              \/ \E d \in Desc : /\ refs[ProcOf[th]][d] # NULL
                                                 /\ refs[ProcOf[th]][d].node = n
                                                 /\ refs[ProcOf[th]][d].strong > 0
  <2>1. PICK n \in Node : /\ node[n] # NULL /\ node[n].proc \notin {NULL, ProcOf[th]}
                          /\ t = <<n, node[n].proc>>
                          /\ \/ n = ctx
                             \/ \E d \in Desc : /\ refs[ProcOf[th]][d] # NULL
                                                /\ refs[ProcOf[th]][d].node = n
                                                /\ refs[ProcOf[th]][d].strong > 0
    BY <1>3
  <2> PICK s : s = Driver
    OBVIOUS
  <2> PICK L : L = Owners(alive)
    OBVIOUS
  <2>2. s.node = node /\ s.refs = refs /\ s.ctx = ctx
    BY DEF Driver
  <2>3. \E BS, BW : Good(s, L, alive, BS, BW)
    BY DEF CountsInv, Sound
  <2>4. /\ n \in L => s.node[n].proc = Owner[n]
        /\ n \notin L => s.node[n].proc = NULL
    BY <2>1, <2>2, <2>3, NodeOwner
  <2>5. n \in L /\ node[n].proc = Owner[n]
    BY <2>1, <2>2, <2>4
  <2>6. Owner[n] \in alive
    BY <2>5 DEF Owners
  <2>7. Strong(s.node[n])
    <3>1. CASE n = s.ctx
      BY <2>3, <3>1, ManagerStrong
    <3>2. CASE \E d \in Desc : /\ s.refs[ProcOf[th]][d] # NULL
                               /\ s.refs[ProcOf[th]][d].node = n
                               /\ s.refs[ProcOf[th]][d].strong > 0
      <4>1. ProcOf[th] \in Proc
        BY RefsAssumption
      <4>2. s.node[n].internal_strong > 0
        BY <2>3, <3>2, <4>1, RefNode
      <4> QED BY <4>2 DEF Strong
    <3> QED BY <2>1, <2>2, <3>1, <3>2
  <2>8. MayGo(s, L, n)
    BY <2>1, <2>2, <2>5, <2>7 DEF MayGo
  <2>9. t[1] = n /\ t[2] = Owner[n]
    BY <2>1, <2>5
  <2> QED BY <1>1, <2>6, <2>8, <2>9
<1> QED BY <1>2, <1>3 DEF Targets

\* What may be put into it.
LEMMA ParcelsOK ==
    ASSUME CountsInv, NEW th \in Thread, ProcOf[th] \in alive, NEW objects \in Parcels(th)
    PROVE  objects = <<>> \/ \E o : objects = <<o>> /\ MayPut(Driver, Owners(alive), o, th)
<1>1. CASE objects = <<>>
  BY <1>1
<1>2. CASE \E o \in Sendable(th) : objects = <<o>>
  <2>1. PICK o \in Sendable(th) : objects = <<o>>
    BY <1>2
  <2>2. o \in Object
    BY RefsAssumption DEF Sendable, Object
  <2>3. refs = Driver.refs
    BY DEF Driver
  <2>4. \/ /\ o.type = "BINDER" /\ Owner[o.node] = ProcOf[th] /\ o.node \notin CtxNode
        \/ /\ o.type = "HANDLE" /\ o.desc # NULL
           /\ refs[ProcOf[th]][o.desc] # NULL
           /\ refs[ProcOf[th]][o.desc].node = o.node
           /\ o.strong => refs[ProcOf[th]][o.desc].strong > 0
    BY DEF Sendable
  <2>5. o.node \in Node /\ o.desc \in Desc \cup {NULL}
    BY <2>2 DEF Object
  <2>6. Owner[o.node] = ProcOf[th] => o.node \in Owners(alive)
    BY <2>5 DEF Owners
  <2>7. MayPut(Driver, Owners(alive), o, th)
    BY <2>2, <2>3, <2>4, <2>5, <2>6 DEF MayPut
  <2> QED BY <2>1, <2>7
<1> QED BY <1>1, <1>2 DEF Parcels

\* The buffer of a transaction.
BufOf(y, q, target, objects) == y = [proc |-> q, target_node |-> target, objects |-> objects]

\* It is sound.
LEMMA BufMade ==
    ASSUME NEW A, A \subseteq Proc, NEW q \in A, NEW target \in Node \cup {NULL},
           target # NULL => Owner[target] = q,
           NEW objects, BufObjects(objects, q), NEW y, BufOf(y, q, target, objects)
    PROVE  BufOK(y, A) /\ y # NULL /\ y.proc = q /\ y.target_node = target /\ y.objects = objects
<1>1. objects \in Seq(Object)
  <2>1. CASE objects = <<>>
    BY <2>1
  <2>2. CASE \E u \in Object : objects = <<u>>
    BY <2>2
  <2> QED BY <2>1, <2>2 DEF BufObjects
<1>2. y.proc = q /\ y.target_node = target /\ y.objects = objects
  BY DEF BufOf
<1>3. y \in BufRec
  BY <1>1 DEF BufOf, BufRec
<1> QED BY <1>2, <1>3, NotNull DEF BufOK

\* It is a buffer.
LEMMA BufNotNull ==
    ASSUME NEW q \in Proc, NEW target \in Node \cup {NULL}, NEW objects \in Seq(Object),
           NEW y, BufOf(y, q, target, objects)
    PROVE  y # NULL
<1>1. y \in BufRec
  BY DEF BufOf, BufRec
<1> QED BY <1>1, NotNull

\* Filling and freeing a buffer keeps the others.
LEMMA BufsFilled ==
    ASSUME NEW B, NEW A, BufsOK(B, A), NEW b \in Buf, NEW y, y = NULL \/ BufOK(y, A),
           NEW C, C = [B EXCEPT ![b] = y]
    PROVE  BufsOK(C, A) /\ Filled(B, C, b, y)
<1>1. B \in [Buf -> BufRec \cup {NULL}] /\ y \in BufRec \cup {NULL}
  BY DEF BufsOK, BufOK
<1>2. C \in [Buf -> BufRec \cup {NULL}] /\ C[b] = y /\ \A x \in Buf : x # b => C[x] = B[x]
  BY <1>1
<1> QED BY <1>2 DEF BufsOK, Filled

\* Thread th may send a transaction to q that holds the objects.
MaySend(s, L, target, q, A, objects, th) ==
    /\ q \in A
    /\ target \in Node \cup {NULL} /\ MayGo(s, L, target)
    /\ target # NULL => Owner[target] = q
    /\ objects = <<>> \/ \E o : objects = <<o>> /\ MayPut(s, L, o, th)

\* C is B with y in b.
Wrapped(B, C, b, y) == C = [B EXCEPT ![b] = y]

\* A transaction counts what its buffer has.
LEMMA SendSound ==
    ASSUME NEW s, NEW B, NEW c, NEW A, Sound(s, B, c, A),
           NEW th \in Thread, NEW q, NEW target, NEW objects,
           MaySend(s, Owners(A), target, q, A, objects, th),
           NEW t, t = Translated(WithTarget(s, target), objects, th, q),
           NEW b \in Buf, B[b] = NULL, NEW y, BufOf(y, q, target, t.out),
           NEW C, Wrapped(B, C, b, y),
           NEW r, Put(t.s, r, th, COMPLETE)
    PROVE  Sound(r, C, c, A) /\ r.refs = t.s.refs /\ Sent(s, t.s, objects, t.out, q, Owners(A))
<1> PICK L : L = Owners(A)
  OBVIOUS
<1> PICK BS : BS = StrongClaims(B)
  OBVIOUS
<1> PICK BW : BW = WeakClaims(B)
  OBVIOUS
<1>0. /\ q \in A /\ MayGo(s, L, target) /\ target \in Node \cup {NULL}
      /\ target # NULL => Owner[target] = q
      /\ objects = <<>> \/ \E o : objects = <<o>> /\ MayPut(s, L, o, th)
  BY DEF MaySend
<1>1. /\ Good(s, L, A, BS, BW) /\ BufsOK(B, A) /\ A \subseteq Proc /\ q \in Proc
      /\ Exits = {} => Informed(s)
  BY <1>0 DEF Sound
<1>2. /\ Sent(s, t.s, objects, t.out, q, L)
      /\ BufObjects(t.out, q) /\ Informs(s, t.s)
      /\ \A CS, CW : BufAdds(BS, BW, CS, CW, target, t.out) => Good(t.s, L, A, CS, CW)
  BY <1>0, <1>1, SendGood
<1>3. BufOK(y, A) /\ y # NULL /\ y.proc = q /\ y.target_node = target /\ y.objects = t.out
  BY <1>0, <1>1, <1>2, BufMade
<1>4. BufsOK(C, A) /\ Filled(B, C, b, y)
  BY <1>1, <1>3, BufsFilled DEF Wrapped
<1> PICK CS : CS = StrongClaims(C)
  OBVIOUS
<1> PICK CW : CW = WeakClaims(C)
  OBVIOUS
<1>5. BufAdds(BS, BW, CS, CW, target, t.out)
  BY <1>3, <1>4, ClaimsFilled
<1>6. Good(t.s, L, A, CS, CW)
  BY <1>2, <1>5
<1>7. Fewer(t.s, r) /\ r.refs = t.s.refs /\ Informs(t.s, r)
  <2>1. t.s \in DriverRec
    BY <1>6 DEF Good
  <2>2. Fewer(t.s, r) /\ Informs(t.s, r)
    BY <2>1, CompletedFewer
  <2> QED BY <2>2 DEF Fewer
<1>8. Good(r, L, A, CS, CW)
  BY <1>6, <1>7, GoodFewer
<1>9. Exits = {} => Informed(r)
  BY <1>1, <1>2, <1>7 DEF Informs
<1> QED BY <1>1, <1>2, <1>4, <1>7, <1>8, <1>9 DEF Sound

\* Freeing a buffer gives its claims back.
LEMMA FreeSound ==
    ASSUME NEW s, NEW B, NEW c, NEW A, Sound(s, B, c, A),
           NEW b \in Buf, NEW y, y = B[b], y # NULL,
           NEW C, C = [B EXCEPT ![b] = NULL],
           NEW r, r = binder_transaction_buffer_release(s, y.proc, y.target_node, y.objects)
    PROVE  Sound(r, C, c, A) /\ Given(s, r, y.objects, y.proc)
<1> PICK L : L = Owners(A)
  OBVIOUS
<1> PICK CS : CS = StrongClaims(B)
  OBVIOUS
<1> PICK CW : CW = WeakClaims(B)
  OBVIOUS
<1> PICK BS : BS = StrongClaims(C)
  OBVIOUS
<1> PICK BW : BW = WeakClaims(C)
  OBVIOUS
<1>1. Good(s, L, A, CS, CW) /\ BufsOK(B, A) /\ A \subseteq Proc
  BY DEF Sound
<1>2. BufOK(y, A)
  BY <1>1 DEF BufsOK
<1>3. /\ y.proc \in Proc /\ y.target_node \in Node \cup {NULL}
      /\ BufObjects(y.objects, y.proc)
  BY <1>1, <1>2 DEF BufOK
<1>4. BufsOK(C, A) /\ Filled(B, C, b, NULL)
  BY <1>1, BufsFilled
<1>5. C[b] = NULL /\ Filled(C, B, b, y)
  BY <1>4 DEF Filled
<1>6. BufAdds(BS, BW, CS, CW, y.target_node, y.objects)
  BY <1>5, ClaimsFilled
<1>7. Good(r, L, A, BS, BW) /\ Given(s, r, y.objects, y.proc) /\ Informs(s, r)
  BY <1>1, <1>3, <1>6, ReleaseGood
<1> QED BY <1>1, <1>4, <1>7 DEF Sound, Informs

\* CS and CW are BS and BW with what a buffer for the target with the objects claims.
Adds(BS, BW, CS, CW, target, objects) ==
    /\ CS = [n \in Node |-> BS[n] + One(n = target) + Claim(objects, n, TRUE)]
    /\ CW = [n \in Node |-> BW[n] + Claim(objects, n, FALSE)]

\* There are such claims.
LEMMA AddsBuf ==
    ASSUME NEW s, NEW L, NEW U, NEW BS, NEW BW, Good(s, L, U, BS, BW),
           NEW target, NEW objects, NEW CS, NEW CW, Adds(BS, BW, CS, CW, target, objects)
    PROVE  BufAdds(BS, BW, CS, CW, target, objects)
<1>1. \A n \in Node : BS[n] \in Nat /\ BW[n] \in Nat
  BY GoodNat
<1> QED BY <1>1 DEF Adds, BufAdds

\* A transaction that is refused gives back what was counted.
LEMMA RefusedSound ==
    ASSUME NEW s, NEW B, NEW c, NEW A, Sound(s, B, c, A),
           NEW th \in Thread, NEW q \in A, NEW target \in Node \cup {NULL},
           MayGo(s, Owners(A), target),
           NEW objects, objects = <<>> \/ \E o : objects = <<o>> /\ MayPut(s, Owners(A), o, th),
           NEW t, t = Translated(WithTarget(s, target), objects, th, q),
           NEW r, r = binder_transaction_buffer_release(t.s, q, target, t.out)
    PROVE  /\ Sound(r, B, c, A) /\ t.s \in DriverRec
           /\ Sent(s, t.s, objects, t.out, q, Owners(A)) /\ Given(t.s, r, t.out, q)
<1> PICK L : L = Owners(A)
  OBVIOUS
<1> PICK BS : BS = StrongClaims(B)
  OBVIOUS
<1> PICK BW : BW = WeakClaims(B)
  OBVIOUS
<1>1. Good(s, L, A, BS, BW) /\ A \subseteq Proc /\ q \in Proc
  BY DEF Sound
<1>2. /\ Sent(s, t.s, objects, t.out, q, L)
      /\ BufObjects(t.out, q) /\ Informs(s, t.s)
      /\ \A CS, CW : BufAdds(BS, BW, CS, CW, target, t.out) => Good(t.s, L, A, CS, CW)
  BY <1>1, SendGood
<1> PICK CS, CW : Adds(BS, BW, CS, CW, target, t.out)
  BY DEF Adds
<1>3. BufAdds(BS, BW, CS, CW, target, t.out)
  BY <1>1, AddsBuf
<1>4. Good(t.s, L, A, CS, CW)
  BY <1>2, <1>3
<1>5. Good(r, L, A, BS, BW) /\ Given(t.s, r, t.out, q) /\ Informs(t.s, r)
  BY <1>1, <1>2, <1>3, <1>4, ReleaseGood
<1>6. t.s \in DriverRec
  BY <1>4 DEF Good
<1>7. Exits = {} => Informed(r)
  BY <1>2, <1>5 DEF Sound, Informs
<1> QED BY <1>2, <1>5, <1>6, <1>7 DEF Sound

\* The driver with a node for m.
NodeMade(s, x, m, th) ==
    x = IF s.node[m] = NULL THEN [s EXCEPT !.node[m] = NewNode(ProcOf[th])] ELSE s

\* So does one whose reference there was no memory for; the node stays.
LEMMA NoRefSound ==
    ASSUME NEW s, NEW B, NEW c, NEW A, Sound(s, B, c, A),
           NEW th \in Thread, NEW q \in A, NEW target \in Node \cup {NULL},
           MayGo(s, Owners(A), target),
           NEW m \in Node, m \notin CtxNode, Owner[m] = ProcOf[th], ProcOf[th] \in A,
           NEW w, w = WithTarget(s, target),
           NEW x, NodeMade(w, x, m, th),
           NEW r, r = binder_transaction_buffer_release(x, q, target, <<>>)
    PROVE  Sound(r, B, c, A) /\ r.refs = s.refs
<1> PICK L : L = Owners(A)
  OBVIOUS
<1> PICK BS : BS = StrongClaims(B)
  OBVIOUS
<1> PICK BW : BW = WeakClaims(B)
  OBVIOUS
<1>1. Good(s, L, A, BS, BW) /\ A \subseteq Proc /\ q \in Proc
  BY DEF Sound
<1> PICK objects : objects = <<>>
  OBVIOUS
<1> PICK CS, CW : Adds(BS, BW, CS, CW, target, objects)
  BY DEF Adds
<1>2. BufAdds(BS, BW, CS, CW, target, objects)
  BY <1>1, AddsBuf
<1>3. \A n \in Node : Claim(objects, n, TRUE) = 0 /\ Claim(objects, n, FALSE) = 0
  BY DEF Claim
<1>4. \A n \in Node : CS[n] = BS[n] + One(n = target) /\ CW[n] = BW[n]
  <2> SUFFICES ASSUME NEW n \in Node
               PROVE  CS[n] = BS[n] + One(n = target) /\ CW[n] = BW[n]
    OBVIOUS
  <2>1. PICK k \in Nat : k = One(n = target)
    BY DEF One
  <2>2. PICK bs \in Nat : bs = BS[n]
    BY <1>2 DEF BufAdds
  <2>3. PICK bw \in Nat : bw = BW[n]
    BY <1>2 DEF BufAdds
  <2>4. CS[n] = bs + k + 0 /\ CW[n] = bw + 0
    BY <1>2, <1>3, <2>1, <2>2, <2>3 DEF BufAdds
  <2>5. bs + k + 0 = bs + k /\ bw + 0 = bw
    OBVIOUS
  <2> QED BY <2>1, <2>2, <2>3, <2>4, <2>5
<1> PICK MS : MS = [n \in Node |-> BS[n] + One(n = target)]
  OBVIOUS
<1>5. Good(w, L, A, MS, BW) /\ w.refs = s.refs /\ Informs(s, w)
  <2>1. \A n \in Node : MS[n] = BS[n] + One(n = target)
    OBVIOUS
  <2> QED BY <1>1, <2>1, TargetClaimed
<1>6. Good(w, L, A, CS, CW)
  <2>1. \A n \in Node : CS[n] = MS[n] /\ CW[n] = BW[n]
    BY <1>4
  <2> QED BY <1>5, <2>1, GoodSame
<1>7. Good(x, L, A, CS, CW) /\ x.refs = w.refs /\ Informs(w, x)
  <2>1. CASE w.node[m] = NULL
    <3>1. m \in L
      BY DEF Owners
    <3> PICK y : y = NewNode(Owner[m])
      OBVIOUS
    <3>2. Wrote(w, x, m, y)
      BY <2>1 DEF NodeMade, Wrote
    <3> QED BY <1>6, <2>1, <3>1, <3>2, MakeNode
  <2>2. CASE w.node[m] # NULL
    BY <1>6, <2>2 DEF NodeMade, Informs
  <2> QED BY <2>1, <2>2
<1>8. BufObjects(objects, q)
  BY DEF BufObjects
<1>9. Good(r, L, A, BS, BW) /\ Given(x, r, objects, q) /\ Informs(x, r)
  BY <1>1, <1>2, <1>7, <1>8, ReleaseGood
<1>10. r.refs = x.refs
  BY <1>9 DEF Given
<1>11. Exits = {} => Informed(r)
  BY <1>5, <1>7, <1>9 DEF Sound, Informs
<1> QED BY <1>5, <1>7, <1>9, <1>10, <1>11 DEF Sound

\* BC_INCREFS and BC_ACQUIRE
LEMMA AcquireSound ==
    ASSUME NEW s, NEW B, NEW c, NEW A, Sound(s, B, c, A),
           NEW p \in Proc, NEW d \in Desc, s.refs[p][d] # NULL,
           NEW strong \in BOOLEAN, strong => s.refs[p][d].strong > 0,
           NEW r, r = binder_inc_ref(s, p, d, strong, NULL)
    PROVE  Sound(r, B, c, A) /\ RefInc(s, r, p, d, strong, NULL)
<1> PICK L : L = Owners(A)
  OBVIOUS
<1> PICK BS : BS = StrongClaims(B)
  OBVIOUS
<1> PICK BW : BW = WeakClaims(B)
  OBVIOUS
<1>1. Good(s, L, A, BS, BW)
  BY DEF Sound
<1>2. ListFor(s, s.refs[p][d].node, NULL)
  BY DEF ListFor
<1>3. /\ Good(r, L, A, BS, BW) /\ RefInc(s, r, p, d, strong, NULL)
      /\ InformedBut(s, p, d, strong, NULL) => Informed(r)
  BY <1>1, <1>2, IncRef
<1>4. ASSUME Informed(s)
      PROVE  InformedBut(s, p, d, strong, NULL)
  <2> PICK n : n = s.refs[p][d].node
    OBVIOUS
  <2>1. n \in Node /\ (strong => Strong(s.node[n]))
    <3>1. n \in Node /\ (s.refs[p][d].strong > 0 => s.node[n].internal_strong > 0)
      BY <1>1, RefNode
    <3> QED BY <3>1 DEF Strong
  <2> QED BY <1>4, <2>1 DEF InformedBut, Informed
<1> QED BY <1>3, <1>4 DEF Sound

\* The same for handle 0.
LEMMA AcquireManagerSound ==
    ASSUME NEW s, NEW B, NEW c, NEW A, Sound(s, B, c, A),
           NEW p \in A, s.ctx # NULL, NEW strong \in BOOLEAN,
           NEW d, d = DescFor(s, p, s.ctx),
           NEW g, g = binder_get_ref_for_node(s, p, s.ctx),
           NEW r, r = binder_inc_ref(g, p, d, strong, NULL)
    PROVE  Sound(r, B, c, A) /\ GotRef(s, g, p, s.ctx, d) /\ RefInc(g, r, p, d, strong, NULL)
<1> PICK L : L = Owners(A)
  OBVIOUS
<1> PICK BS : BS = StrongClaims(B)
  OBVIOUS
<1> PICK BW : BW = WeakClaims(B)
  OBVIOUS
<1>1. Good(s, L, A, BS, BW) /\ p \in Proc
  BY DEF Sound
<1>2. s.ctx \in Node /\ s.node[s.ctx] # NULL
  BY <1>1, Types, RefsAssumption DEF Good
<1>3. GotRef(s, g, p, s.ctx, d) /\ Good(g, L, A, BS, BW)
  BY <1>1, <1>2, GetRef
<1>4. d \in Desc /\ g.refs[p][d] # NULL
  BY <1>3 DEF GotRef
<1>5. ListFor(g, g.refs[p][d].node, NULL)
  BY DEF ListFor
<1>6. /\ Good(r, L, A, BS, BW) /\ RefInc(g, r, p, d, strong, NULL)
      /\ InformedBut(g, p, d, strong, NULL) => Informed(r)
  BY <1>1, <1>3, <1>4, <1>5, IncRef
<1>7. ASSUME Informed(s)
      PROVE  Informed(r)
  <2> PICK n : n = s.ctx
    OBVIOUS
  <2>1. n \in Node /\ Strong(s.node[n]) /\ Weak(s, n)
    BY <1>1, <1>2, ManagerStrong
  <2>2. InformedBut(g, p, d, strong, NULL)
    BY <1>1, <1>3, <1>7, <2>1, GotInforms
  <2> QED BY <1>6, <2>2
<1> QED BY <1>3, <1>6, <1>7 DEF Sound

\* BC_RELEASE and BC_DECREFS
LEMMA ReleaseSound ==
    ASSUME NEW s, NEW B, NEW c, NEW A, Sound(s, B, c, A),
           NEW p \in Proc, NEW d \in Desc, s.refs[p][d] # NULL, NEW strong \in BOOLEAN,
           NEW r, r = binder_dec_ref(s, p, d, strong)
    PROVE  Sound(r, B, c, A) /\ RefDec(s, r, p, d, strong)
<1> PICK L : L = Owners(A)
  OBVIOUS
<1> PICK BS : BS = StrongClaims(B)
  OBVIOUS
<1> PICK BW : BW = WeakClaims(B)
  OBVIOUS
<1>1. Good(s, L, A, BS, BW)
  BY DEF Sound
<1>2. Good(r, L, A, BS, BW) /\ RefDec(s, r, p, d, strong) /\ Informs(s, r)
  BY <1>1, DecRef
<1> QED BY <1>2 DEF Sound, Informs

\* BINDER_SET_CONTEXT_MGR
LEMMA ManagerSound ==
    ASSUME NEW s, NEW B, NEW c, NEW A, Sound(s, B, c, A),
           NEW n \in CtxNode, Owner[n] \in A, s.ctx = NULL, s.node[n] = NULL,
           NEW y, Manager(y, n), NEW w, Wrote(s, w, n, y), NEW r, Managed(w, r, n)
    PROVE  Sound(r, B, c, A) /\ r.refs = s.refs
<1> PICK L : L = Owners(A)
  OBVIOUS
<1> PICK BS : BS = StrongClaims(B)
  OBVIOUS
<1> PICK BW : BW = WeakClaims(B)
  OBVIOUS
<1>1. Good(s, L, A, BS, BW)
  BY DEF Sound
<1>2. n \in L
  BY RefsAssumption DEF Owners
<1>3. Good(r, L, A, BS, BW) /\ r.refs = s.refs /\ Informs(s, r)
  BY <1>1, <1>2, ManagerGood
<1> QED BY <1>3 DEF Sound, Informs

\* A node on a list of the process of th is an object of that process.
LEMMA ListedOwn ==
    ASSUME NEW s, NEW L, NEW U, NEW BS, NEW BW, Good(s, L, U, BS, BW),
           NEW th \in Thread, NEW n, n # COMPLETE,
           On(s.todo[th], n) \/ On(s.proc_todo[ProcOf[th]], n)
    PROVE  n \in Node /\ Owner[n] = ProcOf[th] /\ s.node[n] # NULL
<1>1. s \in DriverRec /\ ProcOf[th] \in Proc
  BY RefsAssumption DEF Good
<1>2. n \in Node
  <2>1. s.todo[th] \in Seq(Node \cup {COMPLETE}) /\ s.proc_todo[ProcOf[th]] \in Seq(Node)
    BY <1>1, Types
  <2>2. CASE On(s.todo[th], n)
    <3>1. PICK i \in DOMAIN s.todo[th] : s.todo[th][i] = n
      BY <2>2 DEF On
    <3>2. n \in Node \cup {COMPLETE}
      BY <2>1, <3>1
    <3> QED BY <3>2
  <2>3. CASE On(s.proc_todo[ProcOf[th]], n)
    <3>1. PICK i \in DOMAIN s.proc_todo[ProcOf[th]] : s.proc_todo[ProcOf[th]][i] = n
      BY <2>3 DEF On
    <3> QED BY <2>1, <3>1
  <2> QED BY <2>2, <2>3
<1>3. NodeOK(s, L, n, BS[n], BW[n])
  BY <1>2 DEF Good
<1>4. OwnLists(s, n) /\ (s.node[n] = NULL => ~Queued(s, n))
  BY <1>3 DEF NodeOK, NodeMid
<1>5. Queued(s, n)
  BY <1>1, QueuedOn
<1>6. Owner[n] = ProcOf[th]
  BY <1>1, <1>4 DEF OwnLists
<1> QED BY <1>2, <1>4, <1>5, <1>6

\* The head of a list is on it.
LEMMA HeadOn ==
    ASSUME NEW S, NEW q \in Seq(S), q # <<>>
    PROVE  On(q, Head(q))
<1>1. 1 \in DOMAIN q /\ Head(q) = q[1]
  OBVIOUS
<1> QED BY <1>1 DEF On

\* A command that is read or answered is about an object of the reader.
LEMMA CmdSet ==
    ASSUME NEW c, CmdsOK(c), NEW th \in Thread, NEW x \in Commands,
           x.name # "none" => x.node \in Node /\ Owner[x.node] = ProcOf[th],
           NEW e, e = [c EXCEPT ![th] = x]
    PROVE  CmdsOK(e)
<1>1. /\ e \in [Thread -> Commands] /\ e[th] = x
      /\ \A u \in Thread : u # th => e[u] = c[u]
  BY DEF CmdsOK
<1> QED BY <1>1 DEF CmdsOK

\* The owner is told about a node.
LEMMA ToldSound ==
    ASSUME NEW s, NEW B, NEW c, NEW A, Sound(s, B, c, A),
           NEW n \in Node, Owner[n] \in A, s.node[n] # NULL, Queued(s, n),
           NEW r, r = Told(s, n), NEW e, CmdsOK(e)
    PROVE  Sound(r, B, e, A) /\ r.refs = s.refs
<1> PICK L : L = Owners(A)
  OBVIOUS
<1> PICK BS : BS = StrongClaims(B)
  OBVIOUS
<1> PICK BW : BW = WeakClaims(B)
  OBVIOUS
<1>1. Good(s, L, A, BS, BW)
  BY DEF Sound
<1>2. n \in L
  BY DEF Owners
<1>3. Good(r, L, A, BS, BW) /\ r.refs = s.refs /\ Informs(s, r)
  BY <1>1, <1>2, ToldGood
<1> QED BY <1>3 DEF Sound, Informs

\* It answers.
LEMMA AnsweredSound ==
    ASSUME NEW s, NEW B, NEW c, NEW A, Sound(s, B, c, A),
           NEW n \in Node, Owner[n] \in A, s.node[n] # NULL,
           NEW strong \in BOOLEAN, Open(s.node[n], strong),
           NEW w, Answered(s, w, n, strong),
           NEW r, r = DecLocal(w, n, strong), NEW e, CmdsOK(e)
    PROVE  Sound(r, B, e, A) /\ r.refs = s.refs
<1> PICK L : L = Owners(A)
  OBVIOUS
<1> PICK BS : BS = StrongClaims(B)
  OBVIOUS
<1> PICK BW : BW = WeakClaims(B)
  OBVIOUS
<1>1. Good(s, L, A, BS, BW)
  BY DEF Sound
<1>2. n \in L
  BY DEF Owners
<1>3. Good(r, L, A, BS, BW) /\ r.refs = s.refs /\ Informs(s, r)
  BY <1>1, <1>2, AnsweredGood
<1> QED BY <1>3 DEF Sound, Informs

\* A list gets shorter.
LEMMA FewerSound ==
    ASSUME NEW s, NEW B, NEW c, NEW A, Sound(s, B, c, A), NEW r, Fewer(s, r),
           Exits = {} => Informs(s, r)
    PROVE  Sound(r, B, c, A) /\ r.refs = s.refs
<1>1. Good(r, Owners(A), A, StrongClaims(B), WeakClaims(B))
  BY GoodFewer DEF Sound
<1> QED BY <1>1 DEF Sound, Fewer, Informs

\* p ends.
LEMMA EndSound ==
    ASSUME NEW s, NEW B, NEW c, NEW A, Sound(s, B, c, A), NEW p \in A,
           NEW r, r = Workless(RefsDeleted(NodesReleased(ThreadsReleased(s, p), p), p), p),
           NEW C, C = [b \in Buf |-> IF B[b] # NULL /\ B[b].proc = p THEN NULL ELSE B[b]],
           NEW e, CmdsOK(e), NEW W, W = A \ {p}
    PROVE  Sound(r, C, e, W) /\ OnlyRefs(s, r, p) /\ Vacated(B, C, p)
<1> PICK L : L = Owners(A)
  OBVIOUS
<1> PICK M : M = Owners(W)
  OBVIOUS
<1> PICK F : F = Owners({p})
  OBVIOUS
<1>1. \A n \in Node : /\ n \in F <=> Owner[n] = p
                      /\ n \in L <=> Owner[n] \in A
                      /\ n \in M <=> Owner[n] \in A /\ Owner[n] # p
  BY DEF Owners
<1>2. Without(L, M, F) /\ Leaving(A, W, p)
  BY <1>1 DEF Without, Leaving
<1>3. \A n \in Node : n \in F => n \in L
  BY <1>1
<1>4. Vacated(B, C, p)
  BY DEF Vacated
<1>5. A \subseteq Proc /\ BufsOK(B, A)
  BY DEF Sound
<1> PICK BS : BS = StrongClaims(B)
  OBVIOUS
<1> PICK BW : BW = WeakClaims(B)
  OBVIOUS
<1> PICK BT : BT = StrongClaims(C)
  OBVIOUS
<1> PICK BX : BX = WeakClaims(C)
  OBVIOUS
<1>6. Good(s, L, A, BS, BW)
  BY DEF Sound
<1>7. Unclaimed(BS, BW, BT, BX, F)
  BY <1>1, <1>4, <1>5, ClaimsGone
<1>8. Good(r, M, W, BT, BX) /\ OnlyRefs(s, r, p) /\ Informs(s, r)
  BY <1>1, <1>2, <1>3, <1>5, <1>6, <1>7, ProcessGone
<1>9. BufsOK(C, W)
  <2>1. \A b \in Buf : /\ C[b] \in BufRec \cup {NULL}
                       /\ C[b] # NULL => C[b] = B[b] /\ C[b].proc # p
    BY <1>5 DEF BufsOK
  <2>2. \A b \in Buf : C[b] # NULL => BufOK(C[b], W)
    BY <1>5, <2>1 DEF BufsOK, BufOK
  <2> QED BY <2>1, <2>2 DEF BufsOK
<1>10. Exits = {} => Informed(r)
  BY <1>8 DEF Sound, Informs
<1> QED BY <1>4, <1>5, <1>8, <1>9, <1>10 DEF Sound

-----------------------------------------------------------------------------
(* Strong handles in the buffers *)

\* The buffer y is of p and has its strong handle d.
HasHandle(y, p, d) ==
    /\ y # NULL /\ y.proc = p /\ y.objects # <<>>
    /\ y.objects[1].type = "HANDLE" /\ y.objects[1].desc = d /\ y.objects[1].strong

HandlesOf(B, p, d) == {b \in Buf : HasHandle(B[b], p, d)}

\* The reference x, if it is one, has c strong claims or more.
Backed(x, c) == c \in Nat /\ (c = 0 \/ (x # NULL /\ x.strong >= c))

\* It is a reference to the object n.
Names(x, n) == x # NULL /\ x.node = n

\* The handle d of p in the buffers B is good.
HandleOK(s, B, p, d) ==
    /\ Backed(s.refs[p][d], Cardinality(HandlesOf(B, p, d)))
    /\ \A b \in HandlesOf(B, p, d) : Names(s.refs[p][d], B[b].objects[1].node)

HandlesOK(s, B) == \A p \in Proc, d \in Desc : HandleOK(s, B, p, d)

\* What a reference or its absence counts.
LEMMA RefType ==
    ASSUME NEW s \in DriverRec, NEW p \in Proc, NEW d \in Desc, s.refs[p][d] # NULL
    PROVE  s.refs[p][d] \in RefRec /\ s.refs[p][d].strong \in Nat /\ s.refs[p][d].weak \in Nat
<1>1. s.refs[p][d] \in RefRec
  BY Types
<1> QED BY <1>1 DEF RefRec

\* A handle that is sent adds one claim.
LEMMA BackedGot ==
    ASSUME NEW s \in DriverRec, NEW r, NEW p \in Proc, NEW d \in Desc, NEW n, NEW strong \in BOOLEAN,
           HandleGot(s, r, p, d, n, strong), NEW c \in Nat, Backed(s.refs[p][d], c)
    PROVE  Backed(r.refs[p][d], c + One(strong))
<1>1. PICK x : x = s.refs[p][d]
  OBVIOUS
<1>2. PICK y : y = r.refs[p][d]
  OBVIOUS
<1>3. PICK k : k = IF x = NULL THEN 0 ELSE x.strong
  OBVIOUS
<1>4. k \in Nat /\ k >= c
  BY <1>1, <1>3, RefType DEF Backed
<1>5. y # NULL /\ (strong => y.strong = 1 + k) /\ (~strong => y.strong = k)
  BY <1>1, <1>2, <1>3 DEF HandleGot
<1>6. One(strong) \in {0, 1} /\ (strong <=> One(strong) = 1)
  BY DEF One
<1>7. y.strong >= c + One(strong) /\ c + One(strong) \in Nat
  BY <1>4, <1>5, <1>6
<1> QED BY <1>2, <1>5, <1>7 DEF Backed

\* One that is given back takes one.
LEMMA BackedLost ==
    ASSUME NEW s \in DriverRec, NEW r, NEW p \in Proc, NEW d \in Desc, NEW strong \in BOOLEAN,
           HandleLost(s, r, p, d, strong), NEW c \in Nat, Backed(s.refs[p][d], c + One(strong))
    PROVE  Backed(r.refs[p][d], c)
<1>1. PICK x : x = s.refs[p][d]
  OBVIOUS
<1>2. PICK y : y = r.refs[p][d]
  OBVIOUS
<1>3. One(strong) \in {0, 1} /\ (strong <=> One(strong) = 1)
  BY DEF One
<1>4. CASE x = NULL
  <2>1. y = x /\ c + One(strong) = 0
    BY <1>1, <1>2, <1>4 DEF HandleLost, Backed
  <2> QED BY <1>2, <1>3, <2>1 DEF Backed
<1>5. CASE x # NULL /\ (IF strong THEN x.strong ELSE x.weak) = 0
  <2>1. x.strong \in Nat /\ x.weak \in Nat
    BY <1>1, <1>5, RefType
  <2>2. y = x
    BY <1>1, <1>2, <1>5, <2>1 DEF HandleLost
  <2>3. c = 0 \/ x.strong >= c
    BY <1>1, <1>3, <1>5, <2>1 DEF Backed
  <2> QED BY <1>2, <1>5, <2>2, <2>3 DEF Backed
<1>6. CASE x # NULL /\ (IF strong THEN x.strong ELSE x.weak) > 0
  <2>1. x.strong \in Nat /\ x.weak \in Nat
    BY <1>1, <1>6, RefType
  <2>2. \/ y # NULL /\ LessRef(x, y, strong)
        \/ y = NULL /\ x.strong + x.weak = 1
    BY <1>1, <1>2, <1>6, <2>1 DEF HandleLost
  <2>3. c + One(strong) = 0 \/ x.strong >= c + One(strong)
    BY <1>1 DEF Backed
  <2>4. CASE y # NULL /\ LessRef(x, y, strong)
    <3>1. y.strong = IF strong THEN x.strong - 1 ELSE x.strong
      BY <2>4 DEF LessRef
    <3>2. c = 0 \/ y.strong >= c
      BY <1>3, <2>1, <2>3, <3>1
    <3> QED BY <1>2, <2>4, <3>2 DEF Backed
  <2>5. CASE y = NULL /\ x.strong + x.weak = 1
    <3>1. c = 0
      BY <1>3, <1>6, <2>1, <2>3, <2>5
    <3> QED BY <3>1 DEF Backed
  <2> QED BY <2>2, <2>4, <2>5
<1> QED
  <2>1. x = NULL \/ (x # NULL /\ x.strong \in Nat /\ x.weak \in Nat)
    BY <1>1, RefType
  <2> QED BY <1>4, <1>5, <1>6, <2>1

\* What a claim of a program adds.
LEMMA BackedInc ==
    ASSUME NEW s \in DriverRec, NEW r, NEW p \in Proc, NEW d \in Desc, NEW strong \in BOOLEAN,
           s.refs[p][d] # NULL, RefInc(s, r, p, d, strong, NULL),
           NEW c \in Nat, Backed(s.refs[p][d], c)
    PROVE  Backed(r.refs[p][d], c)
<1>1. PICK x : x = s.refs[p][d]
  OBVIOUS
<1>2. PICK y : y = r.refs[p][d]
  OBVIOUS
<1>3. x.strong \in Nat
  BY <1>1, RefType
<1>4. y = x \/ (y # NULL /\ y.strong = IF strong THEN x.strong + 1 ELSE x.strong)
  BY <1>1, <1>2 DEF RefInc, Inced
<1>5. c = 0 \/ x.strong >= c
  BY <1>1 DEF Backed
<1>6. y # NULL /\ (c = 0 \/ y.strong >= c)
  BY <1>1, <1>3, <1>4, <1>5
<1> QED BY <1>2, <1>6 DEF Backed

\* A command that takes a claim is like a handle that is given back.
LEMMA DecLost ==
    ASSUME NEW s, NEW r, NEW p, NEW d, NEW strong, s.refs[p][d] # NULL, RefDec(s, r, p, d, strong)
    PROVE  HandleLost(s, r, p, d, strong)
BY DEF RefDec, HandleLost
\* The buffers with a handle are finitely many.
LEMMA HandlesFinite ==
    ASSUME NEW B, NEW p, NEW d
    PROVE  IsFiniteSet(HandlesOf(B, p, d)) /\ Cardinality(HandlesOf(B, p, d)) \in Nat
<1>1. HandlesOf(B, p, d) \subseteq Buf /\ IsFiniteSet(Buf)
  BY RefsAssumption DEF HandlesOf
<1>2. IsFiniteSet(HandlesOf(B, p, d))
  BY <1>1, FS_Subset
<1> QED BY <1>2, FS_CardinalityType

\* B and C have the same in every buffer with the handle d of p.
SameHandles(B, C, p, d) ==
    \A b \in Buf : /\ HasHandle(C[b], p, d) <=> HasHandle(B[b], p, d)
                   /\ HasHandle(C[b], p, d) => C[b] = B[b]

\* Then they claim the same.
LEMMA HandlesKept ==
    ASSUME NEW B, NEW C, NEW p, NEW d, SameHandles(B, C, p, d)
    PROVE  /\ HandlesOf(C, p, d) = HandlesOf(B, p, d)
           /\ \A b \in HandlesOf(C, p, d) : C[b] = B[b]
BY DEF SameHandles, HandlesOf

\* And the handle stays good when the reference stays.
LEMMA HandleSame ==
    ASSUME NEW s, NEW r, NEW B, NEW C, NEW p, NEW d, HandleOK(s, B, p, d),
           r.refs[p][d] = s.refs[p][d], SameHandles(B, C, p, d)
    PROVE  HandleOK(r, C, p, d)
<1>1. /\ HandlesOf(C, p, d) = HandlesOf(B, p, d)
      /\ \A b \in HandlesOf(C, p, d) : C[b] = B[b]
  BY HandlesKept
<1> QED BY <1>1 DEF HandleOK

\* C has one more buffer with the handle than B.
OneHandle(B, C, b, p, d) ==
    /\ Cardinality(HandlesOf(C, p, d)) = Cardinality(HandlesOf(B, p, d)) + 1
    /\ \A x \in HandlesOf(C, p, d) : x = b \/ (x \in HandlesOf(B, p, d) /\ C[x] = B[x])
    /\ \A x \in HandlesOf(B, p, d) : x \in HandlesOf(C, p, d) /\ C[x] = B[x]

\* A handle in a buffer that is filled or freed changes the claims on that handle only.
LEMMA OneBuffer ==
    ASSUME NEW B, NEW C, NEW b \in Buf, NEW y, y # NULL, B[b] = NULL, Filled(B, C, b, y),
           NEW p, NEW d
    PROVE  /\ ~HasHandle(y, p, d) => SameHandles(B, C, p, d) /\ SameHandles(C, B, p, d)
           /\ HasHandle(y, p, d) => OneHandle(B, C, b, p, d)
<1>1. C[b] = y /\ \A x \in Buf : x # b => C[x] = B[x]
  BY DEF Filled
<1>2. ~HasHandle(B[b], p, d)
  BY DEF HasHandle
<1>3. ASSUME ~HasHandle(y, p, d)
      PROVE  SameHandles(B, C, p, d) /\ SameHandles(C, B, p, d)
  BY <1>1, <1>2, <1>3 DEF SameHandles
<1>4. ASSUME HasHandle(y, p, d)
      PROVE  OneHandle(B, C, b, p, d)
  <2>1. PICK S : S = HandlesOf(B, p, d)
    OBVIOUS
  <2>2. PICK T : T = HandlesOf(C, p, d)
    OBVIOUS
  <2>3. IsFiniteSet(S)
    BY <2>1, HandlesFinite
  <2>4. b \notin S /\ \A x : x \in T <=> x \in S \/ x = b
    BY <1>1, <1>2, <1>4, <2>1, <2>2 DEF HandlesOf
  <2>5. Cardinality(T) = Cardinality(S) + 1
    BY <2>3, <2>4, OneMore
  <2>6. \A x \in S : x \in Buf /\ x # b
    BY <2>1, <2>4 DEF HandlesOf
  <2> QED BY <1>1, <2>1, <2>2, <2>4, <2>5, <2>6 DEF OneHandle
<1> QED BY <1>3, <1>4

\* A handle that is not there has no claims.
LEMMA NoHandles ==
    ASSUME NEW B, NEW p, NEW d, Cardinality(HandlesOf(B, p, d)) = 0
    PROVE  HandlesOf(B, p, d) = {}
BY HandlesFinite, FS_EmptySet

\* What is not a handle has no handle.
LEMMA NoHandle ==
    ASSUME NEW y, y.objects = <<>> \/ \E u : y.objects = <<u>> /\ u.type = "BINDER"
    PROVE  \A p, d : ~HasHandle(y, p, d)
BY DEF HasHandle

\* The references do not change.
LEMMA HandlesSame ==
    ASSUME NEW s, NEW r, NEW B, HandlesOK(s, B), r.refs = s.refs
    PROVE  HandlesOK(r, B)
BY DEF HandlesOK, HandleOK

\* The reference of p to the object it has as d is used as often as before or more.
LEMMA HandleNamed ==
    ASSUME NEW s, NEW r, NEW B, NEW p \in Proc, NEW d \in Desc, HandleOK(s, B, p, d),
           Backed(r.refs[p][d], Cardinality(HandlesOf(B, p, d))),
           s.refs[p][d] # NULL /\ r.refs[p][d] # NULL => r.refs[p][d].node = s.refs[p][d].node
    PROVE  HandleOK(r, B, p, d)
<1>1. ASSUME NEW b \in HandlesOf(B, p, d)
      PROVE  Names(r.refs[p][d], B[b].objects[1].node)
  <2>1. Cardinality(HandlesOf(B, p, d)) # 0
    BY <1>1, NoHandles
  <2>2. r.refs[p][d] # NULL
    BY <2>1 DEF Backed
  <2>3. Names(s.refs[p][d], B[b].objects[1].node)
    BY <1>1 DEF HandleOK
  <2> QED BY <2>2, <2>3 DEF Names
<1> QED BY <1>1 DEF HandleOK

\* One handle changes.
LEMMA HandlesOne ==
    ASSUME NEW s, NEW r, NEW B, HandlesOK(s, B), NEW p \in Proc, NEW d \in Desc,
           OtherRefs(s, r, p, d), HandleOK(r, B, p, d)
    PROVE  HandlesOK(r, B)
BY DEF HandlesOK, HandleOK, OtherRefs

\* A handle that is sent: the reference counts one more than the buffers.
LEMMA HandleGotOK ==
    ASSUME NEW s \in DriverRec, NEW r, NEW B, NEW p \in Proc, NEW d \in Desc, NEW n,
           NEW strong \in BOOLEAN, HandleGot(s, r, p, d, n, strong), HandleOK(s, B, p, d)
    PROVE  /\ HandleOK(r, B, p, d) /\ Names(r.refs[p][d], n)
           /\ Backed(r.refs[p][d], Cardinality(HandlesOf(B, p, d)) + One(strong))
<1>1. PICK c : c = Cardinality(HandlesOf(B, p, d))
  OBVIOUS
<1>2. c \in Nat /\ Backed(s.refs[p][d], c)
  BY <1>1, HandlesFinite DEF HandleOK
<1>3. Backed(r.refs[p][d], c + One(strong))
  BY <1>2, BackedGot
<1>4. r.refs[p][d] # NULL /\ r.refs[p][d].node = n /\ (s.refs[p][d] # NULL => s.refs[p][d].node = n)
  BY DEF HandleGot
<1>5. (s.refs[p][d] = NULL => c = 0) /\ (s.refs[p][d] # NULL => s.refs[p][d].strong \in Nat)
  BY <1>2, RefType DEF Backed
<1>6. Backed(r.refs[p][d], c)
  <2>1. PICK k : k = One(strong)
    OBVIOUS
  <2>2. k \in {0, 1}
    BY <2>1 DEF One
  <2>3. PICK x : x = r.refs[p][d]
    OBVIOUS
  <2>4. (strong => x.strong = 1 + (IF s.refs[p][d] = NULL THEN 0 ELSE s.refs[p][d].strong))
        /\ (~strong => x.strong = IF s.refs[p][d] = NULL THEN 0 ELSE s.refs[p][d].strong)
    BY <2>3 DEF HandleGot
  <2>5. x.strong \in Nat
    BY <1>5, <2>4
  <2>6. c + k = 0 \/ x.strong >= c + k
    BY <1>3, <2>1, <2>3 DEF Backed
  <2>7. c = 0 \/ x.strong >= c
    BY <1>2, <2>2, <2>5, <2>6
  <2> QED BY <1>2, <1>4, <2>3, <2>7 DEF Backed
<1>7. HandleOK(r, B, p, d)
  BY <1>1, <1>4, <1>6, HandleNamed
<1> QED BY <1>1, <1>3, <1>4, <1>7 DEF Names

\* A handle that is given back, where the reference counts that one too.
LEMMA HandleLostOK ==
    ASSUME NEW s \in DriverRec, NEW r, NEW B, NEW p \in Proc, NEW d \in Desc,
           NEW strong \in BOOLEAN, HandleLost(s, r, p, d, strong), HandlesOK(s, B),
           Backed(s.refs[p][d], Cardinality(HandlesOf(B, p, d)) + One(strong))
    PROVE  HandlesOK(r, B)
<1>1. PICK c : c = Cardinality(HandlesOf(B, p, d))
  OBVIOUS
<1>2. c \in Nat /\ HandleOK(s, B, p, d)
  BY <1>1, HandlesFinite DEF HandlesOK
<1>3. Backed(r.refs[p][d], c)
  BY <1>1, <1>2, BackedLost
<1>4. s.refs[p][d] # NULL /\ r.refs[p][d] # NULL => r.refs[p][d].node = s.refs[p][d].node
  BY DEF HandleLost, LessRef
<1>5. HandleOK(r, B, p, d)
  BY <1>1, <1>2, <1>3, <1>4, HandleNamed
<1>6. OtherRefs(s, r, p, d)
  BY DEF HandleLost, OtherRefs
<1> QED BY <1>5, <1>6, HandlesOne

\* The handle u of p in the buffer y.
LEMMA HandleIn ==
    ASSUME NEW y, y # NULL, NEW u \in Object, y.objects = <<u>>, u.type = "HANDLE", NEW p, NEW d
    PROVE  HasHandle(y, p, d) <=> y.proc = p /\ u.desc = d /\ u.strong
BY DEF HasHandle

\* A transaction arrives.
LEMMA HandlesSent ==
    ASSUME NEW s \in DriverRec, NEW r, NEW B, HandlesOK(s, B),
           NEW b \in Buf, B[b] = NULL, NEW y, y # NULL, NEW q \in Proc, y.proc = q,
           NEW C, Filled(B, C, b, y), NEW objects, NEW L, Sent(s, r, objects, y.objects, q, L)
    PROVE  HandlesOK(r, C)
<1>1. CASE r.refs = s.refs /\ \A p, d : ~HasHandle(y, p, d)
  <2>1. \A p \in Proc, d \in Desc : HandleOK(r, C, p, d)
    BY <1>1, OneBuffer, HandleSame DEF HandlesOK
  <2> QED BY <2>1 DEF HandlesOK
<1>2. CASE \E u \in Object : /\ y.objects = <<u>> /\ u.type = "HANDLE" /\ u.desc \in Desc
                             /\ HandleGot(s, r, q, u.desc, u.node, u.strong)
  <2>1. PICK u \in Object : /\ y.objects = <<u>> /\ u.type = "HANDLE" /\ u.desc \in Desc
                            /\ HandleGot(s, r, q, u.desc, u.node, u.strong)
    BY <1>2
  <2>0. u.strong \in BOOLEAN
    BY DEF Object
  <2>2. PICK d, n, strong : d = u.desc /\ n = u.node /\ strong = u.strong
    OBVIOUS
  <2>3. d \in Desc /\ strong \in BOOLEAN /\ HandleGot(s, r, q, d, n, strong)
    BY <2>0, <2>1, <2>2
  <2>4. HandleOK(s, B, q, d)
    BY <2>3 DEF HandlesOK
  <2>5. /\ HandleOK(r, B, q, d) /\ Names(r.refs[q][d], n)
        /\ Backed(r.refs[q][d], Cardinality(HandlesOf(B, q, d)) + One(strong))
    BY <2>3, <2>4, HandleGotOK
  <2>6. \A p, e : HasHandle(y, p, e) <=> q = p /\ d = e /\ strong
    BY <2>1, <2>2, HandleIn
  <2>7. ASSUME NEW p \in Proc, NEW e \in Desc, p # q \/ e # d
        PROVE  HandleOK(r, C, p, e)
    <3>1. r.refs[p][e] = s.refs[p][e]
      BY <2>3, <2>7 DEF HandleGot, OtherRefs
    <3>2. SameHandles(B, C, p, e)
      BY <2>6, <2>7, OneBuffer
    <3>3. HandleOK(s, B, p, e)
      BY DEF HandlesOK
    <3> QED BY <3>1, <3>2, <3>3, HandleSame
  <2>8. HandleOK(r, C, q, d)
    <3>1. CASE ~strong
      BY <2>5, <2>6, <3>1, OneBuffer, HandleSame
    <3>2. CASE strong
      <4>1. /\ Cardinality(HandlesOf(C, q, d)) = Cardinality(HandlesOf(B, q, d)) + 1
            /\ \A x \in HandlesOf(C, q, d) : x = b \/ (x \in HandlesOf(B, q, d) /\ C[x] = B[x])
        <5>1. HasHandle(y, q, d)
          BY <2>6, <3>2
        <5>2. OneHandle(B, C, b, q, d)
          BY <5>1, OneBuffer
        <5> QED BY <5>2 DEF OneHandle
      <4>2. One(strong) = 1
        BY <3>2 DEF One
      <4>3. Backed(r.refs[q][d], Cardinality(HandlesOf(C, q, d)))
        BY <2>5, <4>1, <4>2
      <4>4. C[b].objects[1].node = n
        BY <2>1, <2>2 DEF Filled
      <4>5. \A x \in HandlesOf(C, q, d) : Names(r.refs[q][d], C[x].objects[1].node)
        BY <2>5, <4>1, <4>4 DEF HandleOK
      <4> QED BY <4>3, <4>5 DEF HandleOK
    <3> QED BY <3>1, <3>2
  <2> QED BY <2>7, <2>8 DEF HandlesOK
<1> QED
  <2>1. \/ y.objects = <<>> /\ r.refs = s.refs
        \/ \E u \in Object : y.objects = <<u>> /\ u.type = "BINDER" /\ r.refs = s.refs
        \/ \E u \in Object : /\ y.objects = <<u>> /\ u.type = "HANDLE" /\ u.desc \in Desc
                             /\ HandleGot(s, r, q, u.desc, u.node, u.strong)
    BY DEF Sent
  <2> QED BY <1>1, <1>2, <2>1, NoHandle

\* A buffer is freed.
LEMMA HandlesFreed ==
    ASSUME NEW s \in DriverRec, NEW r, NEW B, HandlesOK(s, B),
           NEW b \in Buf, NEW y, y # NULL, y.proc \in Proc,
           NEW C, C[b] = NULL, Filled(C, B, b, y), Given(s, r, y.objects, y.proc)
    PROVE  HandlesOK(r, C)
<1>1. \A p, d : HasHandle(y, p, d) \/ (SameHandles(B, C, p, d) /\ SameHandles(C, B, p, d))
  BY OneBuffer
<1>2. CASE r.refs = s.refs /\ \A p, d : ~HasHandle(y, p, d)
  <2>1. \A p \in Proc, d \in Desc : HandleOK(r, C, p, d)
    BY <1>1, <1>2, HandleSame DEF HandlesOK
  <2> QED BY <2>1 DEF HandlesOK
<1>3. CASE \E u \in Object : /\ y.objects = <<u>> /\ u.type = "HANDLE" /\ u.desc \in Desc
                             /\ HandleLost(s, r, y.proc, u.desc, u.strong)
  <2>1. PICK u \in Object : /\ y.objects = <<u>> /\ u.type = "HANDLE" /\ u.desc \in Desc
                            /\ HandleLost(s, r, y.proc, u.desc, u.strong)
    BY <1>3
  <2>0. u.strong \in BOOLEAN
    BY DEF Object
  <2>2. PICK p, d, strong : p = y.proc /\ d = u.desc /\ strong = u.strong
    OBVIOUS
  <2>3. p \in Proc /\ d \in Desc /\ strong \in BOOLEAN /\ HandleLost(s, r, p, d, strong)
    BY <2>0, <2>1, <2>2
  <2>4. \A q, e : HasHandle(y, q, e) <=> p = q /\ d = e /\ strong
    BY <2>1, <2>2, HandleIn
  <2>5. HandleOK(s, C, p, d) /\ Backed(s.refs[p][d], Cardinality(HandlesOf(C, p, d)) + One(strong))
    <3>0. HandleOK(s, B, p, d)
      BY <2>3 DEF HandlesOK
    <3>1. PICK c \in Nat : c = Cardinality(HandlesOf(C, p, d))
      BY HandlesFinite
    <3>2. CASE ~strong
      <4>1. One(strong) = 0 /\ SameHandles(B, C, p, d)
        BY <1>1, <2>4, <3>2 DEF One
      <4>2. HandleOK(s, C, p, d)
        BY <3>0, <4>1, HandleSame
      <4>3. Backed(s.refs[p][d], c)
        BY <3>1, <4>2 DEF HandleOK
      <4>4. c + 0 = c
        OBVIOUS
      <4> QED BY <3>1, <4>1, <4>2, <4>3, <4>4
    <3>3. CASE strong
      <4>1. /\ Cardinality(HandlesOf(B, p, d)) = c + 1
            /\ \A x \in HandlesOf(C, p, d) : x \in HandlesOf(B, p, d) /\ B[x] = C[x]
        <5>1. HasHandle(y, p, d)
          BY <2>4, <3>3
        <5>2. OneHandle(C, B, b, p, d)
          BY <5>1, OneBuffer
        <5> QED BY <3>1, <5>2 DEF OneHandle
      <4>2. Backed(s.refs[p][d], c + 1)
        BY <3>0, <4>1 DEF HandleOK
      <4>3. One(strong) = 1
        BY <3>3 DEF One
      <4>4. Backed(s.refs[p][d], c)
        <5>1. c + 1 # 0 /\ s.refs[p][d] # NULL /\ s.refs[p][d].strong >= c + 1
          BY <4>2 DEF Backed
        <5>2. s.refs[p][d].strong \in Nat
          BY <2>3, <5>1, RefType
        <5>3. s.refs[p][d].strong >= c
          BY <5>1, <5>2
        <5> QED BY <5>1, <5>3 DEF Backed
      <4>5. \A x \in HandlesOf(C, p, d) : Names(s.refs[p][d], C[x].objects[1].node)
        BY <3>0, <4>1 DEF HandleOK
      <4> QED BY <3>1, <4>2, <4>3, <4>4, <4>5 DEF HandleOK
    <3> QED BY <3>2, <3>3
  <2>6. HandlesOK(s, C)
    <3>1. ASSUME NEW q \in Proc, NEW e \in Desc, q # p \/ e # d
          PROVE  HandleOK(s, C, q, e)
      <4>1. SameHandles(B, C, q, e) /\ HandleOK(s, B, q, e)
        BY <1>1, <2>4, <3>1 DEF HandlesOK
      <4> QED BY <4>1, HandleSame
    <3> QED BY <2>5, <3>1 DEF HandlesOK
  <2> QED BY <2>3, <2>5, <2>6, HandleLostOK
<1> QED
  <2>1. \/ y.objects = <<>> /\ r.refs = s.refs
        \/ \E u \in Object : y.objects = <<u>> /\ u.type = "BINDER" /\ r.refs = s.refs
        \/ \E u \in Object : /\ y.objects = <<u>> /\ u.type = "HANDLE" /\ u.desc \in Desc
                             /\ HandleLost(s, r, y.proc, u.desc, u.strong)
    BY DEF Given
  <2> QED BY <1>2, <1>3, <2>1, NoHandle

\* A transaction that is refused gives back the handle that it made.
LEMMA HandlesRefused ==
    ASSUME NEW s \in DriverRec, NEW t \in DriverRec, NEW r, NEW B, HandlesOK(s, B),
           NEW q \in Proc, NEW objects, NEW out, NEW L,
           Sent(s, t, objects, out, q, L), Given(t, r, out, q)
    PROVE  HandlesOK(r, B)
<1>1. CASE t.refs = s.refs /\ r.refs = t.refs
  BY <1>1, HandlesSame
<1>2. CASE \E u \in Object : /\ out = <<u>> /\ u.type = "HANDLE" /\ u.desc \in Desc
                             /\ HandleGot(s, t, q, u.desc, u.node, u.strong)
  <2>1. PICK u \in Object : /\ out = <<u>> /\ u.type = "HANDLE" /\ u.desc \in Desc
                            /\ HandleGot(s, t, q, u.desc, u.node, u.strong)
    BY <1>2
  <2>2. HandleLost(t, r, q, u.desc, u.strong)
    BY <2>1 DEF Given
  <2>3. u.strong \in BOOLEAN
    BY DEF Object
  <2>4. PICK d, n, strong : d = u.desc /\ n = u.node /\ strong = u.strong
    OBVIOUS
  <2>5. d \in Desc /\ strong \in BOOLEAN /\ HandleGot(s, t, q, d, n, strong)
    BY <2>1, <2>3, <2>4
  <2>6. HandleLost(t, r, q, d, strong)
    BY <2>2, <2>4
  <2>7. HandleOK(s, B, q, d)
    BY <2>5 DEF HandlesOK
  <2>8. /\ HandleOK(t, B, q, d)
        /\ Backed(t.refs[q][d], Cardinality(HandlesOf(B, q, d)) + One(strong))
    BY <2>5, <2>7, HandleGotOK
  <2>9. HandlesOK(t, B)
    BY <2>5, <2>8, HandlesOne DEF HandleGot
  <2> QED BY <2>5, <2>6, <2>8, <2>9, HandleLostOK
<1> QED
  <2>1. \/ t.refs = s.refs /\ (out = <<>> \/ \E u \in Object : out = <<u>> /\ u.type = "BINDER")
        \/ \E u \in Object : /\ out = <<u>> /\ u.type = "HANDLE" /\ u.desc \in Desc
                             /\ HandleGot(s, t, q, u.desc, u.node, u.strong)
    BY DEF Sent
  <2>2. out = <<>> \/ (\E u \in Object : out = <<u>> /\ u.type = "BINDER") => r.refs = t.refs
    BY DEF Given
  <2> QED BY <1>1, <1>2, <2>1, <2>2

\* A program claims a handle.
LEMMA HandlesInc ==
    ASSUME NEW s \in DriverRec, NEW r, NEW B, HandlesOK(s, B), NEW p \in Proc, NEW d \in Desc,
           s.refs[p][d] # NULL, NEW strong \in BOOLEAN, RefInc(s, r, p, d, strong, NULL)
    PROVE  HandlesOK(r, B)
<1>1. PICK c \in Nat : c = Cardinality(HandlesOf(B, p, d))
  BY HandlesFinite
<1>2. HandleOK(s, B, p, d) /\ Backed(s.refs[p][d], c)
  BY <1>1 DEF HandlesOK, HandleOK
<1>3. Backed(r.refs[p][d], c)
  BY <1>2, BackedInc
<1>4. OtherRefs(s, r, p, d) /\ r.refs[p][d].node = s.refs[p][d].node
  BY DEF RefInc, Inced, OtherRefs
<1>5. HandleOK(r, B, p, d)
  BY <1>1, <1>2, <1>3, <1>4, HandleNamed
<1> QED BY <1>4, <1>5, HandlesOne

\* A reference is made for it.
LEMMA HandlesGot ==
    ASSUME NEW s \in DriverRec, NEW r, NEW B, HandlesOK(s, B), NEW p \in Proc, NEW d, NEW n,
           GotRef(s, r, p, n, d)
    PROVE  HandlesOK(r, B)
<1>1. d \in Desc /\ OtherRefs(s, r, p, d) /\ r.refs[p][d] # NULL
  BY DEF GotRef
<1>2. CASE r = s
  BY <1>2
<1>3. CASE s.refs[p][d] = NULL
  <2>1. HandleOK(s, B, p, d)
    BY <1>1 DEF HandlesOK
  <2>2. Cardinality(HandlesOf(B, p, d)) = 0
    BY <1>3, <2>1 DEF HandleOK, Backed
  <2>3. HandlesOf(B, p, d) = {}
    BY <2>2, NoHandles
  <2>4. HandleOK(r, B, p, d)
    BY <2>2, <2>3 DEF HandleOK, Backed
  <2> QED BY <1>1, <2>4, HandlesOne
<1> QED BY <1>2, <1>3 DEF GotRef

\* A program gives back a claim that is not a buffer's.
LEMMA HandlesDec ==
    ASSUME NEW s \in DriverRec, NEW r, NEW B, HandlesOK(s, B), NEW p \in Proc, NEW d \in Desc,
           s.refs[p][d] # NULL, NEW strong \in BOOLEAN, RefDec(s, r, p, d, strong),
           strong => s.refs[p][d].strong > Cardinality(HandlesOf(B, p, d))
    PROVE  HandlesOK(r, B)
<1>1. PICK c \in Nat : c = Cardinality(HandlesOf(B, p, d))
  BY HandlesFinite
<1>2. HandleOK(s, B, p, d)
  BY DEF HandlesOK
<1>3. s.refs[p][d].strong \in Nat
  BY RefType
<1>4. Backed(s.refs[p][d], c + One(strong))
  <2>1. CASE strong
    BY <1>1, <1>3, <2>1 DEF Backed, One
  <2>2. CASE ~strong
    BY <1>1, <1>2, <2>2 DEF HandleOK, Backed, One
  <2> QED BY <2>1, <2>2
<1>5. HandleLost(s, r, p, d, strong)
  BY DecLost
<1> QED BY <1>1, <1>4, <1>5, HandleLostOK

\* p ends, and its buffers go.
LEMMA HandlesEnd ==
    ASSUME NEW s, NEW r, NEW B, HandlesOK(s, B), NEW p \in Proc, OnlyRefs(s, r, p),
           NEW C, Vacated(B, C, p)
    PROVE  HandlesOK(r, C)
<1>1. ASSUME NEW q \in Proc, NEW e \in Desc, q # p
      PROVE  HandleOK(r, C, q, e)
  <2>1. SameHandles(B, C, q, e)
    BY <1>1 DEF Vacated, SameHandles, HasHandle
  <2>2. r.refs[q][e] = s.refs[q][e] /\ HandleOK(s, B, q, e)
    BY <1>1 DEF OnlyRefs, HandlesOK
  <2> QED BY <2>1, <2>2, HandleSame
<1>2. ASSUME NEW e \in Desc
      PROVE  HandleOK(r, C, p, e)
  <2>1. HandlesOf(C, p, e) = {}
    BY DEF Vacated, HandlesOf, HasHandle
  <2>2. Cardinality(HandlesOf(C, p, e)) = 0
    BY <2>1, FS_EmptySet
  <2> QED BY <2>1, <2>2 DEF HandleOK, Backed
<1> QED BY <1>1, <1>2 DEF HandlesOK

\* Objects are sent as strongly as programs may.
KindsOK(B) == \A b \in Buf : B[b] # NULL /\ B[b].objects # <<>> => B[b].objects[1].strong \in Kinds

\* A transaction keeps it so.
LEMMA KindsSent ==
    ASSUME NEW B, KindsOK(B), NEW b \in Buf, NEW y, NEW C, Filled(B, C, b, y),
           NEW s, NEW r, NEW objects, NEW q, NEW L, Sent(s, r, objects, y.objects, q, L),
           objects = <<>> \/ objects[1].strong \in Kinds
    PROVE  KindsOK(C)
<1>1. y.objects # <<>> => y.objects[1].strong \in Kinds
  <2>1. y.objects = <<>> \/ \E o, u : objects = <<o>> /\ y.objects = <<u>> /\ u.strong = o.strong
    BY DEF Sent
  <2> QED BY <2>1
<1>2. C[b] = y /\ \A x \in Buf : x # b => C[x] = B[x]
  BY DEF Filled
<1> QED BY <1>1, <1>2 DEF KindsOK

\* Fewer buffers keep it so.
LEMMA KindsFewer ==
    ASSUME NEW B, KindsOK(B), NEW C, \A b \in Buf : C[b] = B[b] \/ C[b] = NULL
    PROVE  KindsOK(C)
BY DEF KindsOK

\* The handles in p's buffers are counted by the buffers that have one.
LEMMA HandlesCount ==
    ASSUME BufsOK(buf, alive), NEW p \in Proc, NEW d \in Desc
    PROVE  Cardinality(Handles(p, d, TRUE)) = Cardinality(HandlesOf(buf, p, d))
<1> PICK S : S = HandlesOf(buf, p, d)
  OBVIOUS
<1> PICK T : T = Handles(p, d, TRUE)
  OBVIOUS
<1>1. IsFiniteSet(S)
  BY HandlesFinite
<1>2. ASSUME NEW b \in Buf, buf[b] # NULL
      PROVE  \/ buf[b].objects = <<>>
             \/ \E u \in Object : buf[b].objects = <<u>>
  BY <1>2 DEF BufsOK, BufOK, BufObjects
<1>3. ASSUME NEW x
      PROVE  x \in T <=> \E b \in S : x = <<b, 1>>
  <2>1. x \in T <=> \E b \in Buf : /\ buf[b] # NULL /\ buf[b].proc = p
                                   /\ \E i \in DOMAIN buf[b].objects :
                                         /\ x = <<b, i>>
                                         /\ buf[b].objects[i].type = "HANDLE"
                                         /\ buf[b].objects[i].desc = d
                                         /\ buf[b].objects[i].strong = TRUE
    BY DEF Handles
  <2>2. ASSUME NEW b \in Buf, buf[b] # NULL, NEW i
        PROVE  i \in DOMAIN buf[b].objects <=> i = 1 /\ buf[b].objects # <<>>
    BY <1>2, <2>2
  <2>3. ASSUME NEW b \in Buf, buf[b] # NULL, buf[b].objects # <<>>
        PROVE  buf[b].objects[1].strong \in BOOLEAN
    <3>1. PICK u \in Object : buf[b].objects = <<u>>
      BY <1>2, <2>3
    <3>2. buf[b].objects[1] = u
      BY <3>1
    <3> QED BY <3>2 DEF Object
  <2>4. x \in T <=> \E b \in Buf : /\ x = <<b, 1>> /\ buf[b] # NULL /\ buf[b].proc = p
                                   /\ buf[b].objects # <<>>
                                   /\ buf[b].objects[1].type = "HANDLE"
                                   /\ buf[b].objects[1].desc = d
                                   /\ buf[b].objects[1].strong = TRUE
    BY <2>1, <2>2
  <2> QED BY <2>3, <2>4 DEF HandlesOf, HasHandle
<1> QED BY <1>1, <1>3, Paired

\* Every handle names its object, every reference counts the buffers that it lies in.
HandlesInv == HandlesOK(Driver, buf) /\ KindsOK(buf)

-----------------------------------------------------------------------------
(* The steps *)

\* A step of the driver.
LEMMA Stepped ==
    ASSUME NEW r, NEW C, NEW c, NEW A, Sound(r, C, c, A), Becomes(r),
           buf' = C, cmd' = c, alive' = A
    PROVE  CountsInv'
<1>1. r \in DriverRec
  BY DEF Sound, Good
<1>2. Driver' = r
  BY <1>1, BecomesIs
<1> QED BY <1>2 DEF CountsInv

\* What it means for the handles.
LEMMA HandlesStepped ==
    ASSUME NEW r \in DriverRec, NEW C, HandlesOK(r, C), KindsOK(C), Becomes(r), buf' = C
    PROVE  HandlesInv'
<1>1. Driver' = r
  BY BecomesIs
<1> QED BY <1>1 DEF HandlesInv

\* A step that touches neither references nor buffers.
LEMMA HandlesStay ==
    ASSUME HandlesInv, refs' = refs, buf' = buf
    PROVE  HandlesInv'
<1>1. Driver'.refs = Driver.refs
  BY DEF Driver
<1>2. PICK s, r : s = Driver /\ r = Driver'
  OBVIOUS
<1>3. HandlesOK(s, buf) /\ r.refs = s.refs
  BY <1>1, <1>2 DEF HandlesInv
<1>4. HandlesOK(r, buf)
  BY <1>3, HandlesSame
<1> QED BY <1>2, <1>4 DEF HandlesInv

\* A transaction that arrives.
LEMMA SendStep ==
    ASSUME CountsInv, NEW th \in Thread, NEW g \in Targets(th), NEW objects \in Parcels(th),
           NEW b \in Buf, Send(th, g[1], g[2], objects, b)
    PROVE  CountsInv' /\ (HandlesInv => HandlesInv')
<1> PICK s : s = Driver
  OBVIOUS
<1> PICK B : B = buf
  OBVIOUS
<1> PICK A : A = alive
  OBVIOUS
<1> PICK c : c = cmd
  OBVIOUS
<1> PICK n, q : n = g[1] /\ q = g[2]
  OBVIOUS
<1> PICK t : t = Translated(WithTarget(s, n), objects, th, q)
  OBVIOUS
<1>1. Sound(s, B, c, A)
  BY DEF CountsInv
<1>2. /\ MayGo(s, Owners(A), n)
      /\ n \in Node \cup {NULL} /\ (n # NULL => Owner[n] = q)
      /\ q \in A
  BY TargetsOK
<1>3. ProcOf[th] \in alive /\ B[b] = NULL
  BY DEF Send, Free
<1>4. objects = <<>> \/ \E o : objects = <<o>> /\ MayPut(s, Owners(A), o, th)
  BY <1>3, ParcelsOK
<1>5. PICK y : BufOf(y, q, n, t.out)
  BY DEF BufOf
<1>6. PICK r : Put(t.s, r, th, COMPLETE)
  BY DEF Put
<1>7. PICK C : Wrapped(B, C, b, y)
  BY DEF Wrapped
<1>8. Sound(r, C, c, A) /\ r.refs = t.s.refs /\ Sent(s, t.s, objects, t.out, q, Owners(A))
  <2>1. MaySend(s, Owners(A), n, q, A, objects, th)
    BY <1>2, <1>4 DEF MaySend
  <2> QED BY <1>1, <1>3, <1>5, <1>6, <1>7, <2>1, SendSound
<1>9. Becomes(r) /\ buf' = C /\ cmd' = c /\ alive' = A
  BY <1>5, <1>6, <1>7 DEF Send, Put, BufOf, Wrapped
<1>10. ASSUME HandlesOK(s, B), KindsOK(B)
       PROVE  HandlesOK(r, C) /\ KindsOK(C)
  <2>1. s \in DriverRec /\ q \in Proc /\ C[b] = y /\ Filled(B, C, b, y)
    <3>1. B \in [Buf -> BufRec \cup {NULL}]
      BY <1>1 DEF Sound, BufsOK
    <3>2. C[b] = y /\ \A x \in Buf : x # b => C[x] = B[x]
      BY <1>7, <3>1 DEF Wrapped
    <3>3. s \in DriverRec /\ q \in Proc
      BY <1>1, <1>2 DEF Sound, Good
    <3> QED BY <3>2, <3>3 DEF Filled
  <2>2. y.objects = t.out /\ y.proc = q /\ y # NULL
    <3>1. y.objects = t.out /\ y.proc = q
      BY <1>5 DEF BufOf
    <3>2. t.out \in Seq(Object)
      <4>1. t.out = <<>> \/ \E u \in Object : t.out = <<u>>
        BY <1>8 DEF Sent
      <4>2. \A u \in Object : <<u>> \in Seq(Object)
        OBVIOUS
      <4>3. <<>> \in Seq(Object)
        OBVIOUS
      <4> QED BY <4>1, <4>2, <4>3
    <3>3. y # NULL
      BY <1>2, <1>5, <2>1, <3>2, BufNotNull
    <3> QED BY <3>1, <3>3
  <2>3. HandlesOK(t.s, C)
    BY <1>3, <1>8, <1>10, <2>1, <2>2, HandlesSent
  <2>4. HandlesOK(r, C)
    BY <1>8, <2>3, HandlesSame
  <2>5. objects = <<>> \/ objects[1].strong \in Kinds
    <3>1. \A o \in Sendable(th) : o.strong \in Kinds
      BY DEF Sendable
    <3>2. objects = <<>> \/ \E o \in Sendable(th) : objects = <<o>>
      BY DEF Parcels
    <3> QED BY <3>1, <3>2
  <2>6. KindsOK(C)
    BY <1>8, <1>10, <2>1, <2>2, <2>5, KindsSent
  <2> QED BY <2>4, <2>6
<1>11. HandlesInv => HandlesInv'
  <2>1. r \in DriverRec
    BY <1>8 DEF Sound, Good
  <2> QED BY <1>9, <1>10, <2>1, HandlesStepped DEF HandlesInv
<1> QED BY <1>8, <1>9, <1>11, Stepped

\* One that is refused.
LEMMA SendRefusedStep ==
    ASSUME CountsInv, NEW th \in Thread, NEW g \in Targets(th), NEW objects \in Parcels(th),
           SendRefused(th, g[1], g[2], objects)
    PROVE  CountsInv' /\ (HandlesInv => HandlesInv')
<1> PICK s : s = Driver
  OBVIOUS
<1> PICK B : B = buf
  OBVIOUS
<1> PICK A : A = alive
  OBVIOUS
<1> PICK c : c = cmd
  OBVIOUS
<1> PICK n, q : n = g[1] /\ q = g[2]
  OBVIOUS
<1> PICK t : t = Translated(WithTarget(s, n), objects, th, q)
  OBVIOUS
<1> PICK r : r = binder_transaction_buffer_release(t.s, q, n, t.out)
  OBVIOUS
<1>1. Sound(s, B, c, A)
  BY DEF CountsInv
<1>2. /\ MayGo(s, Owners(A), n)
      /\ n \in Node \cup {NULL}
      /\ q \in A
  BY TargetsOK
<1>3. ProcOf[th] \in alive
  BY DEF SendRefused, Free
<1>4. objects = <<>> \/ \E o : objects = <<o>> /\ MayPut(s, Owners(A), o, th)
  BY <1>3, ParcelsOK
<1>5. /\ Sound(r, B, c, A) /\ t.s \in DriverRec
      /\ Sent(s, t.s, objects, t.out, q, Owners(A)) /\ Given(t.s, r, t.out, q)
  BY <1>1, <1>2, <1>4, RefusedSound
<1>6. Becomes(r) /\ buf' = B /\ cmd' = c /\ alive' = A
  BY DEF SendRefused, userVars
<1>7. HandlesInv => HandlesInv'
  <2>0. Sound(r, B, c, A)
    BY <1>5
  <2>1. s \in DriverRec /\ r \in DriverRec /\ q \in Proc
    BY <1>1, <1>2, <2>0 DEF Sound, Good
  <2>2. HandlesOK(s, B) => HandlesOK(r, B)
    BY <1>5, <2>1, HandlesRefused
  <2> QED BY <1>6, <2>1, <2>2, HandlesStepped DEF HandlesInv
<1> QED BY <1>5, <1>6, <1>7, Stepped

\* One there was no memory for.
LEMMA SendNoRefStep ==
    ASSUME CountsInv, NEW th \in Thread, NEW g \in Targets(th), NEW m \in Node,
           SendNoRef(th, g[1], g[2], m)
    PROVE  CountsInv' /\ refs' = refs
<1> PICK s : s = Driver
  OBVIOUS
<1> PICK B : B = buf
  OBVIOUS
<1> PICK A : A = alive
  OBVIOUS
<1> PICK c : c = cmd
  OBVIOUS
<1> PICK n, q : n = g[1] /\ q = g[2]
  OBVIOUS
<1> PICK w : w = WithTarget(s, n)
  OBVIOUS
<1>1. Sound(s, B, c, A) /\ s.refs = refs
  BY DEF CountsInv, Driver
<1>2. /\ MayGo(s, Owners(A), n)
      /\ n \in Node \cup {NULL}
      /\ q \in A
  BY TargetsOK
<1>3. ProcOf[th] \in A /\ Owner[m] = ProcOf[th] /\ m \notin CtxNode
  BY DEF SendNoRef, Free
<1>4. PICK x : NodeMade(w, x, m, th)
  BY DEF NodeMade
<1>5. PICK r : r = binder_transaction_buffer_release(x, q, n, <<>>)
  OBVIOUS
<1>6. Sound(r, B, c, A) /\ r.refs = s.refs
  BY <1>1, <1>2, <1>3, <1>4, <1>5, NoRefSound
<1>7. Becomes(r) /\ buf' = B /\ cmd' = c /\ alive' = A
  BY <1>4, <1>5 DEF SendNoRef, NodeMade, userVars
<1>8. refs' = refs
  BY <1>1, <1>6, <1>7 DEF Becomes
<1> QED BY <1>6, <1>7, <1>8, Stepped

\* A buffer that is freed.
LEMMA FreeBufferStep ==
    ASSUME CountsInv, NEW th \in Thread, NEW b \in Buf, FreeBuffer(th, b)
    PROVE  CountsInv' /\ (HandlesInv => HandlesInv')
<1> PICK s : s = Driver
  OBVIOUS
<1> PICK B : B = buf
  OBVIOUS
<1> PICK A : A = alive
  OBVIOUS
<1> PICK c : c = cmd
  OBVIOUS
<1> PICK y : y = B[b]
  OBVIOUS
<1> PICK r : r = binder_transaction_buffer_release(s, y.proc, y.target_node, y.objects)
  OBVIOUS
<1>1. Sound(s, B, c, A) /\ y # NULL
  BY DEF CountsInv, FreeBuffer
<1>2. PICK C : C = [B EXCEPT ![b] = NULL]
  OBVIOUS
<1>3. Sound(r, C, c, A) /\ Given(s, r, y.objects, y.proc)
  <2>1. Sound(r, C, c, A)
    BY <1>1, <1>2, FreeSound
  <2>2. Given(s, r, y.objects, y.proc)
    BY <1>1, <1>2, FreeSound
  <2> QED BY <2>1, <2>2
<1>4. Becomes(r) /\ buf' = C /\ cmd' = c /\ alive' = A
  BY <1>2 DEF FreeBuffer, userVars
<1>5. ASSUME HandlesOK(s, B), KindsOK(B)
      PROVE  HandlesOK(r, C) /\ KindsOK(C)
  <2>1. s \in DriverRec /\ B \in [Buf -> BufRec \cup {NULL}] /\ y.proc \in Proc
    <3>1. A \subseteq Proc /\ BufsOK(B, A) /\ s \in DriverRec
      BY <1>1 DEF Sound, Good
    <3>2. BufOK(y, A)
      BY <1>1, <3>1 DEF BufsOK
    <3>3. B \in [Buf -> BufRec \cup {NULL}]
      BY <3>1 DEF BufsOK
    <3> QED BY <3>1, <3>2, <3>3 DEF BufOK
  <2>2. C[b] = NULL /\ \A x \in Buf : x # b => C[x] = B[x]
    BY <1>2, <2>1
  <2>3. Filled(C, B, b, y)
    BY <2>2 DEF Filled
  <2>4. HandlesOK(r, C)
    BY <1>1, <1>3, <1>5, <2>1, <2>2, <2>3, HandlesFreed
  <2>5. KindsOK(C)
    BY <1>5, <2>2, KindsFewer
  <2> QED BY <2>4, <2>5
<1>6. HandlesInv => HandlesInv'
  <2>1. r \in DriverRec
    BY <1>3 DEF Sound, Good
  <2> QED BY <1>4, <1>5, <2>1, HandlesStepped DEF HandlesInv
<1> QED BY <1>3, <1>4, <1>6, Stepped

\* A program claims a handle.
LEMMA AcquireStep ==
    ASSUME CountsInv, NEW th \in Thread, NEW d \in Desc, NEW strong \in Kinds,
           Acquire(th, d, strong)
    PROVE  CountsInv' /\ (HandlesInv => HandlesInv')
<1> PICK s : s = Driver
  OBVIOUS
<1> PICK B : B = buf
  OBVIOUS
<1> PICK A : A = alive
  OBVIOUS
<1> PICK c : c = cmd
  OBVIOUS
<1> PICK p : p = ProcOf[th]
  OBVIOUS
<1> PICK r : r = binder_inc_ref(s, p, d, strong, NULL)
  OBVIOUS
<1>1. Sound(s, B, c, A) /\ s.refs = refs /\ p \in Proc /\ strong \in BOOLEAN
  BY RefsAssumption DEF CountsInv, Driver
<1>2. s.refs[p][d] # NULL /\ (strong => s.refs[p][d].strong > 0)
  <2>1. refs[p][d] # NULL /\ (strong => refs[p][d].strong \in 1 .. MaxRef - 1)
    BY DEF Acquire
  <2> QED BY <1>1, <2>1
<1>3. Sound(r, B, c, A) /\ RefInc(s, r, p, d, strong, NULL)
  BY <1>1, <1>2, AcquireSound
<1>4. Becomes(r) /\ buf' = B /\ cmd' = c /\ alive' = A
  BY DEF Acquire, userVars
<1>5. HandlesInv => HandlesInv'
  <2>1. s \in DriverRec /\ r \in DriverRec
    BY <1>1, <1>3 DEF Sound, Good
  <2>2. HandlesOK(s, B) => HandlesOK(r, B)
    BY <1>1, <1>2, <1>3, <2>1, HandlesInc
  <2> QED BY <1>4, <2>1, <2>2, HandlesStepped DEF HandlesInv
<1> QED BY <1>3, <1>4, <1>5, Stepped

\* And handle 0.
LEMMA AcquireContextManagerStep ==
    ASSUME CountsInv, NEW th \in Thread, NEW strong \in Kinds, AcquireContextManager(th, strong)
    PROVE  CountsInv' /\ (HandlesInv => HandlesInv')
<1> PICK s : s = Driver
  OBVIOUS
<1> PICK B : B = buf
  OBVIOUS
<1> PICK A : A = alive
  OBVIOUS
<1> PICK c : c = cmd
  OBVIOUS
<1> PICK p : p = ProcOf[th]
  OBVIOUS
<1> PICK d : d = DescFor(s, p, s.ctx)
  OBVIOUS
<1> PICK g : g = binder_get_ref_for_node(s, p, s.ctx)
  OBVIOUS
<1> PICK r : r = binder_inc_ref(g, p, d, strong, NULL)
  OBVIOUS
<1>1. Sound(s, B, c, A) /\ s.ctx = ctx /\ p \in A /\ strong \in BOOLEAN
  BY RefsAssumption DEF CountsInv, Driver, AcquireContextManager, Free
<1>2. s.ctx # NULL
  BY <1>1 DEF AcquireContextManager
<1>3. Sound(r, B, c, A) /\ GotRef(s, g, p, s.ctx, d) /\ RefInc(g, r, p, d, strong, NULL)
  BY <1>1, <1>2, AcquireManagerSound
<1>4. Becomes(r) /\ buf' = B /\ cmd' = c /\ alive' = A
  BY <1>1 DEF AcquireContextManager, userVars
<1>5. HandlesInv => HandlesInv'
  <2>1. /\ s \in DriverRec /\ r \in DriverRec /\ p \in Proc
        /\ g \in DriverRec /\ d \in Desc /\ g.refs[p][d] # NULL
    BY <1>1, <1>3 DEF Sound, Good, GotRef
  <2>2. HandlesOK(s, B) => HandlesOK(g, B)
    BY <1>3, <2>1, HandlesGot
  <2>3. HandlesOK(g, B) => HandlesOK(r, B)
    BY <1>1, <1>3, <2>1, HandlesInc
  <2> QED BY <1>4, <2>1, <2>2, <2>3, HandlesStepped DEF HandlesInv
<1> QED BY <1>3, <1>4, <1>5, Stepped

\* It gives a handle back.
LEMMA ReleaseStep ==
    ASSUME CountsInv, NEW th \in Thread, NEW d \in Desc, NEW strong \in Kinds,
           Release(th, d, strong)
    PROVE  CountsInv' /\ (HandlesInv => HandlesInv')
<1> PICK s : s = Driver
  OBVIOUS
<1> PICK B : B = buf
  OBVIOUS
<1> PICK A : A = alive
  OBVIOUS
<1> PICK c : c = cmd
  OBVIOUS
<1> PICK p : p = ProcOf[th]
  OBVIOUS
<1> PICK r : r = binder_dec_ref(s, p, d, strong)
  OBVIOUS
<1>1. Sound(s, B, c, A) /\ s.refs = refs /\ p \in Proc /\ strong \in BOOLEAN
  BY RefsAssumption DEF CountsInv, Driver
<1>2. s.refs[p][d] # NULL
  BY <1>1 DEF Release
<1>3. Sound(r, B, c, A) /\ RefDec(s, r, p, d, strong)
  BY <1>1, <1>2, ReleaseSound
<1>4. Becomes(r) /\ buf' = B /\ cmd' = c /\ alive' = A
  BY DEF Release, userVars
<1>5. strong => s.refs[p][d].strong > Cardinality(HandlesOf(B, p, d))
  <2>1. BufsOK(buf, alive)
    BY <1>1 DEF Sound
  <2>2. Cardinality(Handles(p, d, TRUE)) = Cardinality(HandlesOf(B, p, d))
    BY <1>1, <2>1, HandlesCount
  <2>3. strong => refs[p][d].strong > Cardinality(Handles(p, d, TRUE))
    BY DEF Release
  <2> QED BY <1>1, <2>2, <2>3
<1>6. HandlesInv => HandlesInv'
  <2>1. s \in DriverRec /\ r \in DriverRec
    BY <1>1, <1>3 DEF Sound, Good
  <2>2. HandlesOK(s, B) => HandlesOK(r, B)
    BY <1>1, <1>2, <1>3, <1>5, <2>1, HandlesDec
  <2> QED BY <1>4, <2>1, <2>2, HandlesStepped DEF HandlesInv
<1> QED BY <1>3, <1>4, <1>6, Stepped

\* A process makes its object the context manager.
LEMMA SetContextMgrStep ==
    ASSUME CountsInv, NEW n \in CtxNode, SetContextMgr(n)
    PROVE  CountsInv' /\ refs' = refs
<1> PICK s : s = Driver
  OBVIOUS
<1> PICK B : B = buf
  OBVIOUS
<1> PICK A : A = alive
  OBVIOUS
<1> PICK c : c = cmd
  OBVIOUS
<1>1. Sound(s, B, c, A) /\ s.refs = refs
  BY DEF CountsInv, Driver
<1>2. Owner[n] \in A /\ s.ctx = NULL /\ s.node[n] = NULL
  BY DEF SetContextMgr, Driver
<1>3. PICK y : Manager(y, n)
  BY DEF Manager
<1>4. PICK w : Wrote(s, w, n, y)
  BY DEF Wrote
<1>5. PICK r : Managed(w, r, n)
  BY DEF Managed
<1>6. Sound(r, B, c, A) /\ r.refs = s.refs
  BY <1>1, <1>2, <1>3, <1>4, <1>5, ManagerSound
<1>7. Becomes(r)
  <2>1. ctx' = n /\ node' = [node EXCEPT ![n] = y] /\ UNCHANGED <<refs, todo, proc_todo>>
    BY <1>3 DEF SetContextMgr, Manager
  <2>2. /\ s.node = node /\ s.refs = refs /\ s.todo = todo /\ s.proc_todo = proc_todo
        /\ s = [ctx |-> ctx, node |-> node, refs |-> refs, todo |-> todo, proc_todo |-> proc_todo]
    BY DEF Driver
  <2>3. /\ w.node = [node EXCEPT ![n] = y] /\ w.refs = refs
        /\ w.todo = todo /\ w.proc_todo = proc_todo
    BY <1>4, <2>2 DEF Wrote
  <2>4. /\ r.ctx = n /\ r.node = w.node /\ r.refs = w.refs
        /\ r.todo = w.todo /\ r.proc_todo = w.proc_todo
    BY <1>5 DEF Managed
  <2> QED BY <2>1, <2>3, <2>4 DEF Becomes
<1>8. buf' = B /\ cmd' = c /\ alive' = A /\ refs' = refs
  BY DEF SetContextMgr, userVars
<1> QED BY <1>6, <1>7, <1>8, Stepped

\* What there may be to tell.
LEMMA CommandKinds ==
    \A s, n : NodeCommand(s, n) \in {"INCREFS", "ACQUIRE", "RELEASE", "DECREFS", "none"}
BY DEF NodeCommand

\* A thread reads what there is to tell about a node.
LEMMA ReadNodeStep ==
    ASSUME CountsInv, NEW th \in Thread, ReadNode(th)
    PROVE  CountsInv' /\ refs' = refs
<1> PICK s : s = Driver
  OBVIOUS
<1> PICK B : B = buf
  OBVIOUS
<1> PICK A : A = alive
  OBVIOUS
<1> PICK c : c = cmd
  OBVIOUS
<1> PICK p : p = ProcOf[th]
  OBVIOUS
<1> PICK list : list = IF s.todo[th] # <<>> THEN s.todo[th] ELSE s.proc_todo[p]
  OBVIOUS
<1> PICK n : n = Head(list)
  OBVIOUS
<1>1. /\ Sound(s, B, c, A) /\ s.refs = refs /\ s.todo = todo /\ s.proc_todo = proc_todo
      /\ p \in Proc
  BY RefsAssumption DEF CountsInv, Driver
<1>2. /\ p \in A
      /\ list # <<>> /\ n # COMPLETE
      /\ Becomes(Told(Driver, n))
      /\ cmd' = [cmd EXCEPT ![th] = IF NodeCommand(Driver, n) = "none" THEN NoCmd
                                    ELSE [name |-> NodeCommand(Driver, n), node |-> n]]
      /\ buf' = B /\ alive' = A
  BY <1>1 DEF ReadNode, Free
<1>3. s \in DriverRec
  BY <1>1 DEF Sound, Good
<1>4. On(s.todo[th], n) \/ On(s.proc_todo[p], n)
  <2>1. CASE s.todo[th] # <<>>
    <3>1. s.todo[th] \in Seq(Node \cup {COMPLETE})
      BY <1>3, Types
    <3> PICK S : S = Node \cup {COMPLETE}
      OBVIOUS
    <3>2. On(s.todo[th], Head(s.todo[th]))
      BY <2>1, <3>1, HeadOn
    <3> QED BY <2>1, <3>2
  <2>2. CASE s.todo[th] = <<>>
    <3>1. s.proc_todo[p] \in Seq(Node) /\ s.proc_todo[p] # <<>>
      BY <1>1, <1>2, <1>3, <2>2, Types
    <3>2. On(s.proc_todo[p], Head(s.proc_todo[p]))
      BY <3>1, HeadOn
    <3> QED BY <2>2, <3>2
  <2> QED BY <2>1, <2>2
<1>5. n \in Node /\ Owner[n] = p /\ s.node[n] # NULL
  <2>1. \E BS, BW : Good(s, Owners(A), A, BS, BW)
    BY <1>1 DEF Sound
  <2> QED BY <1>2, <1>4, <2>1, ListedOwn
<1>6. Queued(s, n)
  BY <1>1, <1>4, QueuedOn
<1> PICK r : r = Told(s, n)
  OBVIOUS
<1> PICK x : x = IF NodeCommand(s, n) = "none" THEN NoCmd
                 ELSE [name |-> NodeCommand(s, n), node |-> n]
  OBVIOUS
<1>7. x \in Commands /\ (x.name # "none" => x.node = n)
  <2>1. NodeCommand(s, n) \in {"INCREFS", "ACQUIRE", "RELEASE", "DECREFS", "none"}
    BY CommandKinds
  <2>2. CASE NodeCommand(s, n) = "none"
    BY <2>2 DEF NoCmd, Commands
  <2>3. CASE NodeCommand(s, n) # "none"
    BY <1>5, <2>1, <2>3 DEF Commands
  <2> QED BY <2>2, <2>3
<1> PICK e : e = [c EXCEPT ![th] = x]
  OBVIOUS
<1>8. CmdsOK(c) /\ (x.name # "none" => x.node \in Node /\ Owner[x.node] = ProcOf[th])
  BY <1>1, <1>5, <1>7 DEF Sound
<1>9. CmdsOK(e)
  BY <1>7, <1>8, CmdSet
<1>10. Sound(r, B, e, A) /\ r.refs = s.refs
  BY <1>1, <1>2, <1>5, <1>9, <1>6, ToldSound
<1>11. Becomes(r) /\ cmd' = e
  BY <1>2
<1>12. refs' = refs
  BY <1>1, <1>10, <1>11 DEF Becomes
<1>13. buf' = B /\ alive' = A
  BY <1>2
<1> QED BY <1>10, <1>11, <1>12, <1>13, Stepped

\* A thread reads the completion of its transaction.
LEMMA ReadCompleteStep ==
    ASSUME CountsInv, NEW th \in Thread, ReadComplete(th)
    PROVE  CountsInv' /\ refs' = refs
<1> PICK s : s = Driver
  OBVIOUS
<1> PICK B : B = buf
  OBVIOUS
<1> PICK A : A = alive
  OBVIOUS
<1> PICK c : c = cmd
  OBVIOUS
<1>1. Sound(s, B, c, A) /\ s.todo = todo
  BY DEF CountsInv, Driver
<1>2. s.todo[th] # <<>> /\ s \in DriverRec
  BY <1>1 DEF ReadComplete, Sound, Good
<1>3. PICK r : Taken(s, r, th)
  BY DEF Taken
<1>4. /\ Fewer(s, r)
      /\ \A m \in Node : m # Head(s.todo[th]) /\ Queued(s, m) => Queued(r, m)
  BY <1>2, <1>3, TakenFewer
<1>5. Informs(s, r)
  <2>1. \A m \in Node : m # Head(s.todo[th])
    BY <1>1, RefsAssumption DEF ReadComplete
  <2> QED BY <1>4, <2>1, InformsFewer DEF Informs, Informed
<1>6. Sound(r, B, c, A)
  BY <1>1, <1>4, <1>5, FewerSound
<1>7. buf' = B /\ cmd' = c /\ alive' = A /\ refs' = refs
  BY DEF ReadComplete
<1>8. Becomes(r)
  BY <1>3 DEF ReadComplete, Taken, Driver, Becomes
<1> QED BY <1>6, <1>7, <1>8, Stepped

\* A thread answers a command.
LEMMA WriteDoneStep ==
    ASSUME CountsInv, NEW th \in Thread, WriteDone(th)
    PROVE  CountsInv' /\ refs' = refs
<1> PICK s : s = Driver
  OBVIOUS
<1> PICK B : B = buf
  OBVIOUS
<1> PICK A : A = alive
  OBVIOUS
<1> PICK c : c = cmd
  OBVIOUS
<1> PICK n : n = c[th].node
  OBVIOUS
<1>0. PICK strong \in BOOLEAN : strong = (c[th].name = "ACQUIRE_DONE")
  OBVIOUS
<1>1. Sound(s, B, c, A) /\ s.refs = refs /\ s.node = node /\ CmdsOK(c)
  BY DEF CountsInv, Driver, Sound
<1>2. /\ ProcOf[th] \in A
      /\ c[th].name \in {"INCREFS_DONE", "ACQUIRE_DONE"}
      /\ cmd' = [c EXCEPT ![th] = NoCmd]
      /\ buf' = B /\ alive' = A
  BY DEF WriteDone
<1>3. n \in Node /\ Owner[n] \in A
  BY <1>1, <1>2 DEF CmdsOK
<1>4. PICK w : Answered(s, w, n, strong)
  BY DEF Answered
<1>5. PICK known \in BOOLEAN : known = (s.node[n] # NULL /\ Open(s.node[n], strong))
  OBVIOUS
<1>6. PICK r : r = IF known THEN DecLocal(w, n, strong) ELSE s
  OBVIOUS
<1>7. Becomes(r)
  <2>1. CASE known
    BY <1>0, <1>1, <1>4, <1>5, <1>6, <2>1 DEF WriteDone, Answered, DecLocal, Open
  <2>2. CASE ~known
    BY <1>0, <1>1, <1>4, <1>5, <1>6, <2>2 DEF WriteDone, Answered, DecLocal, Open
  <2> QED BY <2>1, <2>2
<1>8. NoCmd \in Commands /\ NoCmd.name = "none"
  BY DEF NoCmd, Commands
<1> PICK x : x = NoCmd
  OBVIOUS
<1> PICK e : e = [c EXCEPT ![th] = x]
  OBVIOUS
<1>9. CmdsOK(e)
  BY <1>1, <1>8, CmdSet
<1>10. Sound(r, B, e, A) /\ r.refs = s.refs
  <2>1. CASE known
    <3>1. s.node[n] # NULL /\ Open(s.node[n], strong) /\ r = DecLocal(w, n, strong)
      BY <1>5, <1>6, <2>1
    <3> QED BY <1>1, <1>3, <1>4, <1>9, <3>1, AnsweredSound
  <2>2. CASE ~known
    BY <1>1, <1>6, <1>9, <2>2 DEF Sound
  <2> QED BY <2>1, <2>2
<1>11. refs' = refs
  BY <1>1, <1>7, <1>10 DEF Becomes
<1> QED BY <1>2, <1>7, <1>10, <1>11, Stepped

\* The driver's state does not change, and a thread's command may.
LEMMA ExecuteStep ==
    ASSUME CountsInv, NEW th \in Thread, Execute(th)
    PROVE  CountsInv' /\ refs' = refs
<1> PICK c : c = cmd
  OBVIOUS
<1> PICK n : n = c[th].node
  OBVIOUS
<1>1. CmdsOK(c)
  BY DEF CountsInv, Sound
<1>2. PICK x : /\ cmd' = [c EXCEPT ![th] = x]
               /\ c[th].name # "none"
               /\ \/ x = [name |-> "INCREFS_DONE", node |-> n]
                  \/ x = [name |-> "ACQUIRE_DONE", node |-> n]
                  \/ x = NoCmd
  BY DEF Execute
<1>3. n \in Node /\ Owner[n] = ProcOf[th]
  BY <1>1, <1>2 DEF CmdsOK
<1>4. x \in Commands /\ (x.name # "none" => x.node \in Node /\ Owner[x.node] = ProcOf[th])
  BY <1>2, <1>3 DEF Commands, NoCmd
<1>5. CmdsOK(cmd')
  BY <1>1, <1>2, <1>4, CmdSet
<1>6. Driver' = Driver /\ buf' = buf /\ alive' = alive /\ refs' = refs
  BY DEF Execute, driverVars, Driver
<1> QED BY <1>5, <1>6 DEF CountsInv, Sound

\* A thread exits.
LEMMA ThreadExitStep ==
    ASSUME CountsInv, NEW th \in Thread, ThreadExit(th)
    PROVE  CountsInv' /\ refs' = refs
<1> PICK s : s = Driver
  OBVIOUS
<1> PICK B : B = buf
  OBVIOUS
<1> PICK A : A = alive
  OBVIOUS
<1> PICK c : c = cmd
  OBVIOUS
<1>1. /\ Sound(s, B, c, A)
      /\ s = [ctx |-> ctx, node |-> node, refs |-> refs, todo |-> todo, proc_todo |-> proc_todo]
  BY DEF CountsInv, Driver
<1>2. s \in DriverRec
  BY <1>1 DEF Sound, Good
<1> PICK l : l = [s.todo EXCEPT ![th] = <<>>]
  OBVIOUS
<1> PICK r : r = [ctx |-> s.ctx, node |-> s.node, refs |-> s.refs, todo |-> l, proc_todo |-> s.proc_todo]
  OBVIOUS
<1>3. l \in [Thread -> Seq(Node \cup {COMPLETE})] /\ \A u \in Thread : l[u] = s.todo[u] \/ l[u] = <<>>
  <2>1. s.todo \in [Thread -> Seq(Node \cup {COMPLETE})] /\ <<>> \in Seq(Node \cup {COMPLETE})
    BY <1>2, Types
  <2> QED BY <2>1
<1>4. r \in DriverRec
  BY <1>2, <1>3, Types DEF DriverRec
<1>5. Emptied(s, r)
  BY <1>3, <1>4 DEF Emptied
<1>6. Exits # {}
  BY DEF ThreadExit
<1>7. Sound(r, B, c, A)
  BY <1>1, <1>5, <1>6, EmptiedFewer, FewerSound
<1>8. buf' = B /\ cmd' = c /\ alive' = A /\ refs' = refs
  BY DEF ThreadExit
<1>9. Becomes(r)
  BY <1>1 DEF ThreadExit, Becomes
<1> QED BY <1>7, <1>8, <1>9, Stepped

\* A process ends.
LEMMA DeferredReleaseStep ==
    ASSUME CountsInv, NEW p \in Proc, DeferredRelease(p)
    PROVE  CountsInv' /\ (HandlesInv => HandlesInv')
<1> PICK s : s = Driver
  OBVIOUS
<1> PICK B : B = buf
  OBVIOUS
<1> PICK A : A = alive
  OBVIOUS
<1> PICK c : c = cmd
  OBVIOUS
<1> PICK r : r = Workless(RefsDeleted(NodesReleased(ThreadsReleased(s, p), p), p), p)
  OBVIOUS
<1> PICK C : C = [b \in Buf |-> IF B[b] # NULL /\ B[b].proc = p THEN NULL ELSE B[b]]
  OBVIOUS
<1> PICK e : e = [th \in Thread |-> IF ProcOf[th] = p THEN NoCmd ELSE c[th]]
  OBVIOUS
<1> PICK W : W = A \ {p}
  OBVIOUS
<1>1. Sound(s, B, c, A) /\ p \in A
  <2>1. p \in A
    BY Zenon DEF DeferredRelease
  <2> QED BY <2>1 DEF CountsInv
<1>2. CmdsOK(e)
  <2>1. NoCmd \in Commands /\ NoCmd.name = "none"
    BY DEF NoCmd, Commands
  <2> QED BY <1>1, <2>1 DEF Sound, CmdsOK
<1>3. Sound(r, C, e, W) /\ OnlyRefs(s, r, p) /\ Vacated(B, C, p)
  BY <1>1, <1>2, EndSound
<1>4. Becomes(r) /\ buf' = C /\ cmd' = e /\ alive' = W
  BY Zenon DEF DeferredRelease, Workless
<1>5. ASSUME HandlesOK(s, B), KindsOK(B)
      PROVE  HandlesOK(r, C) /\ KindsOK(C)
  <2>1. HandlesOK(r, C)
    BY <1>3, <1>5, HandlesEnd
  <2>2. \A b \in Buf : C[b] = B[b] \/ C[b] = NULL
    BY <1>3 DEF Vacated
  <2> QED BY <1>5, <2>1, <2>2, KindsFewer
<1>6. HandlesInv => HandlesInv'
  <2>1. r \in DriverRec
    BY <1>3 DEF Sound, Good
  <2> QED BY <1>4, <1>5, <2>1, HandlesStepped DEF HandlesInv
<1> QED BY <1>3, <1>4, <1>6, Stepped

-----------------------------------------------------------------------------
(* The theorems *)

\* The first state is sound.
LEMMA CountsInit == Init => CountsInv
<1> SUFFICES ASSUME Init
             PROVE  CountsInv
  OBVIOUS
<1> PICK s : s = Driver
  OBVIOUS
<1>1. /\ s.ctx = NULL /\ s.node = [n \in Node |-> NULL]
      /\ s.refs = [p \in Proc |-> [d \in Desc |-> NULL]]
      /\ s.todo = [th \in Thread |-> <<>>] /\ s.proc_todo = [p \in Proc |-> <<>>]
      /\ s \in DriverRec
  <2>1. <<>> \in Seq(Node) /\ <<>> \in Seq(Node \cup {COMPLETE})
    OBVIOUS
  <2> QED BY <2>1 DEF Driver, Init, DriverRec
<1>2. alive = Proc /\ \A b \in Buf : buf[b] = NULL
  BY DEF Init
<1>3. BufsOK(buf, alive)
  BY DEF Init, BufsOK
<1>4. CmdsOK(cmd)
  BY DEF Init, CmdsOK, NoCmd, Commands
<1> PICK BS : BS = StrongClaims(buf)
  OBVIOUS
<1> PICK BW : BW = WeakClaims(buf)
  OBVIOUS
<1>5. ASSUME NEW n \in Node
      PROVE  BS[n] = 0 /\ BW[n] = 0
  <2>1. ASSUME NEW strong
        PROVE  BindersOf(buf, n, strong) = {}
    BY <1>2 DEF BindersOf, HasBinder
  <2>2. TargetOf(buf, n) = {}
    BY <1>2 DEF TargetOf, HasTarget
  <2>3. /\ Cardinality(BindersOf(buf, n, TRUE)) = 0 /\ Cardinality(BindersOf(buf, n, FALSE)) = 0
        /\ Cardinality(TargetOf(buf, n)) = 0
    BY <2>1, <2>2, FS_EmptySet
  <2>4. BS[n] = 0 + 0 /\ BW[n] = 0
    BY <2>3, Zenon DEF StrongClaims, WeakClaims
  <2> QED BY <2>4
<1>6. ASSUME NEW n \in Node
      PROVE  NodeOK(s, Owners(alive), n, BS[n], BW[n])
  <2>1. \A th \in Thread : ~On(s.todo[th], n) /\ Once(s.todo[th], n)
    BY <1>1, EmptyList
  <2>2. \A p \in Proc : ~On(s.proc_todo[p], n) /\ Once(s.proc_todo[p], n)
    BY <1>1, EmptyList
  <2>3. OwnLists(s, n)
    BY <2>1, <2>2 DEF OwnLists
  <2>4. ~Queued(s, n)
    BY <2>1, <2>2, QueuedOn
  <2>5. s.node[n] = NULL /\ RefsTo(s, n) = {}
    BY <1>1 DEF RefsTo
  <2> QED BY <1>5, <2>3, <2>4, <2>5 DEF NodeOK, NodeMid
<1>7. Good(s, Owners(alive), alive, BS, BW)
  BY <1>1, <1>2, <1>6 DEF Good
<1>8. Informed(s)
  BY <1>1 DEF Informed, Knows
<1> QED BY <1>2, <1>3, <1>4, <1>7, <1>8 DEF CountsInv, Sound

\* No step leads to a state that is not sound.
LEMMA CountsNext == CountsInv /\ [Next]_vars => CountsInv'
<1> SUFFICES ASSUME CountsInv, [Next]_vars
             PROVE  CountsInv'
  OBVIOUS
<1>1. ASSUME NEW th \in Thread, Transactions(th)
      PROVE  CountsInv'
  BY <1>1, SendStep, SendRefusedStep, SendNoRefStep DEF Transactions
<1>2. ASSUME NEW th \in Thread, NEW b \in Buf, FreeBuffer(th, b)
      PROVE  CountsInv'
  BY <1>2, FreeBufferStep
<1>3. ASSUME NEW th \in Thread, NEW d \in Desc, NEW strong \in Kinds,
             Acquire(th, d, strong) \/ Release(th, d, strong)
      PROVE  CountsInv'
  BY <1>3, AcquireStep, ReleaseStep
<1>4. ASSUME NEW th \in Thread, NEW strong \in Kinds, AcquireContextManager(th, strong)
      PROVE  CountsInv'
  BY <1>4, AcquireContextManagerStep
<1>5. ASSUME NEW th \in Thread, OwnerStep(th)
      PROVE  CountsInv'
  BY <1>5, ReadNodeStep, ReadCompleteStep, ExecuteStep, WriteDoneStep DEF OwnerStep
<1>6. ASSUME NEW th \in Thread, ThreadExit(th)
      PROVE  CountsInv'
  BY <1>6, ThreadExitStep
<1>7. ASSUME NEW n \in Node, ProcessPendingDerefs(n) \/ DropObject(n)
      PROVE  CountsInv'
  <2>1. Driver' = Driver /\ buf' = buf /\ cmd' = cmd /\ alive' = alive
    BY <1>7 DEF ProcessPendingDerefs, DropObject, driverVars, Driver
  <2> QED BY <2>1 DEF CountsInv
<1>8. ASSUME NEW n \in CtxNode, SetContextMgr(n)
      PROVE  CountsInv'
  BY <1>8, SetContextMgrStep
<1>9. ASSUME NEW p \in Proc, DeferredRelease(p)
      PROVE  CountsInv'
  BY <1>9, DeferredReleaseStep
<1>10. CASE UNCHANGED vars
  <2>1. Driver' = Driver /\ buf' = buf /\ cmd' = cmd /\ alive' = alive
    BY <1>10 DEF vars, driverVars, userVars, Driver
  <2> QED BY <2>1 DEF CountsInv
<1> QED BY <1>1, <1>2, <1>3, <1>4, <1>5, <1>6, <1>7, <1>8, <1>9, <1>10 DEF Next

\* The driver stays sound.
THEOREM CountsInvariant == Spec => []CountsInv
<1>1. Init => CountsInv
  BY CountsInit
<1>2. CountsInv /\ [Next]_vars => CountsInv'
  BY CountsNext
<1> QED BY <1>1, <1>2, PTL DEF Spec

\* The counts of a node in a sound state.
LEMMA CountsAre ==
    ASSUME CountsInv, NEW n \in Node, NEW x, x = node[n], x # NULL
    PROVE  /\ x.internal_strong =
                Cardinality({r \in RefsTo(Driver, n) : refs[r[1]][r[2]].strong > 0})
           /\ x.proc # NULL =>
                /\ x.local_strong =
                     Cardinality(Binders(n, TRUE))
                     + Cardinality({b \in Buf : buf[b] # NULL /\ buf[b].target_node = n})
                     + One(x.pending_strong) + One(n \in CtxNode)
                /\ x.local_weak =
                     Cardinality(Binders(n, FALSE)) + One(x.pending_weak) + One(n \in CtxNode)
<1>1. PICK s : s = Driver
  OBVIOUS
<1>2. PICK L : L = Owners(alive)
  OBVIOUS
<1>3. PICK BS : BS = StrongClaims(buf)
  OBVIOUS
<1>4. PICK BW : BW = WeakClaims(buf)
  OBVIOUS
<1>5. Good(s, L, alive, BS, BW) /\ BufsOK(buf, alive)
  BY <1>1, <1>2, <1>3, <1>4 DEF CountsInv, Sound
<1>6. s.node[n] = x /\ s.refs = refs
  BY <1>1 DEF Driver
<1>7. NodeOK(s, L, n, BS[n], BW[n])
  BY <1>5 DEF Good
<1>8. x.internal_strong = Cardinality(StrongRefs(s, n))
  BY <1>6, <1>7 DEF NodeOK, NodeMid
<1>9. StrongRefs(s, n) = {r \in RefsTo(Driver, n) : refs[r[1]][r[2]].strong > 0}
  BY <1>1, <1>6 DEF StrongRefs
<1>10. ASSUME x.proc # NULL
       PROVE  /\ x.local_strong =
                   Cardinality(Binders(n, TRUE))
                   + Cardinality({b \in Buf : buf[b] # NULL /\ buf[b].target_node = n})
                   + One(x.pending_strong) + One(n \in CtxNode)
              /\ x.local_weak =
                   Cardinality(Binders(n, FALSE)) + One(x.pending_weak) + One(n \in CtxNode)
  <2>1. /\ x.local_strong = BS[n] + One(x.pending_strong) + Ctx(n)
        /\ x.local_weak = BW[n] + One(x.pending_weak) + Ctx(n)
    BY <1>6, <1>7, <1>10 DEF NodeOK, NodeMid
  <2>2. \A strong \in BOOLEAN : Cardinality(BindersOf(buf, n, strong)) = Cardinality(Binders(n, strong))
    BY <1>5, BindersCount
  <2>3. TargetOf(buf, n) = {b \in Buf : buf[b] # NULL /\ buf[b].target_node = n}
    BY DEF TargetOf, HasTarget
  <2>4. /\ BS[n] = Cardinality(BindersOf(buf, n, TRUE)) + Cardinality(TargetOf(buf, n))
        /\ BW[n] = Cardinality(BindersOf(buf, n, FALSE))
    BY <1>3, <1>4 DEF StrongClaims, WeakClaims
  <2>5. Ctx(n) = One(n \in CtxNode)
    BY DEF Ctx, One
  <2>6. TRUE \in BOOLEAN /\ FALSE \in BOOLEAN
    OBVIOUS
  <2>7. /\ Cardinality(BindersOf(buf, n, TRUE)) = Cardinality(Binders(n, TRUE))
        /\ Cardinality(BindersOf(buf, n, FALSE)) = Cardinality(Binders(n, FALSE))
    BY <2>2, <2>6
  <2> QED BY <2>1, <2>3, <2>4, <2>5, <2>7, Zenon
<1> QED BY <1>8, <1>9, <1>10

\* A node's counts are the claims on it: internal_strong_refs the references with
\* a strong claim, local_strong_refs and local_weak_refs the buffers, the objects
\* in them and the answers that are open (binder_inc_node, binder_dec_node).
THEOREM CountsExactHolds == Spec => []CountsExact
<1>1. CountsInv => CountsExact
  BY CountsAre DEF CountsExact
<1> QED BY <1>1, CountsInvariant, PTL

\* A set without two members.
LEMMA AtMostOne ==
    ASSUME NEW S, \A x, y \in S : x = y
    PROVE  Cardinality(S) <= 1
<1>1. CASE S = {}
  BY <1>1, FS_EmptySet
<1>2. CASE S # {}
  <2>1. PICK x : S = {x}
    BY <1>2
  <2>2. Cardinality(S) = 1
    BY <2>1, FS_Singleton
  <2> QED BY <2>2
<1> QED BY <1>1, <1>2

\* Where n is on the lists.
Entries(n) ==
    (UNION {{<<x, i>> : i \in {j \in DOMAIN todo[x] : todo[x][j] = n}} : x \in Thread})
    \cup (UNION {{<<x, i>> : i \in {j \in DOMAIN proc_todo[x] : proc_todo[x][j] = n}} : x \in Proc})

\* A node is on the lists once.
LEMMA ListedOnce ==
    ASSUME NEW n, NEW s, s = Driver, OwnLists(s, n)
    PROVE  Cardinality(Entries(n)) <= 1
<1>1. s.todo = todo /\ s.proc_todo = proc_todo
  BY DEF Driver
<1>2. ASSUME NEW e \in Entries(n)
      PROVE  \/ \E x, i : x \in Thread /\ e = <<x, i>> /\ i \in DOMAIN todo[x] /\ todo[x][i] = n
             \/ \E x, i : x \in Proc /\ e = <<x, i>> /\ i \in DOMAIN proc_todo[x] /\ proc_todo[x][i] = n
  BY DEF Entries
<1>3. \A th \in Thread : \A i : i \in DOMAIN todo[th] /\ todo[th][i] = n => On(s.todo[th], n)
  BY <1>1 DEF On
<1>4. \A p \in Proc : \A i : i \in DOMAIN proc_todo[p] /\ proc_todo[p][i] = n => On(s.proc_todo[p], n)
  BY <1>1 DEF On
<1>5. \A th, u \in Thread : \A i, j :
         i \in DOMAIN todo[th] /\ todo[th][i] = n /\ j \in DOMAIN todo[u] /\ todo[u][j] = n
         => th = u /\ i = j
  BY <1>1, <1>3 DEF OwnLists, Once
<1>6. \A p, q \in Proc : \A i, j :
         i \in DOMAIN proc_todo[p] /\ proc_todo[p][i] = n /\ j \in DOMAIN proc_todo[q] /\ proc_todo[q][j] = n
         => p = q /\ i = j
  BY <1>1, <1>4 DEF OwnLists, Once
<1>7. \A th \in Thread, p \in Proc : \A i, j :
         ~(i \in DOMAIN todo[th] /\ todo[th][i] = n /\ j \in DOMAIN proc_todo[p] /\ proc_todo[p][j] = n)
  BY <1>3, <1>4 DEF OwnLists
<1>8. ASSUME NEW e \in Entries(n), NEW f \in Entries(n)
      PROVE  e = f
  <2>1. CASE \E x, i : x \in Thread /\ e = <<x, i>> /\ i \in DOMAIN todo[x] /\ todo[x][i] = n
    <3>1. PICK x, i : x \in Thread /\ e = <<x, i>> /\ i \in DOMAIN todo[x] /\ todo[x][i] = n
      BY <2>1
    <3>2. PICK y, j : y \in Thread /\ f = <<y, j>> /\ j \in DOMAIN todo[y] /\ todo[y][j] = n
      BY <1>2, <1>7, <3>1
    <3>3. x = y /\ i = j
      BY <1>5, <3>1, <3>2
    <3> QED BY <3>1, <3>2, <3>3
  <2>2. CASE \E x, i : x \in Proc /\ e = <<x, i>> /\ i \in DOMAIN proc_todo[x] /\ proc_todo[x][i] = n
    <3>1. PICK x, i : x \in Proc /\ e = <<x, i>> /\ i \in DOMAIN proc_todo[x] /\ proc_todo[x][i] = n
      BY <2>2
    <3>2. PICK y, j : y \in Proc /\ f = <<y, j>> /\ j \in DOMAIN proc_todo[y] /\ proc_todo[y][j] = n
      BY <1>2, <1>7, <3>1
    <3>3. x = y /\ i = j
      BY <1>6, <3>1, <3>2
    <3> QED BY <3>1, <3>2, <3>3
  <2> QED BY <1>2, <2>1, <2>2
<1> QED BY <1>8, AtMostOne

\* No reference to a node, no entry of a list outlives what it points to
\* (binder_delete_ref, binder_node_release, binder_deferred_release).
THEOREM NoDanglingHolds == Spec => []NoDangling
<1>1. ASSUME CountsInv
      PROVE  NoDangling
  <2>1. PICK s : s = Driver
    OBVIOUS
  <2>2. PICK L : L = Owners(alive)
    OBVIOUS
  <2>3. PICK BS, BW : Good(s, L, alive, BS, BW)
    BY <1>1, <2>1, <2>2 DEF CountsInv, Sound
  <2>4. s.node = node /\ s.refs = refs
    BY <2>1 DEF Driver
  <2>5. ASSUME NEW p \in Proc, NEW d \in Desc, refs[p][d] # NULL
        PROVE  p \in alive /\ node[refs[p][d].node] # NULL
    <3>1. p \in alive
      BY <2>3, <2>4, <2>5 DEF Good
    <3> PICK n : n = s.refs[p][d].node
      OBVIOUS
    <3>2. s.node[n] # NULL
      BY <2>3, <2>4, <2>5, RefNode
    <3> QED BY <2>4, <3>1, <3>2
  <2>6. ASSUME NEW n \in Node
        PROVE  /\ Queued(s, n) => s.node[n] # NULL /\ s.node[n].proc # NULL
               /\ s.node[n] # NULL /\ s.node[n].proc = NULL => RefsTo(s, n) # {}
               /\ OwnLists(s, n)
    <3>1. NodeOK(s, L, n, BS[n], BW[n])
      BY <2>3 DEF Good
    <3>2. Owner[n] # NULL
      BY RefsAssumption
    <3> QED BY <3>1, <3>2 DEF NodeOK, NodeMid
  <2>7. \A n \in Node : Cardinality(Entries(n)) <= 1
    BY <2>1, <2>6, ListedOnce
  <2> QED BY <2>1, <2>4, <2>5, <2>6, <2>7 DEF NoDangling, Entries
<1> QED BY <1>1, CountsInvariant, PTL

\* What the owner of a node was told is what is claimed, or the node is on a list and
\* the owner is going to be told (binder_inc_node, binder_dec_node, BINDER_WORK_NODE in
\* binder_thread_read).  binder_release_work drops the nodes on the list of a thread
\* that exits, so the claim is for programs whose threads exit with their process only.
THEOREM WillBeToldHolds == Exits = {} => (Spec => []WillBeTold)
<1> SUFFICES ASSUME Exits = {}
             PROVE  Spec => []WillBeTold
  OBVIOUS
<1>1. ASSUME CountsInv
      PROVE  WillBeTold
  <2> PICK s : s = Driver
    OBVIOUS
  <2>1. s.node = node /\ s \in DriverRec /\ Informed(s)
    BY <1>1 DEF Driver, CountsInv, Sound, Good
  <2> SUFFICES ASSUME NEW n \in Node, node[n] # NULL, node[n].proc # NULL, ~Queued(s, n)
               PROVE  node[n].has_strong = Strong(node[n]) /\ node[n].has_weak = Weak(s, n)
    BY DEF WillBeTold
  <2>2. /\ node[n].has_strong <=> Strong(node[n])
        /\ node[n].has_weak <=> Weak(s, n)
    BY <2>1 DEF Informed, Knows
  <2>3. node[n].has_strong \in BOOLEAN /\ node[n].has_weak \in BOOLEAN
    BY <2>1, NodeFields
  <2>4. Strong(node[n]) \in BOOLEAN /\ Weak(s, n) \in BOOLEAN
    BY DEF Strong, Weak
  <2> QED BY <2>2, <2>3, <2>4
<1>2. CountsInv => WillBeTold
  BY <1>1
<1> QED BY <1>2, CountsInvariant, PTL

\* Every buffered handle stays good.
LEMMA HandlesNext == CountsInv /\ HandlesInv /\ [Next]_vars => HandlesInv'
<1> SUFFICES ASSUME CountsInv, HandlesInv, [Next]_vars
             PROVE  HandlesInv'
  OBVIOUS
<1>1. ASSUME NEW th \in Thread, Transactions(th)
      PROVE  HandlesInv'
  <2>1. PICK g \in Targets(th) :
           \/ \E objects \in Parcels(th) :
                 \/ \E b \in Buf : Send(th, g[1], g[2], objects, b)
                 \/ SendRefused(th, g[1], g[2], objects)
           \/ \E m \in Node : SendNoRef(th, g[1], g[2], m)
    BY <1>1 DEF Transactions
  <2>2. CASE \E objects \in Parcels(th), b \in Buf : Send(th, g[1], g[2], objects, b)
    BY <2>2, SendStep
  <2>3. CASE \E objects \in Parcels(th) : SendRefused(th, g[1], g[2], objects)
    BY <2>3, SendRefusedStep
  <2>4. CASE \E m \in Node : SendNoRef(th, g[1], g[2], m)
    <3>1. refs' = refs
      BY <2>4, SendNoRefStep
    <3>2. buf' = buf
      BY <2>4 DEF SendNoRef
    <3> QED BY <3>1, <3>2, HandlesStay
  <2> QED BY <2>1, <2>2, <2>3, <2>4
<1>2. ASSUME NEW th \in Thread, NEW b \in Buf, FreeBuffer(th, b)
      PROVE  HandlesInv'
  BY <1>2, FreeBufferStep
<1>3. ASSUME NEW th \in Thread, NEW d \in Desc, NEW strong \in Kinds,
             Acquire(th, d, strong) \/ Release(th, d, strong)
      PROVE  HandlesInv'
  BY <1>3, AcquireStep, ReleaseStep
<1>4. ASSUME NEW th \in Thread, NEW strong \in Kinds, AcquireContextManager(th, strong)
      PROVE  HandlesInv'
  BY <1>4, AcquireContextManagerStep
<1>5. ASSUME NEW th \in Thread, OwnerStep(th)
      PROVE  HandlesInv'
  <2>1. refs' = refs
    BY <1>5, ReadNodeStep, ReadCompleteStep, ExecuteStep, WriteDoneStep DEF OwnerStep
  <2>2. buf' = buf
    BY <1>5 DEF OwnerStep, ReadNode, ReadComplete, Execute, WriteDone
  <2> QED BY <2>1, <2>2, HandlesStay
<1>6. ASSUME NEW th \in Thread, ThreadExit(th)
      PROVE  HandlesInv'
  BY <1>6, HandlesStay DEF ThreadExit
<1>7. ASSUME NEW n \in Node, ProcessPendingDerefs(n) \/ DropObject(n)
      PROVE  HandlesInv'
  BY <1>7, HandlesStay DEF ProcessPendingDerefs, DropObject, driverVars
<1>8. ASSUME NEW n \in CtxNode, SetContextMgr(n)
      PROVE  HandlesInv'
  BY <1>8, HandlesStay DEF SetContextMgr
<1>9. ASSUME NEW p \in Proc, DeferredRelease(p)
      PROVE  HandlesInv'
  BY <1>9, DeferredReleaseStep
<1>10. CASE UNCHANGED vars
  BY <1>10, HandlesStay DEF vars, driverVars
<1> QED BY <1>1, <1>2, <1>3, <1>4, <1>5, <1>6, <1>7, <1>8, <1>9, <1>10 DEF Next

\* No buffer is filled at first.
LEMMA HandlesInit == Init => HandlesInv
<1> SUFFICES ASSUME Init
             PROVE  HandlesInv
  OBVIOUS
<1>1. \A b \in Buf : buf[b] = NULL
  BY DEF Init
<1>2. ASSUME NEW p \in Proc, NEW d \in Desc
      PROVE  HandleOK(Driver, buf, p, d)
  <2>1. HandlesOf(buf, p, d) = {}
    BY <1>1 DEF HandlesOf, HasHandle
  <2>2. Cardinality(HandlesOf(buf, p, d)) = 0
    BY <2>1, FS_EmptySet
  <2> QED BY <2>1, <2>2 DEF HandleOK, Backed
<1>3. KindsOK(buf)
  BY <1>1 DEF KindsOK
<1> QED BY <1>2, <1>3 DEF HandlesInv, HandlesOK

\* Where programs claim strongly, a handle that lies in one of a process's buffers
\* names the object that was sent, and its reference counts every buffer that it
\* lies in (binder_transaction, binder_transaction_buffer_release).
THEOREM HandlesStayValid == FALSE \notin Kinds => (Spec => []HandlesValid)
<1> SUFFICES ASSUME FALSE \notin Kinds
             PROVE  Spec => []HandlesValid
  OBVIOUS
<1>1. ASSUME CountsInv, HandlesInv
      PROVE  HandlesValid
  <2>1. BufsOK(buf, alive) /\ alive \subseteq Proc /\ Driver.refs = refs
    BY <1>1 DEF CountsInv, Sound, Driver
  <2>2. ASSUME NEW b \in Buf, buf[b] # NULL, NEW i \in DOMAIN buf[b].objects,
               buf[b].objects[i].type = "HANDLE"
        PROVE  LET o == buf[b].objects[i]
                   p == buf[b].proc
               IN /\ o.strong /\ refs[p][o.desc] # NULL
                  /\ refs[p][o.desc].node = o.node
                  /\ refs[p][o.desc].strong >= Cardinality(Handles(p, o.desc, TRUE))
    <3>1. BufOK(buf[b], alive)
      BY <2>1, <2>2 DEF BufsOK
    <3>2. buf[b].proc \in Proc
      BY <2>1, <3>1 DEF BufOK
    <3>3. PICK u \in Object : buf[b].objects = <<u>> /\ (u.type = "HANDLE" => u.desc \in Desc)
      BY <2>2, <3>1 DEF BufOK, BufObjects
    <3>4. i = 1 /\ buf[b].objects[1] = u /\ buf[b].objects[i] = u /\ u.type = "HANDLE"
      BY <2>2, <3>3
    <3>5. u.desc \in Desc
      BY <3>3, <3>4
    <3>6. PICK p, d : p = buf[b].proc /\ d = u.desc
      OBVIOUS
    <3>7. u.strong \in Kinds /\ u.strong \in BOOLEAN
      <4>1. buf[b].objects # <<>>
        BY <3>3
      <4>2. buf[b].objects[1].strong \in Kinds
        BY <1>1, <2>2, <4>1 DEF HandlesInv, KindsOK
      <4>3. Kinds \subseteq BOOLEAN
        BY RefsAssumption
      <4> QED BY <3>4, <4>2, <4>3
    <3>8. u.strong
      BY <3>7
    <3>9. HasHandle(buf[b], p, d)
      BY <2>2, <3>3, <3>4, <3>6, <3>8 DEF HasHandle
    <3>10. HandleOK(Driver, buf, p, d) /\ b \in HandlesOf(buf, p, d)
      BY <1>1, <3>2, <3>5, <3>6, <3>9 DEF HandlesInv, HandlesOK, HandlesOf
    <3>11. refs[p][d] # NULL /\ refs[p][d].node = u.node
      BY <2>1, <3>4, <3>10 DEF HandleOK, Names
    <3>12. PICK c : c = Cardinality(HandlesOf(buf, p, d))
      OBVIOUS
    <3>13. c # 0 /\ Backed(refs[p][d], c)
      BY <2>1, <3>10, <3>12, NoHandles DEF HandleOK
    <3>14. refs[p][d].strong >= c
      BY <3>13 DEF Backed
    <3>15. Cardinality(Handles(p, d, TRUE)) = c
      BY <2>1, <3>2, <3>5, <3>6, <3>12, HandlesCount
    <3> QED BY <3>4, <3>6, <3>8, <3>11, <3>14, <3>15
  <2> QED BY <2>2 DEF HandlesValid
<1>2. Init => CountsInv /\ HandlesInv
  BY CountsInit, HandlesInit
<1>3. CountsInv /\ HandlesInv /\ [Next]_vars => (CountsInv /\ HandlesInv)'
  BY CountsNext, HandlesNext
<1> QED BY <1>1, <1>2, <1>3, PTL DEF Spec

=============================================================================
