---------------------- MODULE BinderTransactionProofs ----------------------
(***************************************************************************)
(* Theorems about BinderTransaction, for any number of processes, threads, *)
(* transactions and buffers.                                               *)
(*                                                                         *)
(* The first part is about memory: what a step does to transactions,       *)
(* buffers, call stacks and todo lists, as lemmas about any values of      *)
(* them.  A state is taken apart into tx (transactions), bf (buffers), top *)
(* (the tops of the stacks), U (the transactions that are on their way), L *)
(* (the lists), and ty, bg, M are what a step makes of them.  The second   *)
(* part applies the lemmas to the steps of the specification.              *)
(***************************************************************************)
EXTENDS BinderTransaction, FiniteSetTheorems, TLAPS

-----------------------------------------------------------------------------
(* Walks along a pointer *)

Pointers == [Txn -> Txn \cup {NULL}]

\* The null pointer is not a transaction.
LEMMA NullTxn == NULL \notin Txn
BY Distinct

\* A set that holds the start and is closed under next holds the walk.
LEMMA WalkIn ==
    ASSUME NEW t, NEW next, NEW S \in SUBSET Txn, t \in S \cup {NULL},
           \A y \in S : next[y] \in S \cup {NULL}
    PROVE  Walk(t, next) \subseteq S
BY DEF Walk

\* A walk visits its start ...
LEMMA WalkStart ==
    ASSUME NEW t \in Txn, NEW next
    PROVE  t \in Walk(t, next)
BY NullTxn DEF Walk

\* ... and what it visits next.
LEMMA WalkNext ==
    ASSUME NEW t, NEW next \in Pointers, NEW x \in Walk(t, next), next[x] # NULL
    PROVE  next[x] \in Walk(t, next)
<1>1. x \in Txn
  BY DEF Walk
<1>2. next[x] \in Txn
  BY <1>1 DEF Pointers
<1>3. ASSUME NEW S \in SUBSET Txn, t \in S \cup {NULL}, \A y \in S : next[y] \in S \cup {NULL}
      PROVE  next[x] \in S
  <2>1. x \in S
    BY <1>3 DEF Walk
  <2> QED BY <1>3, <2>1
<1> QED BY <1>2, <1>3 DEF Walk

\* A walk from the null pointer visits nothing.
LEMMA WalkNull ==
    ASSUME NEW next
    PROVE  Walk(NULL, next) = {}
<1>1. PICK S \in SUBSET Txn : S = {}
  OBVIOUS
<1>2. Walk(NULL, next) \subseteq S
  BY <1>1, WalkIn
<1> QED BY <1>1, <1>2

\* A walk visits transactions only.
LEMMA WalkTxn ==
    ASSUME NEW t, NEW next
    PROVE  Walk(t, next) \subseteq Txn
BY DEF Walk

\* A walk from a transaction that a walk visits is part of it.
LEMMA WalkWithin ==
    ASSUME NEW t, NEW next \in Pointers, NEW x \in Walk(t, next)
    PROVE  Walk(x, next) \subseteq Walk(t, next)
<1>1. PICK S : S = Walk(t, next)
  OBVIOUS
<1>2. S \in SUBSET Txn /\ x \in S
  BY <1>1, WalkTxn
<1>3. \A y \in S : next[y] \in S \cup {NULL}
  BY <1>1, WalkNext
<1> QED BY <1>1, <1>2, <1>3, WalkIn

\* What a walk visits after its start it comes to from something it visits.
LEMMA WalkPrev ==
    ASSUME NEW t \in Txn \cup {NULL}, NEW next \in Pointers, NEW x \in Walk(t, next), x # t
    PROVE  \E z \in Walk(t, next) : next[z] = x
<1> SUFFICES ASSUME \A z \in Walk(t, next) : next[z] # x
             PROVE  FALSE
  OBVIOUS
<1>1. PICK S : S = Walk(t, next) \ {x}
  OBVIOUS
<1>2. S \in SUBSET Txn
  BY <1>1, WalkTxn
<1>3. t \in S \cup {NULL}
  BY <1>1, WalkStart
<1>4. \A y \in S : next[y] \in S \cup {NULL}
  BY <1>1, WalkNext
<1> QED BY <1>1, <1>2, <1>3, <1>4, WalkIn

\* A walk is its start and the walk from the next one.
LEMMA WalkFirst ==
    ASSUME NEW t \in Txn, NEW next \in Pointers
    PROVE  Walk(t, next) = {t} \cup Walk(next[t], next)
<1>1. PICK n \in Txn \cup {NULL} : n = next[t]
  BY DEF Pointers
<1>2. Walk(n, next) \subseteq Walk(t, next)
  <2>1. CASE n = NULL
    BY <2>1, WalkNull
  <2>2. CASE n # NULL
    <3>1. n \in Walk(t, next)
      BY <1>1, <2>2, WalkStart, WalkNext
    <3> QED BY <3>1, WalkWithin
  <2> QED BY <2>1, <2>2
<1>3. PICK S : S = {t} \cup Walk(n, next)
  OBVIOUS
<1>4. S \in SUBSET Txn /\ t \in S
  BY <1>3, WalkTxn
<1>5. \A y \in S : next[y] \in S \cup {NULL}
  <2>1. next[t] \in S \cup {NULL}
    BY <1>1, <1>3, WalkStart
  <2>2. \A y \in Walk(n, next) : next[y] \in S \cup {NULL}
    BY <1>3, WalkNext
  <2> QED BY <1>3, <2>1, <2>2
<1>6. Walk(t, next) \subseteq S
  BY <1>4, <1>5, WalkIn
<1> QED BY <1>1, <1>2, <1>3, <1>6, WalkStart

\* Of two transactions on a walk one comes first.
LEMMA WalkLine ==
    ASSUME NEW t \in Txn \cup {NULL}, NEW next \in Pointers,
           NEW x \in Walk(t, next), NEW y \in Walk(t, next)
    PROVE  y \in Walk(x, next) \/ x \in Walk(y, next)
<1>1. PICK S : S = {z \in Walk(t, next) : z \in Walk(x, next) \/ x \in Walk(z, next)}
  OBVIOUS
<1>2. S \in SUBSET Txn
  BY <1>1, WalkTxn
<1>3. t \in S \cup {NULL}
  BY <1>1, WalkStart
<1>4. ASSUME NEW z \in S
      PROVE  next[z] \in S \cup {NULL}
  <2> SUFFICES ASSUME next[z] # NULL
               PROVE  next[z] \in S
    OBVIOUS
  <2>1. next[z] \in Walk(t, next)
    BY <1>1, WalkNext
  <2>2. z \in Txn /\ x \in Txn
    BY <1>2, WalkTxn
  <2>3. CASE z \in Walk(x, next)
    BY <1>1, <2>1, <2>3, WalkNext
  <2>4. CASE x \in Walk(z, next)
    <3>1. x = z \/ x \in Walk(next[z], next)
      BY <2>2, <2>4, WalkFirst
    <3>2. CASE x = z
      BY <2>2, <2>3, <3>2, WalkStart
    <3> QED BY <1>1, <2>1, <3>1, <3>2
  <2> QED BY <1>1, <2>3, <2>4
<1>5. Walk(t, next) \subseteq S
  BY <1>2, <1>3, <1>4, WalkIn
<1> QED BY <1>1, <1>5

\* A walk does not change with pointers outside a set that it does not leave.
LEMMA WalkSame ==
    ASSUME NEW t, NEW next \in Pointers, NEW other \in Pointers, NEW S \in SUBSET Txn,
           t \in S \cup {NULL}, \A y \in S : next[y] \in S \cup {NULL},
           \A y \in S : other[y] = next[y]
    PROVE  Walk(t, other) = Walk(t, next)
<1>1. Walk(t, next) \subseteq S
  BY WalkIn
<1>2. Walk(t, other) \subseteq S
  BY WalkIn
<1>3. Walk(t, other) \subseteq Walk(t, next)
  <2>1. PICK R : R = Walk(t, next)
    OBVIOUS
  <2>2. R \in SUBSET Txn /\ t \in R \cup {NULL}
    BY <2>1, WalkTxn, WalkStart
  <2>3. \A y \in R : other[y] \in R \cup {NULL}
    BY <1>1, <2>1, WalkNext
  <2> QED BY <2>1, <2>2, <2>3, WalkIn
<1>4. Walk(t, next) \subseteq Walk(t, other)
  <2>1. PICK R : R = Walk(t, other)
    OBVIOUS
  <2>2. R \in SUBSET Txn /\ t \in R \cup {NULL}
    BY <2>1, WalkTxn, WalkStart
  <2>3. \A y \in R : next[y] \in R \cup {NULL}
    BY <1>2, <2>1, WalkNext
  <2> QED BY <2>1, <2>2, <2>3, WalkIn
<1> QED BY <1>3, <1>4

-----------------------------------------------------------------------------
(* The shape of the stacks *)

CallsOf(tx) == {t \in Txn : tx[t].kind = "call"}

Up(tx) == [x \in Txn |-> tx[x].from_parent]

\* The call t and the calls it was made for.
Above(tx, t) == Walk(t, Up(tx))

\* From a transaction on the stack of w to the one under it.
Under(tx, w) ==
    [x \in Txn |-> IF tx[x].to_thread = w THEN tx[x].to_parent ELSE tx[x].from_parent]

\* The calls that w has made or serves, those in U being undelivered.
On(tx, U, w) == {c \in CallsOf(tx) : tx[c].from = w \/ (c \notin U /\ tx[c].to_thread = w)}

\* A call is made for one that its caller serves, which waits for nothing else.
Parents(tx, U) ==
    /\ \A c \in CallsOf(tx) : tx[c].from_parent # NULL =>
          /\ tx[c].from_parent \in CallsOf(tx) /\ tx[c].from_parent \notin U
          /\ tx[tx[c].from_parent].to_thread = tx[c].from
    /\ \A c, d \in CallsOf(tx) :
          tx[c].from_parent = tx[d].from_parent /\ tx[c].from_parent # NULL => c = d

\* A thread that waits for a call serves one that was made for it further on.
Nested(tx, U) ==
    /\ \A c \in CallsOf(tx) : tx[c].to_parent # NULL =>
          /\ c \notin U
          /\ tx[c].to_parent \in CallsOf(tx)
          /\ tx[tx[c].to_parent].from = tx[c].to_thread
          /\ tx[c].to_parent \in Above(tx, tx[c].from_parent)
    /\ \A c, d \in CallsOf(tx) :
          tx[c].to_parent = tx[d].to_parent /\ tx[c].to_parent # NULL => c = d

\* Nothing is above the top of a stack.
Tops(tx, top, U) ==
    /\ \A w \in Thread : top[w] # NULL => top[w] \in On(tx, U, w)
    /\ \A w \in Thread, c \in CallsOf(tx) :
          tx[c].from = w /\ tx[c].from_parent # NULL => tx[c].from_parent # top[w]
    /\ \A w \in Thread, c \in CallsOf(tx) :
          tx[c].to_thread = w /\ tx[c].to_parent # NULL => tx[c].to_parent # top[w]

\* The loop of binder_free_thread finds every call of the thread.
Reached(tx, top, U) ==
    \A w \in Thread : On(tx, U, w) \subseteq Walk(top[w], Under(tx, w))

\* The two ends of a call are in different processes.
Apart(tx) ==
    \A c \in CallsOf(tx) : tx[c].from # NULL /\ tx[c].to_thread # NULL =>
        ProcOf[tx[c].from] # ProcOf[tx[c].to_thread]

\* ServedByWaitingThread: dest is the process an undelivered call is sent to.
OneServer(tx, U, dest) ==
    /\ \A c \in CallsOf(tx) : \A x \in Above(tx, c) :
          tx[x].from # NULL /\ tx[c].to_thread # NULL
          /\ ProcOf[tx[x].from] = ProcOf[tx[c].to_thread] => tx[x].from = tx[c].to_thread
    /\ \A c \in CallsOf(tx) : \A x \in Above(tx, c) :
          tx[x].from # NULL /\ c \in U /\ tx[c].to_thread = NULL => ProcOf[tx[x].from] # dest[c]

\* A call that was sent to a thread finds it waiting for one of those above the call.
\* X is the thread that is torn down.
Targets(tx, top, U, X) ==
    \A c \in CallsOf(tx) : c \in U /\ tx[c].to_thread # NULL /\ tx[c].to_thread # X =>
        /\ top[tx[c].to_thread] # NULL
        /\ tx[top[tx[c].to_thread]].from = tx[c].to_thread
        /\ top[tx[c].to_thread] \in Above(tx, tx[c].from_parent)

Stacks(tx, top, U, dest, X) ==
    /\ Parents(tx, U) /\ Nested(tx, U) /\ Tops(tx, top, U) /\ Reached(tx, top, U)
    /\ Apart(tx) /\ OneServer(tx, U, dest) /\ Targets(tx, top, U, X)

Typed(tx, top, U) ==
    /\ tx \in [Txn -> TxnRec]
    /\ top \in [Thread -> Txn \cup {NULL}]
    /\ U \subseteq Txn
    /\ \A t \in Txn : tx[t].kind # "call" => tx[t].from_parent = NULL /\ tx[t].to_parent = NULL

-----------------------------------------------------------------------------
(* What follows from the shape *)

\* The types of the fields that make the stacks.
LEMMA FieldTypes ==
    ASSUME NEW tx, NEW top, NEW U, Typed(tx, top, U)
    PROVE  /\ \A t \in Txn : /\ tx[t].from \in Thread \cup {NULL}
                             /\ tx[t].to_thread \in Thread \cup {NULL}
                             /\ tx[t].from_parent \in Txn \cup {NULL}
                             /\ tx[t].to_parent \in Txn \cup {NULL}
           /\ Up(tx) \in Pointers
           /\ \A w : Under(tx, w) \in Pointers
           /\ \A t \in Txn : Up(tx)[t] = tx[t].from_parent
           /\ \A w \in Thread : top[w] \in Txn \cup {NULL}
<1>1. \A t \in Txn : /\ tx[t].from \in Thread \cup {NULL}
                     /\ tx[t].to_thread \in Thread \cup {NULL}
                     /\ tx[t].from_parent \in Txn \cup {NULL}
                     /\ tx[t].to_parent \in Txn \cup {NULL}
  BY DEF Typed, TxnRec
<1> QED BY <1>1 DEF Typed, Pointers, Up, Under

\* A call is made for calls only.
LEMMA AboveCalls ==
    ASSUME NEW tx, NEW top, NEW U, Typed(tx, top, U), Parents(tx, U),
           NEW t \in CallsOf(tx) \cup {NULL}
    PROVE  Above(tx, t) \subseteq CallsOf(tx)
<1>1. PICK S : S = CallsOf(tx)
  OBVIOUS
<1>2. S \in SUBSET Txn
  BY <1>1 DEF CallsOf
<1>3. \A y \in S : Up(tx)[y] \in S \cup {NULL}
  BY <1>1, <1>2, FieldTypes DEF Parents
<1> QED BY <1>1, <1>2, <1>3, WalkIn DEF Above

\* The calls above c: c itself and those above its parent.
LEMMA AboveFirst ==
    ASSUME NEW tx, NEW top, NEW U, Typed(tx, top, U), NEW c \in Txn
    PROVE  Above(tx, c) = {c} \cup Above(tx, tx[c].from_parent)
BY FieldTypes, WalkFirst DEF Above

\* Every call on the stack of w is above its top.
LEMMA StackAbove ==
    ASSUME NEW tx, NEW top, NEW U, Typed(tx, top, U), Parents(tx, U), Nested(tx, U),
           Tops(tx, top, U), Apart(tx), NEW w \in Thread
    PROVE  /\ Walk(top[w], Under(tx, w)) \subseteq On(tx, U, w)
           /\ Walk(top[w], Under(tx, w)) \subseteq Above(tx, top[w])
<1>1. PICK S : S = On(tx, U, w) \cap Above(tx, top[w])
  OBVIOUS
<1>2. S \in SUBSET Txn
  BY <1>1 DEF On, CallsOf
<1>3. top[w] \in S \cup {NULL}
  <2>1. top[w] \in Txn \cup {NULL}
    BY FieldTypes
  <2>2. top[w] # NULL => top[w] \in Above(tx, top[w])
    BY <2>1, WalkStart DEF Above
  <2> QED BY <1>1, <2>2 DEF Tops
<1>4. ASSUME NEW y \in S, Under(tx, w)[y] # NULL
      PROVE  Under(tx, w)[y] \in S
  <2>1. y \in CallsOf(tx) /\ y \in Txn /\ (tx[y].from = w \/ (y \notin U /\ tx[y].to_thread = w))
    BY <1>1 DEF On, CallsOf
  <2>2. w # NULL
    BY Distinct
  <2>3. Above(tx, y) \subseteq Above(tx, top[w])
    BY <1>1, FieldTypes, WalkWithin DEF Above
  <2>4. Above(tx, tx[y].from_parent) \subseteq Above(tx, top[w])
    BY <2>1, <2>3, AboveFirst
  <2>5. CASE tx[y].to_thread = w
    <3>1. Under(tx, w)[y] = tx[y].to_parent
      BY <2>1, <2>5 DEF Under
    <3>2. tx[y].to_parent \in CallsOf(tx) /\ tx[tx[y].to_parent].from = w
      BY <1>4, <2>1, <2>5, <3>1 DEF Nested
    <3>3. tx[y].to_parent \in Above(tx, tx[y].from_parent)
      BY <1>4, <2>1, <3>1 DEF Nested
    <3> QED BY <1>1, <2>4, <3>1, <3>2, <3>3 DEF On
  <2>6. CASE tx[y].to_thread # w
    <3>1. Under(tx, w)[y] = tx[y].from_parent /\ tx[y].from = w
      BY <2>1, <2>6 DEF Under
    <3>2. /\ tx[y].from_parent \in CallsOf(tx) /\ tx[y].from_parent \notin U
          /\ tx[tx[y].from_parent].to_thread = w
      BY <1>4, <2>1, <3>1 DEF Parents
    <3>3. tx[y].from_parent \in Txn
      BY <3>2 DEF CallsOf
    <3>4. tx[y].from_parent \in Above(tx, tx[y].from_parent)
      BY <3>3, WalkStart DEF Above
    <3> QED BY <1>1, <2>4, <3>1, <3>2, <3>4 DEF On
  <2> QED BY <2>5, <2>6
<1>5. Walk(top[w], Under(tx, w)) \subseteq S
  BY <1>2, <1>3, <1>4, WalkIn
<1> QED BY <1>1, <1>5

\* A thread with a call has a top, which is above that call or below it.
LEMMA CallHasTop ==
    ASSUME NEW tx, NEW top, NEW U, NEW dest, NEW X, Typed(tx, top, U), Stacks(tx, top, U, dest, X),
           NEW w \in Thread, NEW c \in On(tx, U, w)
    PROVE  top[w] # NULL /\ top[w] \in On(tx, U, w) /\ c \in Above(tx, top[w])
<1>1. c \in Walk(top[w], Under(tx, w))
  BY DEF Stacks, Reached
<1>2. top[w] # NULL
  BY <1>1, WalkNull
<1> QED BY <1>1, <1>2, StackAbove DEF Stacks, Tops

\* A call that w waits for and that is not on top of its stack is under one that w serves.
LEMMA UnderServed ==
    ASSUME NEW tx, NEW top, NEW U, NEW dest, NEW X, Typed(tx, top, U), Stacks(tx, top, U, dest, X),
           NEW w \in Thread, NEW c \in CallsOf(tx), tx[c].from = w, top[w] # c
    PROVE  \E y \in CallsOf(tx) : tx[y].to_thread = w /\ tx[y].to_parent = c /\ y # c
<1>1. c \in Walk(top[w], Under(tx, w))
  BY DEF Stacks, Reached, On
<1>2. PICK y \in Walk(top[w], Under(tx, w)) : Under(tx, w)[y] = c
  BY <1>1, FieldTypes, WalkPrev
<1>3. y \in On(tx, U, w)
  BY StackAbove DEF Stacks
<1>4. y \in CallsOf(tx) /\ y \in Txn /\ c \in Txn /\ w # NULL /\ c # NULL
  BY <1>3, Distinct DEF On, CallsOf
<1>5. CASE tx[y].to_thread = w
  <2>1. tx[y].to_parent = c
    BY <1>2, <1>4, <1>5 DEF Under
  <2>2. y # c
    BY <1>4, <1>5 DEF Stacks, Apart
  <2> QED BY <1>4, <1>5, <2>1, <2>2
<1>6. CASE tx[y].to_thread # w
  <2>1. tx[y].from_parent = c /\ tx[y].from = w
    BY <1>2, <1>3, <1>4, <1>6 DEF Under, On
  <2>2. tx[c].to_thread = w
    BY <1>4, <2>1 DEF Stacks, Parents
  <2> QED BY <1>4, <2>2 DEF Stacks, Apart
<1> QED BY <1>5, <1>6

Leaf(tx, t) == \A c \in CallsOf(tx) : tx[c].from_parent # t

\* A call that another one is above has a child.
LEMMA AboveHasChild ==
    ASSUME NEW tx, NEW top, NEW U, Typed(tx, top, U), Parents(tx, U),
           NEW c \in CallsOf(tx) \cup {NULL}, NEW x \in Above(tx, c), x # c
    PROVE  \E z \in CallsOf(tx) : z \in Above(tx, c) /\ tx[z].from_parent = x
<1>1. c \in Txn \cup {NULL}
  BY DEF CallsOf
<1>2. PICK z \in Above(tx, c) : Up(tx)[z] = x
  BY <1>1, FieldTypes, WalkPrev DEF Above
<1>3. z \in CallsOf(tx) /\ z \in Txn
  BY AboveCalls DEF CallsOf
<1> QED BY <1>2, <1>3, FieldTypes

\* Calls are in a line: what is below a call that is above a leaf is above that leaf.
LEMMA OneLine ==
    ASSUME NEW tx, NEW top, NEW U, Typed(tx, top, U), Parents(tx, U),
           NEW s \in CallsOf(tx), Leaf(tx, s), NEW y \in CallsOf(tx),
           NEW x \in Above(tx, s), x \in Above(tx, y)
    PROVE  y \in Above(tx, s)
<1>1. PICK S : S = {z \in Above(tx, s) : \A d \in CallsOf(tx) : z \in Above(tx, d) => d \in Above(tx, s)}
  OBVIOUS
<1>2. S \in SUBSET Txn
  BY <1>1, WalkTxn DEF Above
<1>3. s \in S
  <2>1. s \in Above(tx, s)
    BY WalkStart DEF Above, CallsOf
  <2>2. ASSUME NEW d \in CallsOf(tx), s \in Above(tx, d)
        PROVE  d \in Above(tx, s)
    BY <2>1, <2>2, AboveHasChild DEF Leaf
  <2> QED BY <1>1, <2>1, <2>2
<1>4. ASSUME NEW z \in S, Up(tx)[z] # NULL
      PROVE  Up(tx)[z] \in S
  <2>1. PICK q : q = Up(tx)[z]
    OBVIOUS
  <2>2. z \in CallsOf(tx) /\ z \in Txn
    BY <1>1, <1>2, AboveCalls
  <2>3. q = tx[z].from_parent /\ q # NULL
    BY <1>4, <2>1, <2>2, FieldTypes
  <2>4. q \in Above(tx, s)
    BY <1>1, <1>4, <2>1, FieldTypes, WalkNext DEF Above
  <2>5. ASSUME NEW d \in CallsOf(tx), q \in Above(tx, d)
        PROVE  d \in Above(tx, s)
    <3>1. CASE d = q
      BY <2>4, <3>1
    <3>2. CASE d # q
      <4>1. PICK e \in CallsOf(tx) : e \in Above(tx, d) /\ tx[e].from_parent = q
        BY <2>5, <3>2, AboveHasChild
      <4>2. e = z
        BY <2>2, <2>3, <4>1 DEF Parents
      <4> QED BY <1>1, <4>1, <4>2
    <3> QED BY <3>1, <3>2
  <2> QED BY <1>1, <2>1, <2>4, <2>5
<1>5. Above(tx, s) \subseteq S
  BY <1>2, <1>3, <1>4, WalkIn DEF Above
<1> QED BY <1>1, <1>5

\* Nothing is made for a call that has not been delivered.
LEMMA UndeliveredLeaf ==
    ASSUME NEW tx, NEW U, Parents(tx, U), NEW t \in U, t # NULL
    PROVE  Leaf(tx, t)
BY DEF Parents, Leaf

\* A thread that serves the call on top of its stack has made no call for it.
LEMMA ServedLeaf ==
    ASSUME NEW tx, NEW top, NEW U, NEW dest, NEW X, Typed(tx, top, U), Stacks(tx, top, U, dest, X),
           NEW w \in Thread, top[w] # NULL, tx[top[w]].to_thread = w
    PROVE  Leaf(tx, top[w])
BY DEF Stacks, Tops, Parents, Leaf

\* A call that nothing is made for is above itself only.
LEMMA LeafAbove ==
    ASSUME NEW tx, NEW top, NEW U, Typed(tx, top, U), Parents(tx, U),
           NEW t \in CallsOf(tx), Leaf(tx, t), NEW c \in CallsOf(tx) \cup {NULL}, t \in Above(tx, c)
    PROVE  c = t
BY AboveHasChild DEF Leaf

\* Pointers of calls lead to calls.
LEMMA CallsClosed ==
    ASSUME NEW tx, NEW top, NEW U, Typed(tx, top, U), Parents(tx, U), Nested(tx, U)
    PROVE  /\ CallsOf(tx) \in SUBSET Txn
           /\ \A y \in CallsOf(tx) : Up(tx)[y] \in CallsOf(tx) \cup {NULL}
           /\ \A w : \A y \in CallsOf(tx) : Under(tx, w)[y] \in CallsOf(tx) \cup {NULL}
<1>1. CallsOf(tx) \in SUBSET Txn
  BY DEF CallsOf
<1>2. \A y \in CallsOf(tx) : Up(tx)[y] \in CallsOf(tx) \cup {NULL}
  BY <1>1, FieldTypes DEF Parents
<1>3. ASSUME NEW w, NEW y \in CallsOf(tx)
      PROVE  Under(tx, w)[y] \in CallsOf(tx) \cup {NULL}
  <2>1. Under(tx, w)[y] = IF tx[y].to_thread = w THEN tx[y].to_parent ELSE tx[y].from_parent
    BY <1>1 DEF Under
  <2> QED BY <2>1 DEF Parents, Nested
<1> QED BY <1>1, <1>2, <1>3

-----------------------------------------------------------------------------
(* The steps of the driver keep the shape *)

\* Two states of memory agree on the stack pointers of t.
Agree(tx, ty, t) ==
    /\ ty[t].kind = tx[t].kind
    /\ ty[t].from = tx[t].from /\ ty[t].from_parent = tx[t].from_parent
    /\ ty[t].to_thread = tx[t].to_thread /\ ty[t].to_parent = tx[t].to_parent

\* Memory that is not that of a call does not matter.
LEMMA OtherMemory ==
    ASSUME NEW tx, NEW top, NEW U, NEW dest, NEW X, Typed(tx, top, U), Stacks(tx, top, U, dest, X),
           NEW ty, NEW V, NEW dest2, Typed(ty, top, V), CallsOf(ty) = CallsOf(tx),
           \A t \in CallsOf(tx) : Agree(tx, ty, t) /\ (t \in V <=> t \in U),
           \A t \in CallsOf(tx) : t \in U => dest2[t] = dest[t]
    PROVE  Stacks(ty, top, V, dest2, X)
<1>1. PICK C : C = CallsOf(tx)
  OBVIOUS
<1>2. /\ CallsOf(ty) = C /\ C \in SUBSET Txn
      /\ \A t \in C : /\ ty[t].from = tx[t].from /\ ty[t].from_parent = tx[t].from_parent
                      /\ ty[t].to_thread = tx[t].to_thread /\ ty[t].to_parent = tx[t].to_parent
                      /\ (t \in V <=> t \in U)
  BY <1>1 DEF Agree, CallsOf
<1>3. /\ Up(tx) \in Pointers /\ Up(ty) \in Pointers
      /\ \A w : Under(tx, w) \in Pointers /\ Under(ty, w) \in Pointers
  BY FieldTypes
<1>4. \A y \in C : Up(tx)[y] \in C \cup {NULL} /\ Up(ty)[y] = Up(tx)[y]
  BY <1>1, <1>2, CallsClosed DEF Stacks, Up
<1>5. \A w : \A y \in C : Under(tx, w)[y] \in C \cup {NULL} /\ Under(ty, w)[y] = Under(tx, w)[y]
  <2>1. \A w : \A y \in C : Under(tx, w)[y] \in C \cup {NULL}
    BY <1>1, CallsClosed DEF Stacks
  <2>2. \A w : \A y \in C : Under(ty, w)[y] = Under(tx, w)[y]
    BY <1>2 DEF Under
  <2> QED BY <2>1, <2>2
<1>6. \A c \in C \cup {NULL} : Above(ty, c) = Above(tx, c)
  BY <1>2, <1>3, <1>4, WalkSame DEF Above
<1>7. \A w : \A c \in C \cup {NULL} : Walk(c, Under(ty, w)) = Walk(c, Under(tx, w))
  BY <1>2, <1>3, <1>5, WalkSame
<1>8. \A w : On(ty, V, w) = On(tx, U, w)
  BY <1>1, <1>2 DEF On
<1>9. Parents(ty, V)
  BY <1>1, <1>2 DEF Stacks, Parents
<1>10. Nested(ty, V)
  <2>1. \A c \in C : tx[c].from_parent \in C \cup {NULL}
    BY <1>1 DEF Stacks, Parents
  <2>2. \A c \in C : Above(ty, ty[c].from_parent) = Above(tx, tx[c].from_parent)
    BY <1>2, <1>6, <2>1
  <2> QED BY <1>1, <1>2, <2>2 DEF Stacks, Nested
<1>11. Tops(ty, top, V)
  BY <1>1, <1>2, <1>8 DEF Stacks, Tops
<1>12. Reached(ty, top, V)
  <2>1. \A w \in Thread : top[w] \in C \cup {NULL}
    BY <1>1 DEF Stacks, Tops, On
  <2> QED BY <1>7, <1>8, <2>1 DEF Stacks, Reached
<1>13. Apart(ty)
  BY <1>1, <1>2 DEF Stacks, Apart
<1>14. OneServer(ty, V, dest2)
  <2>1. \A c \in C : Above(ty, c) = Above(tx, c) /\ Above(tx, c) \subseteq C
    BY <1>1, <1>6, AboveCalls DEF Stacks
  <2> QED BY <1>1, <1>2, <2>1 DEF Stacks, OneServer
<1>15. Targets(ty, top, V, X)
  <2>1. \A c \in C : tx[c].from_parent \in C \cup {NULL}
    BY <1>1 DEF Stacks, Parents
  <2>2. \A c \in C : Above(ty, ty[c].from_parent) = Above(tx, tx[c].from_parent)
    BY <1>2, <1>6, <2>1
  <2>3. \A w \in Thread : top[w] # NULL => top[w] \in C
    BY <1>1 DEF Stacks, Tops, On
  <2>4. \A c \in C : tx[c].to_thread \in Thread \cup {NULL}
    BY <1>2, FieldTypes
  <2> QED BY <1>1, <1>2, <2>2, <2>3, <2>4 DEF Stacks, Targets
<1> QED BY <1>9, <1>10, <1>11, <1>12, <1>13, <1>14, <1>15 DEF Stacks

\* The thread that TargetThread finds waits for a call above s, on top of its stack.
LEMMA WaitingTop ==
    ASSUME NEW tx, NEW top, NEW U, NEW dest, NEW X, Typed(tx, top, U), Stacks(tx, top, U, dest, X),
           NEW s \in CallsOf(tx), Leaf(tx, s), NEW u \in Thread, tx[s].to_thread # u,
           NEW x \in Above(tx, s), tx[x].from = u
    PROVE  top[u] # NULL /\ tx[top[u]].from = u /\ top[u] \in Above(tx, s)
<1>1. x \in On(tx, U, u)
  BY AboveCalls DEF Stacks, On
<1>2. PICK z : z = top[u]
  OBVIOUS
<1>3. z # NULL /\ z \in On(tx, U, u) /\ x \in Above(tx, z)
  BY <1>1, <1>2, CallHasTop
<1>4. z \in CallsOf(tx)
  BY <1>3 DEF On
<1>5. z \in Above(tx, s)
  BY <1>3, <1>4, OneLine DEF Stacks
<1>6. tx[z].from = u
  <2> SUFFICES ASSUME tx[z].from # u
               PROVE  FALSE
    OBVIOUS
  <2>1. tx[z].to_thread = u
    BY <1>3 DEF On
  <2>2. Leaf(tx, z)
    BY <1>2, <1>3, <2>1, ServedLeaf
  <2>3. s = z
    BY <1>4, <1>5, <2>2, LeafAbove DEF Stacks
  <2> QED BY <2>1, <2>3
<1> QED BY <1>2, <1>3, <1>5, <1>6

\* All threads of a process that wait for a call above s are one.
LEMMA OneWaits ==
    ASSUME NEW tx, NEW top, NEW U, NEW dest, NEW X, Typed(tx, top, U), Stacks(tx, top, U, dest, X),
           NEW s \in CallsOf(tx), NEW x \in Above(tx, s), NEW y \in Above(tx, s),
           tx[x].from # NULL, tx[y].from # NULL, ProcOf[tx[x].from] = ProcOf[tx[y].from]
    PROVE  tx[x].from = tx[y].from
<1>1. ASSUME NEW a \in Above(tx, s), NEW b \in Above(tx, s), b \in Above(tx, a),
             tx[a].from # NULL, tx[b].from # NULL, ProcOf[tx[a].from] = ProcOf[tx[b].from]
      PROVE  tx[a].from = tx[b].from
  <2>1. a \in CallsOf(tx) /\ b \in CallsOf(tx) /\ a \in Txn
    BY AboveCalls DEF Stacks, CallsOf
  <2>2. CASE a = b
    BY <2>2
  <2>3. CASE a # b
    <3>1. PICK q : q = tx[a].from_parent
      OBVIOUS
    <3>2. b \in Above(tx, q)
      BY <1>1, <2>1, <2>3, <3>1, AboveFirst
    <3>3. q # NULL
      BY <3>2, WalkNull DEF Above
    <3>4. q \in CallsOf(tx) /\ tx[q].to_thread = tx[a].from
      BY <2>1, <3>1, <3>3 DEF Stacks, Parents
    <3> QED BY <1>1, <3>2, <3>4 DEF Stacks, OneServer
  <2> QED BY <2>2, <2>3
<1>2. s \in Txn
  BY DEF CallsOf
<1>3. y \in Above(tx, x) \/ x \in Above(tx, y)
  BY <1>2, FieldTypes, WalkLine DEF Above
<1> QED BY <1>1, <1>3

\* BC_TRANSACTION: th makes the call t, for the one it serves.
LEMMA Pushed ==
    ASSUME NEW tx, NEW top, NEW U, NEW dest, NEW X, Typed(tx, top, U), Stacks(tx, top, U, dest, X),
           NEW ty, NEW top2, NEW V, NEW dest2, Typed(ty, top2, V),
           NEW th \in Thread, NEW p \in Proc, ProcOf[th] # p, NEW t \in Txn, t \notin CallsOf(tx),
           NEW u \in Thread \cup {NULL},
           top[th] # NULL => tx[top[th]].to_thread = th,
           u = NULL => \A x \in Above(tx, top[th]) : tx[x].from # NULL => ProcOf[tx[x].from] # p,
           u # NULL => ProcOf[u] = p /\ \E x \in Above(tx, top[th]) : tx[x].from = u,
           ty[t].kind = "call", ty[t].from = th, ty[t].from_parent = top[th],
           ty[t].to_thread = u, ty[t].to_parent = NULL,
           \A x \in Txn : x # t => ty[x] = tx[x],
           top2[th] = t, \A w \in Thread : w # th => top2[w] = top[w],
           V = U \cup {t}, dest2[t] = p,
           \A c \in CallsOf(tx) : c \in U => dest2[c] = dest[c]
    PROVE  Stacks(ty, top2, V, dest2, X)
<1>1. PICK C, s : C = CallsOf(tx) /\ s = top[th]
  OBVIOUS
<1>2. C \in SUBSET Txn /\ t \notin C /\ CallsOf(ty) = C \cup {t} /\ th # NULL
  BY <1>1, Distinct DEF CallsOf
<1>3. s \in C \cup {NULL}
  BY <1>1 DEF Stacks, Tops, On
<1>4. s # t
  BY <1>2, <1>3, NullTxn
<1>5. /\ Up(tx) \in Pointers /\ Up(ty) \in Pointers
      /\ \A w : Under(tx, w) \in Pointers /\ Under(ty, w) \in Pointers
  BY FieldTypes
<1>6. \A y \in C : Up(tx)[y] \in C \cup {NULL} /\ Up(ty)[y] = Up(tx)[y]
  BY <1>1, <1>2, CallsClosed DEF Stacks, Up
<1>7. \A w : \A y \in C : Under(tx, w)[y] \in C \cup {NULL} /\ Under(ty, w)[y] = Under(tx, w)[y]
  <2>1. \A w : \A y \in C : Under(tx, w)[y] \in C \cup {NULL}
    BY <1>1, CallsClosed DEF Stacks
  <2>2. \A w : \A y \in C : Under(ty, w)[y] = Under(tx, w)[y]
    BY <1>2 DEF Under
  <2> QED BY <2>1, <2>2
<1>8. \A c \in C \cup {NULL} : Above(ty, c) = Above(tx, c)
  BY <1>2, <1>5, <1>6, WalkSame DEF Above
<1>9. \A c \in C \cup {NULL} : Above(tx, c) \subseteq C
  BY <1>1, AboveCalls DEF Stacks
<1>10. Above(ty, t) = {t} \cup Above(tx, s)
  BY <1>1, <1>3, <1>8, AboveFirst
<1>11. \A w : \A c \in C \cup {NULL} : Walk(c, Under(ty, w)) = Walk(c, Under(tx, w))
  BY <1>2, <1>5, <1>7, WalkSame
<1>12. s # NULL => s \in C /\ s \notin U /\ tx[s].to_thread = th /\ tx[s].from # th /\ Leaf(tx, s)
  <2>1. s # NULL => tx[s].to_thread = th /\ tx[s].from # th
    BY <1>1, <1>2, <1>3 DEF Stacks, Apart
  <2>2. s # NULL => s \notin U
    BY <1>1, <2>1 DEF Stacks, Tops, On
  <2>3. s # NULL => Leaf(tx, s)
    BY <1>1, <2>1, ServedLeaf
  <2> QED BY <1>3, <2>1, <2>2, <2>3
<1>13. \A c \in C : /\ ty[c] = tx[c] /\ (c \in V <=> c \in U)
                    /\ tx[c].from_parent \in C \cup {NULL} /\ tx[c].to_parent \in C \cup {NULL}
  BY <1>1, <1>2 DEF Stacks, Parents, Nested
<1>14. u # th
  BY <1>2
<1>15. Parents(ty, V)
  <2>1. ASSUME NEW c \in C \cup {t}, ty[c].from_parent # NULL
        PROVE  /\ ty[c].from_parent \in C /\ ty[c].from_parent \notin V
               /\ ty[ty[c].from_parent].to_thread = ty[c].from
    <3>1. CASE c = t
      BY <1>1, <1>12, <1>13, <2>1, <3>1
    <3>2. CASE c \in C
      BY <1>1, <1>13, <2>1, <3>2 DEF Stacks, Parents
    <3> QED BY <3>1, <3>2
  <2>2. ASSUME NEW c \in C \cup {t}, NEW d \in C \cup {t}, ty[c].from_parent = ty[d].from_parent,
               ty[c].from_parent # NULL, c # d
        PROVE  FALSE
    <3>1. CASE c = t
      <4>1. d \in C /\ tx[d].from_parent = s /\ s # NULL
        BY <1>1, <1>13, <2>2, <3>1
      <4> QED BY <1>1, <1>12, <4>1 DEF Leaf
    <3>2. CASE d = t
      <4>1. c \in C /\ tx[c].from_parent = s /\ s # NULL
        BY <1>1, <1>13, <2>2, <3>2
      <4> QED BY <1>1, <1>12, <4>1 DEF Leaf
    <3>3. CASE c \in C /\ d \in C
      BY <1>1, <1>13, <2>2, <3>3 DEF Stacks, Parents
    <3> QED BY <3>1, <3>2, <3>3
  <2> QED BY <1>2, <2>1, <2>2 DEF Parents
<1>16. Nested(ty, V)
  <2>1. \A c \in C : Above(ty, ty[c].from_parent) = Above(tx, tx[c].from_parent)
    BY <1>8, <1>13
  <2>2. \A c \in C : tx[c].to_parent # NULL =>
           /\ c \notin U /\ tx[c].to_parent \in C
           /\ tx[tx[c].to_parent].from = tx[c].to_thread
           /\ tx[c].to_parent \in Above(tx, tx[c].from_parent)
    BY <1>1 DEF Stacks, Nested
  <2>3. \A c, d \in C : tx[c].to_parent = tx[d].to_parent /\ tx[c].to_parent # NULL => c = d
    BY <1>1 DEF Stacks, Nested
  <2> QED BY <1>2, <1>13, <2>1, <2>2, <2>3 DEF Nested
<1>17. Tops(ty, top2, V)
  <2>1. ASSUME NEW w \in Thread, top2[w] # NULL
        PROVE  top2[w] \in On(ty, V, w)
    <3>1. CASE w = th
      BY <1>2, <3>1 DEF On
    <3>2. CASE w # th
      <4>1. top[w] \in On(tx, U, w)
        BY <2>1, <3>2 DEF Stacks, Tops
      <4> QED BY <1>1, <1>2, <1>13, <3>2, <4>1 DEF On
    <3> QED BY <3>1, <3>2
  <2>2. ASSUME NEW w \in Thread, NEW c \in C \cup {t}, ty[c].from = w, ty[c].from_parent # NULL
        PROVE  ty[c].from_parent # top2[w]
    <3>1. CASE c = t
      BY <1>1, <1>4, <2>2, <3>1
    <3>2. CASE c # t /\ w = th
      <4>1. ty[c].from_parent \in C
        BY <1>13, <2>2, <3>2
      <4> QED BY <1>2, <3>2, <4>1
    <3>3. CASE c # t /\ w # th
      BY <1>1, <1>13, <2>2, <3>3 DEF Stacks, Tops
    <3> QED BY <3>1, <3>2, <3>3
  <2>3. ASSUME NEW w \in Thread, NEW c \in C \cup {t}, ty[c].to_thread = w, ty[c].to_parent # NULL
        PROVE  ty[c].to_parent # top2[w]
    <3>1. c \in C
      BY <2>3
    <3>2. CASE w = th
      <4>1. ty[c].to_parent \in C
        BY <1>13, <2>3, <3>1
      <4> QED BY <1>2, <3>2, <4>1
    <3>3. CASE w # th
      BY <1>1, <1>13, <2>3, <3>1, <3>3 DEF Stacks, Tops
    <3> QED BY <3>2, <3>3
  <2> QED BY <1>2, <2>1, <2>2, <2>3 DEF Tops
<1>18. Reached(ty, top2, V)
  <2>1. ASSUME NEW w \in Thread, NEW c \in On(ty, V, w)
        PROVE  c \in Walk(top2[w], Under(ty, w))
    <3>1. \A v \in Thread : top[v] \in C \cup {NULL}
      BY <1>1 DEF Stacks, Tops, On
    <3>2. c \in C \cup {t} /\ (ty[c].from = w \/ (c \notin V /\ ty[c].to_thread = w))
      BY <1>2 DEF On
    <3>3. c \in C => c \in On(tx, U, w)
      BY <1>1, <1>13, <3>2 DEF On
    <3>4. c \in C => c \in Walk(top[w], Under(ty, w))
      BY <1>11, <3>1, <3>3 DEF Stacks, Reached
    <3>5. CASE w = th
      <4>1. Under(ty, th)[t] = s
        BY <1>1, <1>14 DEF Under
      <4>2. Walk(t, Under(ty, th)) = {t} \cup Walk(s, Under(ty, th))
        BY <1>5, <4>1, WalkFirst
      <4> QED BY <1>1, <3>2, <3>4, <3>5, <4>2
    <3>6. CASE w # th
      BY <3>2, <3>4, <3>6
    <3> QED BY <3>5, <3>6
  <2> QED BY <2>1 DEF Reached
<1>19. Apart(ty)
  BY <1>1, <1>2, <1>13 DEF Stacks, Apart
<1>20. \A x \in Above(tx, s) : /\ u = NULL => (tx[x].from # NULL => ProcOf[tx[x].from] # p)
                               /\ u # NULL /\ tx[x].from # NULL /\ ProcOf[tx[x].from] = p => tx[x].from = u
  <2>1. CASE u = NULL
    BY <1>1, <2>1
  <2>2. CASE u # NULL
    <3>1. PICK y \in Above(tx, s) : tx[y].from = u
      BY <1>1, <2>2
    <3>2. s # NULL
      BY <3>1, WalkNull DEF Above
    <3>3. s \in CallsOf(tx)
      BY <1>1, <1>3, <3>2
    <3> QED BY <2>2, <3>1, <3>3, OneWaits
  <2> QED BY <2>1, <2>2
<1>21. OneServer(ty, V, dest2)
  <2>1. \A c \in C : Above(ty, c) = Above(tx, c) /\ Above(tx, c) \subseteq C
    BY <1>8, <1>9
  <2>2. ASSUME NEW x \in Above(ty, t), ty[x].from # NULL
        PROVE  /\ u # NULL /\ ProcOf[ty[x].from] = ProcOf[u] => ty[x].from = u
               /\ u = NULL => ProcOf[ty[x].from] # p
    <3>1. CASE x = t
      BY <3>1
    <3>2. CASE x \in Above(tx, s)
      <4>1. ty[x] = tx[x]
        BY <1>3, <1>9, <1>13, <3>2
      <4> QED BY <1>20, <2>2, <3>2, <4>1
    <3> QED BY <1>10, <3>1, <3>2
  <2>3. \A c \in C : \A x \in Above(ty, c) :
          ty[x].from # NULL /\ ty[c].to_thread # NULL
          /\ ProcOf[ty[x].from] = ProcOf[ty[c].to_thread] => ty[x].from = ty[c].to_thread
    BY <1>1, <1>13, <2>1 DEF Stacks, OneServer
  <2>4. \A c \in C : \A x \in Above(ty, c) :
          ty[x].from # NULL /\ c \in V /\ ty[c].to_thread = NULL => ProcOf[ty[x].from] # dest2[c]
    BY <1>1, <1>13, <2>1 DEF Stacks, OneServer
  <2> QED BY <1>2, <2>2, <2>3, <2>4 DEF OneServer
<1>22. Targets(ty, top2, V, X)
  <2>1. ASSUME u # NULL
        PROVE  top2[u] # NULL /\ ty[top2[u]].from = u /\ top2[u] \in Above(ty, s)
    <3>1. PICK x \in Above(tx, s) : tx[x].from = u
      BY <1>1, <2>1
    <3>2. s # NULL
      BY <3>1, WalkNull DEF Above
    <3>3. s \in CallsOf(tx) /\ Leaf(tx, s) /\ tx[s].to_thread # u
      BY <1>1, <1>12, <1>14, <3>2
    <3>4. u \in Thread /\ top2[u] = top[u]
      BY <1>14, <2>1
    <3>5. top[u] # NULL /\ tx[top[u]].from = u /\ top[u] \in Above(tx, s)
      BY <3>1, <3>3, <3>4, WaitingTop
    <3>6. top[u] \in C
      BY <1>3, <1>9, <3>5
    <3> QED BY <1>3, <1>8, <1>13, <3>4, <3>5, <3>6
  <2>2. ASSUME NEW c \in C, c \in V, ty[c].to_thread # NULL, ty[c].to_thread # X
        PROVE  /\ top2[ty[c].to_thread] # NULL /\ ty[top2[ty[c].to_thread]].from = ty[c].to_thread
               /\ top2[ty[c].to_thread] \in Above(ty, ty[c].from_parent)
    <3>1. PICK w : w = tx[c].to_thread
      OBVIOUS
    <3>2. /\ w \in Thread /\ top[w] # NULL /\ tx[top[w]].from = w
          /\ top[w] \in Above(tx, tx[c].from_parent)
      <4>1. w \in Thread \cup {NULL} /\ w # NULL /\ w # X /\ c \in U
        BY <1>2, <1>13, <2>2, <3>1, FieldTypes
      <4> QED BY <1>1, <3>1, <4>1 DEF Stacks, Targets
    <3>3. w # th
      BY <1>1, <1>12, <3>2
    <3>4. top[w] \in C
      BY <1>9, <1>13, <3>2
    <3> QED BY <1>8, <1>13, <3>1, <3>2, <3>3, <3>4
  <2> QED BY <1>1, <1>2, <2>1, <2>2 DEF Targets
<1> QED BY <1>15, <1>16, <1>17, <1>18, <1>19, <1>21, <1>22 DEF Stacks

\* The pointers of calls to other calls, in one place.
LEMMA CallPointers ==
    ASSUME NEW tx, NEW top, NEW U, NEW dest, NEW X, Typed(tx, top, U), Stacks(tx, top, U, dest, X)
    PROVE  /\ \A c \in CallsOf(tx) :
                 /\ tx[c].from_parent \in CallsOf(tx) \cup {NULL}
                 /\ tx[c].to_parent \in CallsOf(tx) \cup {NULL}
                 /\ tx[c].from \in Thread \cup {NULL} /\ tx[c].to_thread \in Thread \cup {NULL}
           /\ \A w \in Thread : top[w] \in CallsOf(tx) \cup {NULL}
           /\ \A c \in CallsOf(tx) \cup {NULL} : Above(tx, c) \subseteq CallsOf(tx)
           /\ CallsOf(tx) \in SUBSET Txn
<1>1. CallsOf(tx) \in SUBSET Txn
  BY DEF CallsOf
<1>2. \A c \in CallsOf(tx) : tx[c].from \in Thread \cup {NULL} /\ tx[c].to_thread \in Thread \cup {NULL}
  BY <1>1, FieldTypes
<1>3. \A c \in CallsOf(tx) \cup {NULL} : Above(tx, c) \subseteq CallsOf(tx)
  BY AboveCalls DEF Stacks
<1>4. \A w \in Thread : top[w] \in CallsOf(tx) \cup {NULL}
  BY DEF Stacks, Tops, On
<1> QED BY <1>1, <1>2, <1>3, <1>4 DEF Stacks, Parents, Nested

\* A call that was sent to w is above no call, and w has not made it.
LEMMA QueuedCall ==
    ASSUME NEW tx, NEW top, NEW U, NEW dest, NEW X, Typed(tx, top, U), Stacks(tx, top, U, dest, X),
           NEW t \in CallsOf(tx), t \in U
    PROVE  /\ Leaf(tx, t) /\ t \notin Above(tx, tx[t].from_parent)
           /\ tx[t].to_parent = NULL
           /\ \A c \in CallsOf(tx) : tx[c].to_parent # t
<1>1. t # NULL
  BY NullTxn DEF CallsOf
<1>2. Leaf(tx, t)
  BY <1>1, UndeliveredLeaf DEF Stacks
<1>3. \A c \in CallsOf(tx) : tx[c].from_parent \in CallsOf(tx) \cup {NULL} /\ tx[c].from_parent # t
  BY <1>2, CallPointers DEF Leaf
<1>4. \A c \in CallsOf(tx) : t \notin Above(tx, tx[c].from_parent)
  BY <1>2, <1>3, LeafAbove DEF Stacks
<1>5. \A c \in CallsOf(tx) : tx[c].to_parent # t
  BY <1>1, <1>4 DEF Stacks, Nested
<1> QED BY <1>2, <1>4, <1>5 DEF Stacks, Nested

\* BR_TRANSACTION: w gets the call t, sent to it or to its process.
LEMMA Delivered ==
    ASSUME NEW tx, NEW top, NEW U, NEW dest, NEW X, Typed(tx, top, U), Stacks(tx, top, U, dest, X),
           NEW ty, NEW top2, NEW V, NEW dest2, Typed(ty, top2, V),
           NEW w \in Thread, w # X, NEW t \in CallsOf(tx), t \in U,
           \/ tx[t].to_thread = w
           \/ tx[t].to_thread = NULL /\ dest[t] = ProcOf[w] /\ top[w] = NULL,
           ty[t].kind = "call", ty[t].from = tx[t].from, ty[t].from_parent = tx[t].from_parent,
           ty[t].to_thread = w, ty[t].to_parent = top[w],
           \A x \in Txn : x # t => ty[x] = tx[x],
           top2[w] = t, \A v \in Thread : v # w => top2[v] = top[v],
           V = U \ {t}, \A c \in CallsOf(tx) : c \in V => dest2[c] = dest[c]
    PROVE  Stacks(ty, top2, V, dest2, X)
<1>1. PICK C, z : C = CallsOf(tx) /\ z = top[w]
  OBVIOUS
<1>2. C \in SUBSET Txn /\ CallsOf(ty) = C /\ t \in C /\ t \in Txn /\ w # NULL /\ t # NULL
  BY <1>1, Distinct DEF CallsOf
<1>3. /\ Leaf(tx, t) /\ t \notin Above(tx, tx[t].from_parent)
      /\ tx[t].to_parent = NULL /\ \A c \in C : tx[c].to_parent # t
  BY <1>1, QueuedCall
<1>4. /\ \A c \in C : /\ tx[c].from_parent \in C \cup {NULL} /\ tx[c].to_parent \in C \cup {NULL}
                      /\ tx[c].from \in Thread \cup {NULL} /\ tx[c].to_thread \in Thread \cup {NULL}
      /\ \A v \in Thread : top[v] \in C \cup {NULL}
      /\ \A c \in C \cup {NULL} : Above(tx, c) \subseteq C
  BY <1>1, CallPointers
<1>5. tx[t].from # w /\ (tx[t].from # NULL => ProcOf[tx[t].from] # ProcOf[w])
  <2>1. t \in Above(tx, t)
    BY <1>2, WalkStart DEF Above
  <2> QED BY <1>2, <2>1 DEF Stacks, Apart, OneServer
<1>6. z # NULL => tx[z].from = w /\ z \in Above(tx, tx[t].from_parent) /\ z # t
  BY <1>1, <1>2, <1>5 DEF Stacks, Targets
<1>7. \A c : Above(ty, c) = Above(tx, c)
  <2>1. Up(ty) = Up(tx)
    BY <1>2 DEF Up
  <2> QED BY <2>1 DEF Above
<1>8. \A c \in C : /\ ty[c].from = tx[c].from /\ ty[c].from_parent = tx[c].from_parent
                   /\ c # t => ty[c] = tx[c] /\ (c \in V <=> c \in U)
  BY <1>2
<1>9. Parents(ty, V)
  <2>1. ASSUME NEW c \in C, ty[c].from_parent # NULL
        PROVE  /\ ty[c].from_parent \in C /\ ty[c].from_parent \notin V
               /\ ty[ty[c].from_parent].to_thread = ty[c].from
    <3>1. /\ tx[c].from_parent \in C /\ tx[c].from_parent \notin U
          /\ tx[tx[c].from_parent].to_thread = tx[c].from
      BY <1>1, <1>8, <2>1 DEF Stacks, Parents
    <3>2. tx[c].from_parent # t
      BY <3>1
    <3> QED BY <1>8, <3>1, <3>2
  <2> QED BY <1>1, <1>2, <1>8, <2>1 DEF Stacks, Parents
<1>10. Nested(ty, V)
  <2>1. ASSUME NEW c \in C, ty[c].to_parent # NULL
        PROVE  /\ c \notin V /\ ty[c].to_parent \in C
               /\ ty[ty[c].to_parent].from = ty[c].to_thread
               /\ ty[c].to_parent \in Above(ty, ty[c].from_parent)
    <3>1. CASE c = t
      <4>1. z # NULL /\ z \in C /\ ty[c].to_parent = z
        BY <1>1, <1>4, <2>1, <3>1
      <4> QED BY <1>6, <1>7, <1>8, <3>1, <4>1
    <3>2. CASE c # t
      <4>1. /\ c \notin U /\ tx[c].to_parent \in C
            /\ tx[tx[c].to_parent].from = tx[c].to_thread
            /\ tx[c].to_parent \in Above(tx, tx[c].from_parent)
        BY <1>1, <1>8, <2>1, <3>2 DEF Stacks, Nested
      <4> QED BY <1>7, <1>8, <3>2, <4>1
    <3> QED BY <3>1, <3>2
  <2>2. ASSUME NEW c \in C, c # t, tx[c].to_parent = z, z # NULL
        PROVE  FALSE
    <3>1. tx[c].to_thread = w
      BY <1>1, <1>6, <2>2 DEF Stacks, Nested
    <3> QED BY <1>1, <2>2, <3>1 DEF Stacks, Tops
  <2>3. \A c, d \in C : ty[c].to_parent = ty[d].to_parent /\ ty[c].to_parent # NULL => c = d
    BY <1>1, <1>8, <2>2 DEF Stacks, Nested
  <2> QED BY <1>2, <2>1, <2>3 DEF Nested
<1>11. Tops(ty, top2, V)
  <2>1. ASSUME NEW v \in Thread, top2[v] # NULL
        PROVE  top2[v] \in On(ty, V, v)
    <3>1. CASE v = w
      BY <1>2, <3>1 DEF On
    <3>2. CASE v # w
      <4>1. top[v] \in On(tx, U, v)
        BY <2>1, <3>2 DEF Stacks, Tops
      <4> QED BY <1>1, <1>2, <1>8, <3>2, <4>1 DEF On
    <3> QED BY <3>1, <3>2
  <2>2. ASSUME NEW v \in Thread, NEW c \in C, ty[c].from = v, ty[c].from_parent # NULL
        PROVE  ty[c].from_parent # top2[v]
    <3>1. CASE v = w
      BY <1>1, <1>3, <1>8, <3>1 DEF Leaf
    <3>2. CASE v # w
      BY <1>1, <1>8, <2>2, <3>2 DEF Stacks, Tops
    <3> QED BY <3>1, <3>2
  <2>3. ASSUME NEW v \in Thread, NEW c \in C, ty[c].to_thread = v, ty[c].to_parent # NULL
        PROVE  ty[c].to_parent # top2[v]
    <3>1. CASE c = t
      BY <1>1, <1>6, <2>3, <3>1
    <3>2. CASE c # t /\ v = w
      BY <1>3, <1>8, <3>2
    <3>3. CASE c # t /\ v # w
      BY <1>1, <1>8, <2>3, <3>3 DEF Stacks, Tops
    <3> QED BY <3>1, <3>2, <3>3
  <2> QED BY <1>2, <2>1, <2>2, <2>3 DEF Tops
<1>12. Reached(ty, top2, V)
  <2>1. \A v : Under(tx, v) \in Pointers /\ Under(ty, v) \in Pointers
    BY FieldTypes
  <2>2. ASSUME NEW v \in Thread, NEW c \in On(ty, V, v)
        PROVE  c \in Walk(top2[v], Under(ty, v))
    <3>1. c \in C /\ (ty[c].from = v \/ (c \notin V /\ ty[c].to_thread = v))
      BY <1>2 DEF On
    <3>2. CASE v # w
      <4>1. c \in On(tx, U, v)
        BY <1>1, <1>8, <3>1, <3>2 DEF On
      <4>2. Under(ty, v) = Under(tx, v)
        BY <1>2, <3>2, Distinct DEF Under
      <4> QED BY <3>2, <4>1, <4>2 DEF Stacks, Reached
    <3>3. CASE v = w
      <4>1. PICK S : S = Walk(z, Under(tx, w))
        OBVIOUS
      <4>2. S \in SUBSET Txn /\ S \subseteq On(tx, U, w) /\ On(tx, U, w) \subseteq S
        BY <1>1, <4>1, WalkTxn, StackAbove DEF Stacks, Reached
      <4>3. t \notin S
        BY <1>5, <4>2 DEF On
      <4>4. z \in S \cup {NULL}
        BY <1>1, <1>2, <1>4, <4>1, WalkStart
      <4>5. \A y \in S : Under(tx, w)[y] \in S \cup {NULL}
        BY <2>1, <4>1, WalkNext
      <4>6. \A y \in S : Under(ty, w)[y] = Under(tx, w)[y]
        BY <4>2, <4>3 DEF Under
      <4>7. Walk(z, Under(ty, w)) = S
        BY <2>1, <4>1, <4>2, <4>4, <4>5, <4>6, WalkSame
      <4>8. Under(ty, w)[t] = z
        BY <1>1, <1>2 DEF Under
      <4>9. Walk(t, Under(ty, w)) = {t} \cup S
        BY <1>2, <2>1, <4>7, <4>8, WalkFirst
      <4>10. c # t => c \in On(tx, U, w)
        BY <1>1, <1>8, <3>1, <3>3 DEF On
      <4> QED BY <3>3, <4>2, <4>9, <4>10
    <3> QED BY <3>2, <3>3
  <2> QED BY <2>2 DEF Reached
<1>13. Apart(ty)
  BY <1>1, <1>2, <1>5, <1>8 DEF Stacks, Apart
<1>14. OneServer(ty, V, dest2)
  <2>1. ASSUME NEW x \in Above(tx, t), tx[x].from # NULL, ProcOf[tx[x].from] = ProcOf[w]
        PROVE  tx[x].from = w
    BY <1>2, <2>1 DEF Stacks, OneServer
  <2>2. \A c \in C : \A x \in Above(ty, c) :
          ty[x].from # NULL /\ ty[c].to_thread # NULL
          /\ ProcOf[ty[x].from] = ProcOf[ty[c].to_thread] => ty[x].from = ty[c].to_thread
    <3>1. ASSUME NEW c \in C, NEW x \in Above(ty, c), ty[x].from # NULL, ty[c].to_thread # NULL,
                 ProcOf[ty[x].from] = ProcOf[ty[c].to_thread]
          PROVE  ty[x].from = ty[c].to_thread
      <4>1. x \in C /\ x \in Above(tx, c) /\ ty[x].from = tx[x].from
        BY <1>4, <1>7, <1>8
      <4>2. CASE c = t
        BY <2>1, <3>1, <4>1, <4>2
      <4>3. CASE c # t
        BY <1>1, <1>8, <3>1, <4>1, <4>3 DEF Stacks, OneServer
      <4> QED BY <4>2, <4>3
    <3> QED BY <3>1
  <2>3. \A c \in C : \A x \in Above(ty, c) :
          ty[x].from # NULL /\ c \in V /\ ty[c].to_thread = NULL => ProcOf[ty[x].from] # dest2[c]
    <3>1. ASSUME NEW c \in C, NEW x \in Above(ty, c), ty[x].from # NULL, c \in V, ty[c].to_thread = NULL
          PROVE  ProcOf[ty[x].from] # dest2[c]
      <4>1. x \in C /\ x \in Above(tx, c) /\ ty[x].from = tx[x].from /\ c # t /\ c \in U /\ ty[c] = tx[c]
        BY <1>4, <1>7, <1>8, <3>1
      <4>2. dest2[c] = dest[c]
        BY <1>1, <3>1
      <4> QED BY <1>1, <3>1, <4>1, <4>2 DEF Stacks, OneServer
    <3> QED BY <3>1
  <2> QED BY <1>2, <2>2, <2>3 DEF OneServer
<1>15. Targets(ty, top2, V, X)
  <2>1. ASSUME NEW c \in C, c \in V, ty[c].to_thread # NULL, ty[c].to_thread # X
        PROVE  /\ top2[ty[c].to_thread] # NULL /\ ty[top2[ty[c].to_thread]].from = ty[c].to_thread
               /\ top2[ty[c].to_thread] \in Above(ty, ty[c].from_parent)
    <3>1. PICK v \in Thread : v = ty[c].to_thread /\ v = tx[c].to_thread /\ c # t /\ c \in U
      BY <1>4, <1>8, <2>1
    <3>2. top[v] # NULL /\ tx[top[v]].from = v /\ top[v] \in Above(tx, tx[c].from_parent)
      BY <1>1, <2>1, <3>1 DEF Stacks, Targets
    <3>3. CASE v # w
      BY <1>4, <1>7, <1>8, <3>1, <3>2, <3>3
    <3>4. CASE v = w
      <4>1. z # NULL /\ z \in Above(tx, tx[c].from_parent) /\ z \in Above(tx, tx[t].from_parent)
        BY <1>1, <1>6, <3>2, <3>4
      <4>2. z \in Above(tx, c) /\ z \in Above(tx, t)
        BY <1>2, <4>1, AboveFirst
      <4>3. c \in Above(tx, t)
        BY <1>1, <1>3, <4>2, OneLine DEF Stacks
      <4>4. Leaf(tx, c)
        BY <1>1, <3>1, QueuedCall
      <4>5. t = c
        BY <1>1, <4>3, <4>4, LeafAbove DEF Stacks
      <4> QED BY <3>1, <4>5
    <3> QED BY <3>3, <3>4
  <2> QED BY <1>2, <2>1 DEF Targets
<1> QED BY <1>9, <1>10, <1>11, <1>12, <1>13, <1>14, <1>15 DEF Stacks

\* The call t leaves the list it waits on, undelivered.
LEMMA Unqueued ==
    ASSUME NEW tx, NEW top, NEW U, NEW dest, NEW X, Typed(tx, top, U), Stacks(tx, top, U, dest, X),
           NEW ty, NEW V, NEW dest2, Typed(ty, top, V),
           NEW t \in CallsOf(tx), t \in U,
           ty[t].kind = "call", ty[t].from = tx[t].from, ty[t].from_parent = tx[t].from_parent,
           ty[t].to_thread = NULL, ty[t].to_parent = NULL,
           \A x \in Txn : x # t => ty[x] = tx[x],
           V = U \ {t}, \A c \in CallsOf(tx) : c \in V => dest2[c] = dest[c]
    PROVE  Stacks(ty, top, V, dest2, X) /\ Leaf(ty, t)
<1>1. PICK C : C = CallsOf(tx)
  OBVIOUS
<1>2. C \in SUBSET Txn /\ CallsOf(ty) = C /\ t \in C /\ t \in Txn /\ t # NULL
  BY <1>1, NullTxn DEF CallsOf
<1>3. /\ Leaf(tx, t) /\ tx[t].to_parent = NULL
  BY <1>1, QueuedCall
<1>4. /\ \A c \in C : /\ tx[c].from_parent \in C \cup {NULL} /\ tx[c].to_parent \in C \cup {NULL}
                      /\ tx[c].from \in Thread \cup {NULL} /\ tx[c].to_thread \in Thread \cup {NULL}
      /\ \A v \in Thread : top[v] \in C \cup {NULL}
      /\ \A c \in C \cup {NULL} : Above(tx, c) \subseteq C
  BY <1>1, CallPointers
<1>5. \A c : Above(ty, c) = Above(tx, c)
  <2>1. Up(ty) = Up(tx)
    BY <1>2 DEF Up
  <2> QED BY <2>1 DEF Above
<1>6. \A c \in C : /\ ty[c].from = tx[c].from /\ ty[c].from_parent = tx[c].from_parent
                   /\ ty[c].to_parent = tx[c].to_parent
                   /\ c # t => ty[c] = tx[c] /\ (c \in V <=> c \in U)
  BY <1>2, <1>3
<1>7. Parents(ty, V)
  <2>1. \A c \in C : tx[c].from_parent # t
    BY <1>1, <1>3 DEF Leaf
  <2> QED BY <1>1, <1>2, <1>6, <2>1 DEF Stacks, Parents
<1>8. Nested(ty, V)
  <2>1. ASSUME NEW c \in C, ty[c].to_parent # NULL
        PROVE  /\ c \notin V /\ ty[c].to_parent \in C
               /\ ty[ty[c].to_parent].from = ty[c].to_thread
               /\ ty[c].to_parent \in Above(ty, ty[c].from_parent)
    <3>1. c # t
      BY <2>1
    <3>2. /\ c \notin U /\ tx[c].to_parent \in C
          /\ tx[tx[c].to_parent].from = tx[c].to_thread
          /\ tx[c].to_parent \in Above(tx, tx[c].from_parent)
      BY <1>1, <1>6, <2>1 DEF Stacks, Nested
    <3> QED BY <1>5, <1>6, <3>1, <3>2
  <2> QED BY <1>1, <1>2, <1>6, <2>1 DEF Stacks, Nested
<1>9. \A v \in Thread : On(ty, V, v) = On(tx, U, v)
  <2>1. NULL \notin Thread
    BY Distinct
  <2> QED BY <1>1, <1>2, <1>6, <2>1 DEF On
<1>10. Tops(ty, top, V)
  <2>1. \A v \in Thread : top[v] # NULL => top[v] \in On(ty, V, v)
    BY <1>9 DEF Stacks, Tops
  <2>2. \A v \in Thread, c \in C : ty[c].from = v /\ ty[c].from_parent # NULL => ty[c].from_parent # top[v]
    BY <1>1, <1>6 DEF Stacks, Tops
  <2>3. ASSUME NEW v \in Thread, NEW c \in C, ty[c].to_thread = v, ty[c].to_parent # NULL
        PROVE  ty[c].to_parent # top[v]
    <3>1. c # t
      BY <2>3
    <3> QED BY <1>1, <1>6, <2>3, <3>1 DEF Stacks, Tops
  <2> QED BY <1>2, <2>1, <2>2, <2>3 DEF Tops
<1>11. Reached(ty, top, V)
  <2>1. \A v : Under(tx, v) \in Pointers /\ Under(ty, v) \in Pointers
    BY FieldTypes
  <2>2. ASSUME NEW v \in Thread
        PROVE  On(ty, V, v) \subseteq Walk(top[v], Under(ty, v))
    <3>1. PICK S : S = Walk(top[v], Under(tx, v))
      OBVIOUS
    <3>2. S \in SUBSET Txn /\ S \subseteq On(tx, U, v) /\ On(tx, U, v) \subseteq S
      BY <3>1, WalkTxn, StackAbove DEF Stacks, Reached
    <3>3. top[v] \in S \cup {NULL}
      BY <1>2, <1>4, <3>1, WalkStart
    <3>4. \A y \in S : Under(tx, v)[y] \in S \cup {NULL}
      BY <2>1, <3>1, WalkNext
    <3>5. ASSUME NEW y \in S
          PROVE  Under(ty, v)[y] = Under(tx, v)[y]
      <4>1. CASE y # t
        BY <3>2, <4>1 DEF Under
      <4>2. CASE y = t
        <5>1. tx[t].from = v /\ v # NULL
          BY <3>2, <4>2, Distinct DEF On
        <5>2. tx[t].to_thread # v
          BY <5>1 DEF Stacks, Apart
        <5> QED BY <1>2, <4>2, <5>1, <5>2 DEF Under
      <4> QED BY <4>1, <4>2
    <3>6. Walk(top[v], Under(ty, v)) = S
      BY <2>1, <3>1, <3>2, <3>3, <3>4, <3>5, WalkSame
    <3> QED BY <1>9, <3>2, <3>6
  <2> QED BY <2>2 DEF Reached
<1>12. Apart(ty)
  BY <1>1, <1>2, <1>6 DEF Stacks, Apart
<1>13. OneServer(ty, V, dest2)
  <2>1. ASSUME NEW c \in C, NEW x \in Above(ty, c), ty[x].from # NULL, ty[c].to_thread # NULL,
               ProcOf[ty[x].from] = ProcOf[ty[c].to_thread]
        PROVE  ty[x].from = ty[c].to_thread
    <3>1. x \in C /\ x \in Above(tx, c) /\ ty[x].from = tx[x].from /\ c # t
      BY <1>4, <1>5, <1>6, <2>1
    <3> QED BY <1>1, <1>6, <2>1, <3>1 DEF Stacks, OneServer
  <2>2. ASSUME NEW c \in C, NEW x \in Above(ty, c), ty[x].from # NULL, c \in V, ty[c].to_thread = NULL
        PROVE  ProcOf[ty[x].from] # dest2[c]
    <3>1. x \in C /\ x \in Above(tx, c) /\ ty[x].from = tx[x].from /\ c # t /\ c \in U /\ ty[c] = tx[c]
      BY <1>4, <1>5, <1>6, <2>2
    <3>2. dest2[c] = dest[c]
      BY <1>1, <2>2
    <3> QED BY <1>1, <2>2, <3>1, <3>2 DEF Stacks, OneServer
  <2> QED BY <1>2, <2>1, <2>2 DEF OneServer
<1>14. Targets(ty, top, V, X)
  <2>1. ASSUME NEW c \in C, c \in V, ty[c].to_thread # NULL, ty[c].to_thread # X
        PROVE  /\ top[ty[c].to_thread] # NULL /\ ty[top[ty[c].to_thread]].from = ty[c].to_thread
               /\ top[ty[c].to_thread] \in Above(ty, ty[c].from_parent)
    <3>1. PICK v \in Thread : v = ty[c].to_thread /\ v = tx[c].to_thread /\ c # t /\ c \in U
      BY <1>4, <1>6, <2>1
    <3>2. top[v] # NULL /\ tx[top[v]].from = v /\ top[v] \in Above(tx, tx[c].from_parent)
      BY <1>1, <2>1, <3>1 DEF Stacks, Targets
    <3> QED BY <1>4, <1>5, <1>6, <3>1, <3>2
  <2> QED BY <1>2, <2>1 DEF Targets
<1>15. Leaf(ty, t)
  BY <1>1, <1>2, <1>3, <1>6 DEF Leaf
<1> QED BY <1>7, <1>8, <1>10, <1>11, <1>12, <1>13, <1>14, <1>15 DEF Stacks

\* BC_REPLY: th leaves the call t that it serves.
LEMMA Popped ==
    ASSUME NEW tx, NEW top, NEW U, NEW dest, NEW X, Typed(tx, top, U), Stacks(tx, top, U, dest, X),
           NEW ty, NEW top2, Typed(ty, top2, U),
           NEW th \in Thread, NEW t \in CallsOf(tx), top[th] = t, tx[t].to_thread = th,
           ty[t].kind = "call", ty[t].from = tx[t].from, ty[t].from_parent = tx[t].from_parent,
           ty[t].to_thread = NULL, ty[t].to_parent = NULL,
           \A x \in Txn : x # t => ty[x] = tx[x],
           top2[th] = tx[t].to_parent, \A v \in Thread : v # th => top2[v] = top[v]
    PROVE  Stacks(ty, top2, U, dest, X) /\ Leaf(ty, t) /\ t \notin U
<1>1. PICK C, z : C = CallsOf(tx) /\ z = tx[t].to_parent
  OBVIOUS
<1>2. C \in SUBSET Txn /\ CallsOf(ty) = C /\ t \in C /\ t \in Txn /\ t # NULL /\ th # NULL
  BY <1>1, Distinct DEF CallsOf
<1>3. tx[t].from # th /\ t \notin U /\ Leaf(tx, t)
  <2>1. tx[t].from # th
    BY <1>2 DEF Stacks, Apart
  <2>2. t \notin U
    BY <1>2, <2>1 DEF Stacks, Tops, On
  <2> QED BY <1>2, <2>1, <2>2, ServedLeaf
<1>4. /\ \A c \in C : /\ tx[c].from_parent \in C \cup {NULL} /\ tx[c].to_parent \in C \cup {NULL}
                      /\ tx[c].from \in Thread \cup {NULL} /\ tx[c].to_thread \in Thread \cup {NULL}
      /\ \A v \in Thread : top[v] \in C \cup {NULL}
      /\ \A c \in C \cup {NULL} : Above(tx, c) \subseteq C
  BY <1>1, CallPointers
<1>5. \A c : Above(ty, c) = Above(tx, c)
  <2>1. Up(ty) = Up(tx)
    BY <1>2 DEF Up
  <2> QED BY <2>1 DEF Above
<1>6. \A c \in C : /\ ty[c].from = tx[c].from /\ ty[c].from_parent = tx[c].from_parent
                   /\ c # t => ty[c] = tx[c]
  BY <1>2
<1>7. z # NULL => z \in C /\ tx[z].from = th /\ z # t /\ tx[z].to_thread # th
  <2>1. z # NULL => z \in C /\ tx[z].from = th
    BY <1>1 DEF Stacks, Nested
  <2> QED BY <1>1, <1>2, <1>3, <2>1 DEF Stacks, Apart
<1>8. Parents(ty, U)
  <2>1. \A c \in C : tx[c].from_parent # t
    BY <1>1, <1>3 DEF Leaf
  <2> QED BY <1>1, <1>2, <1>6, <2>1 DEF Stacks, Parents
<1>9. Nested(ty, U)
  <2>1. ASSUME NEW c \in C, ty[c].to_parent # NULL
        PROVE  /\ c \notin U /\ ty[c].to_parent \in C
               /\ ty[ty[c].to_parent].from = ty[c].to_thread
               /\ ty[c].to_parent \in Above(ty, ty[c].from_parent)
    <3>1. c # t
      BY <2>1
    <3>2. /\ c \notin U /\ tx[c].to_parent \in C
          /\ tx[tx[c].to_parent].from = tx[c].to_thread
          /\ tx[c].to_parent \in Above(tx, tx[c].from_parent)
      BY <1>1, <1>6, <2>1, <3>1 DEF Stacks, Nested
    <3> QED BY <1>5, <1>6, <3>1, <3>2
  <2>2. \A c, d \in C : ty[c].to_parent = ty[d].to_parent /\ ty[c].to_parent # NULL => c = d
    BY <1>1, <1>6 DEF Stacks, Nested
  <2> QED BY <1>2, <2>1, <2>2 DEF Nested
<1>10. \A v \in Thread : On(ty, U, v) = IF v = th THEN On(tx, U, th) \ {t} ELSE On(tx, U, v)
  <2>1. NULL \notin Thread
    BY Distinct
  <2>2. \A v \in Thread : v # th => On(ty, U, v) = On(tx, U, v)
    BY <1>1, <1>2, <1>6, <2>1 DEF On
  <2>3. On(ty, U, th) = On(tx, U, th) \ {t}
    BY <1>1, <1>2, <1>3, <1>6, <2>1 DEF On
  <2> QED BY <2>2, <2>3
<1>11. Tops(ty, top2, U)
  <2>1. ASSUME NEW v \in Thread, top2[v] # NULL
        PROVE  top2[v] \in On(ty, U, v)
    <3>1. CASE v = th
      BY <1>1, <1>2, <1>6, <1>7, <2>1, <3>1 DEF On
    <3>2. CASE v # th
      BY <1>10, <2>1, <3>2 DEF Stacks, Tops
    <3> QED BY <3>1, <3>2
  <2>2. ASSUME NEW v \in Thread, NEW c \in C, ty[c].from = v, ty[c].from_parent # NULL
        PROVE  ty[c].from_parent # top2[v]
    <3>1. CASE v = th
      <4>1. tx[c].from = th /\ tx[c].from_parent # NULL
        BY <1>6, <2>2, <3>1
      <4>2. tx[tx[c].from_parent].to_thread = th
        BY <1>1, <4>1 DEF Stacks, Parents
      <4> QED BY <1>1, <1>6, <1>7, <2>2, <3>1, <4>2
    <3>2. CASE v # th
      BY <1>1, <1>6, <2>2, <3>2 DEF Stacks, Tops
    <3> QED BY <3>1, <3>2
  <2>3. ASSUME NEW v \in Thread, NEW c \in C, ty[c].to_thread = v, ty[c].to_parent # NULL
        PROVE  ty[c].to_parent # top2[v]
    <3>1. c # t
      BY <2>3
    <3>2. CASE v = th
      BY <1>1, <1>6, <2>3, <3>1, <3>2 DEF Stacks, Nested
    <3>3. CASE v # th
      BY <1>1, <1>6, <2>3, <3>1, <3>3 DEF Stacks, Tops
    <3> QED BY <3>2, <3>3
  <2> QED BY <1>2, <2>1, <2>2, <2>3 DEF Tops
<1>12. Reached(ty, top2, U)
  <2>1. \A v : Under(tx, v) \in Pointers /\ Under(ty, v) \in Pointers
    BY FieldTypes
  <2>2. ASSUME NEW v \in Thread, v # th
        PROVE  On(ty, U, v) \subseteq Walk(top2[v], Under(ty, v))
    <3>1. Under(ty, v) = Under(tx, v)
      BY <1>2, <2>2, Distinct DEF Under
    <3> QED BY <1>10, <2>2, <3>1 DEF Stacks, Reached
  <2>3. On(ty, U, th) \subseteq Walk(top2[th], Under(ty, th))
    <3>1. PICK S : S = Walk(z, Under(tx, th))
      OBVIOUS
    <3>2. Under(tx, th)[t] = z
      BY <1>1, <1>2 DEF Under
    <3>3. Walk(t, Under(tx, th)) = {t} \cup S
      BY <1>2, <2>1, <3>1, <3>2, WalkFirst
    <3>4. S \in SUBSET Txn /\ S \subseteq On(tx, U, th)
      BY <3>1, <3>3, WalkTxn, StackAbove DEF Stacks
    <3>5. z \in S \cup {NULL} /\ z \in Txn \cup {NULL}
      BY <1>2, <1>7, <3>1, WalkStart
    <3>6. t \notin S
      <4> SUFFICES ASSUME t \in S
                   PROVE  FALSE
        OBVIOUS
      <4>1. z # t
        BY <1>2, <1>7
      <4>2. PICK y \in S : Under(tx, th)[y] = t
        BY <2>1, <3>1, <3>5, <4>1, WalkPrev
      <4>3. y \in C /\ y \in Txn
        BY <1>1, <3>4 DEF On, CallsOf
      <4>4. CASE tx[y].to_thread = th
        <5>1. tx[y].to_parent = t
          BY <4>2, <4>3, <4>4 DEF Under
        <5> QED BY <1>1, <1>2, <4>3, <4>4, <5>1 DEF Stacks, Tops
      <4>5. CASE tx[y].to_thread # th
        <5>1. tx[y].from_parent = t
          BY <4>2, <4>3, <4>5 DEF Under
        <5> QED BY <1>1, <1>3, <4>3, <5>1 DEF Leaf
      <4> QED BY <4>4, <4>5
    <3>7. \A y \in S : Under(tx, th)[y] \in S \cup {NULL}
      BY <2>1, <3>1, WalkNext
    <3>8. \A y \in S : Under(ty, th)[y] = Under(tx, th)[y]
      BY <3>4, <3>6 DEF Under
    <3>9. Walk(z, Under(ty, th)) = S
      BY <2>1, <3>1, <3>4, <3>5, <3>7, <3>8, WalkSame
    <3>10. On(tx, U, th) \subseteq {t} \cup S
      BY <3>3 DEF Stacks, Reached
    <3> QED BY <1>1, <1>10, <3>9, <3>10
  <2> QED BY <2>2, <2>3 DEF Reached
<1>13. Apart(ty)
  BY <1>1, <1>2, <1>6 DEF Stacks, Apart
<1>14. OneServer(ty, U, dest)
  <2>1. ASSUME NEW c \in C, NEW x \in Above(ty, c), ty[x].from # NULL, ty[c].to_thread # NULL,
               ProcOf[ty[x].from] = ProcOf[ty[c].to_thread]
        PROVE  ty[x].from = ty[c].to_thread
    <3>1. x \in C /\ x \in Above(tx, c) /\ ty[x].from = tx[x].from /\ c # t
      BY <1>4, <1>5, <1>6, <2>1
    <3> QED BY <1>1, <1>6, <2>1, <3>1 DEF Stacks, OneServer
  <2>2. ASSUME NEW c \in C, NEW x \in Above(ty, c), ty[x].from # NULL, c \in U, ty[c].to_thread = NULL
        PROVE  ProcOf[ty[x].from] # dest[c]
    <3>1. x \in C /\ x \in Above(tx, c) /\ ty[x].from = tx[x].from /\ c # t /\ ty[c] = tx[c]
      BY <1>3, <1>4, <1>5, <1>6, <2>2
    <3> QED BY <1>1, <2>2, <3>1 DEF Stacks, OneServer
  <2> QED BY <1>2, <2>1, <2>2 DEF OneServer
<1>15. Targets(ty, top2, U, X)
  <2>1. ASSUME NEW c \in C, c \in U, ty[c].to_thread # NULL, ty[c].to_thread # X
        PROVE  /\ top2[ty[c].to_thread] # NULL /\ ty[top2[ty[c].to_thread]].from = ty[c].to_thread
               /\ top2[ty[c].to_thread] \in Above(ty, ty[c].from_parent)
    <3>1. PICK v \in Thread : v = ty[c].to_thread /\ v = tx[c].to_thread /\ c # t
      BY <1>4, <1>6, <2>1
    <3>2. top[v] # NULL /\ tx[top[v]].from = v /\ top[v] \in Above(tx, tx[c].from_parent)
      BY <1>1, <2>1, <3>1 DEF Stacks, Targets
    <3>3. v # th
      BY <1>3, <3>2
    <3> QED BY <1>4, <1>5, <1>6, <3>1, <3>2, <3>3
  <2> QED BY <1>2, <2>1 DEF Targets
<1>16. Leaf(ty, t)
  BY <1>1, <1>2, <1>3, <1>6 DEF Leaf
<1> QED BY <1>3, <1>8, <1>9, <1>11, <1>12, <1>13, <1>14, <1>15, <1>16 DEF Stacks

\* binder_free_thread: th leaves every call it has made or serves.
LEMMA Exited ==
    ASSUME NEW tx, NEW top, NEW U, NEW dest, Typed(tx, top, U), Stacks(tx, top, U, dest, NULL),
           NEW ty, NEW top2, Typed(ty, top2, U), NEW th \in Thread, CallsOf(ty) = CallsOf(tx),
           \A x \in Txn : x \notin CallsOf(tx) => ty[x] = tx[x],
           \A c \in CallsOf(tx) :
              /\ ty[c].from = (IF tx[c].from = th THEN NULL ELSE tx[c].from)
              /\ ty[c].to_thread = (IF tx[c].to_thread = th /\ c \notin U THEN NULL ELSE tx[c].to_thread)
              /\ ty[c].from_parent = tx[c].from_parent /\ ty[c].to_parent = tx[c].to_parent,
           top2[th] = NULL, \A v \in Thread : v # th => top2[v] = top[v]
    PROVE  /\ Stacks(ty, top2, U, dest, th)
           /\ top[th] # NULL /\ tx[top[th]].to_thread = th =>
                 top[th] \in CallsOf(ty) /\ Leaf(ty, top[th]) /\ top[th] \notin U /\ ty[top[th]].to_thread = NULL
<1>1. PICK C : C = CallsOf(tx)
  OBVIOUS
<1>2. C \in SUBSET Txn /\ CallsOf(ty) = C /\ th # NULL /\ NULL \notin Thread
  BY <1>1, Distinct DEF CallsOf
<1>3. /\ \A c \in C : /\ tx[c].from_parent \in C \cup {NULL} /\ tx[c].to_parent \in C \cup {NULL}
                      /\ tx[c].from \in Thread \cup {NULL} /\ tx[c].to_thread \in Thread \cup {NULL}
      /\ \A v \in Thread : top[v] \in C \cup {NULL}
      /\ \A c \in C \cup {NULL} : Above(tx, c) \subseteq C
  BY <1>1, CallPointers
<1>4. /\ \A x \in Txn : x \notin C => ty[x] = tx[x]
      /\ \A c \in C :
            /\ ty[c].from = (IF tx[c].from = th THEN NULL ELSE tx[c].from)
            /\ ty[c].to_thread = (IF tx[c].to_thread = th /\ c \notin U THEN NULL ELSE tx[c].to_thread)
            /\ ty[c].from_parent = tx[c].from_parent /\ ty[c].to_parent = tx[c].to_parent
  BY <1>1
<1>5. \A c : Above(ty, c) = Above(tx, c)
  <2>1. Up(ty) = Up(tx)
    BY <1>4 DEF Up
  <2> QED BY <2>1 DEF Above
<1>6. Parents(ty, U)
  <2>1. ASSUME NEW c \in C, ty[c].from_parent # NULL
        PROVE  /\ ty[c].from_parent \in C /\ ty[c].from_parent \notin U
               /\ ty[ty[c].from_parent].to_thread = ty[c].from
    <3>1. PICK q : q = tx[c].from_parent
      OBVIOUS
    <3>2. q \in C /\ q \notin U /\ tx[q].to_thread = tx[c].from
      BY <1>1, <1>4, <2>1, <3>1 DEF Stacks, Parents
    <3>3. ty[q].to_thread = ty[c].from
      BY <1>4, <3>2
    <3> QED BY <1>4, <3>1, <3>2, <3>3
  <2>2. \A c, d \in C : ty[c].from_parent = ty[d].from_parent /\ ty[c].from_parent # NULL => c = d
    BY <1>1, <1>4 DEF Stacks, Parents
  <2> QED BY <1>2, <2>1, <2>2 DEF Parents
<1>7. Nested(ty, U)
  <2>1. ASSUME NEW c \in C, ty[c].to_parent # NULL
        PROVE  /\ c \notin U /\ ty[c].to_parent \in C
               /\ ty[ty[c].to_parent].from = ty[c].to_thread
               /\ ty[c].to_parent \in Above(ty, ty[c].from_parent)
    <3>1. PICK q : q = tx[c].to_parent
      OBVIOUS
    <3>2. c \notin U /\ q \in C /\ tx[q].from = tx[c].to_thread /\ q \in Above(tx, tx[c].from_parent)
      BY <1>1, <1>4, <2>1, <3>1 DEF Stacks, Nested
    <3>3. ty[q].from = ty[c].to_thread
      BY <1>4, <3>2
    <3> QED BY <1>4, <1>5, <3>1, <3>2, <3>3
  <2>2. \A c, d \in C : ty[c].to_parent = ty[d].to_parent /\ ty[c].to_parent # NULL => c = d
    BY <1>1, <1>4 DEF Stacks, Nested
  <2> QED BY <1>2, <2>1, <2>2 DEF Nested
<1>8. /\ On(ty, U, th) = {}
      /\ \A v \in Thread : v # th => On(ty, U, v) = On(tx, U, v)
  <2>1. On(ty, U, th) = {}
    BY <1>2, <1>4 DEF On
  <2>2. ASSUME NEW v \in Thread, v # th
        PROVE  On(ty, U, v) = On(tx, U, v)
    <3>1. \A c \in C : (ty[c].from = v <=> tx[c].from = v) /\ (ty[c].to_thread = v <=> tx[c].to_thread = v)
      BY <1>2, <1>4, <2>2
    <3> QED BY <1>1, <1>2, <3>1 DEF On
  <2> QED BY <2>1, <2>2
<1>9. Tops(ty, top2, U)
  <2>1. \A v \in Thread : top2[v] # NULL => top2[v] \in On(ty, U, v)
    BY <1>8 DEF Stacks, Tops
  <2>2. ASSUME NEW v \in Thread, NEW c \in C, ty[c].from = v, ty[c].from_parent # NULL
        PROVE  ty[c].from_parent # top2[v]
    <3>1. tx[c].from = v /\ v # th
      BY <1>2, <1>4, <2>2
    <3> QED BY <1>1, <1>4, <2>2, <3>1 DEF Stacks, Tops
  <2>3. ASSUME NEW v \in Thread, NEW c \in C, ty[c].to_thread = v, ty[c].to_parent # NULL
        PROVE  ty[c].to_parent # top2[v]
    <3>1. tx[c].to_thread = v
      BY <1>2, <1>4, <2>3
    <3>2. CASE v = th
      BY <2>3, <3>2
    <3>3. CASE v # th
      BY <1>1, <1>4, <2>3, <3>1, <3>3 DEF Stacks, Tops
    <3> QED BY <3>2, <3>3
  <2> QED BY <1>2, <2>1, <2>2, <2>3 DEF Tops
<1>10. Reached(ty, top2, U)
  <2>1. ASSUME NEW v \in Thread, v # th
        PROVE  Under(ty, v) = Under(tx, v)
    <3>1. \A x \in Txn : (ty[x].to_thread = v <=> tx[x].to_thread = v)
      BY <1>2, <1>4, <2>1
    <3>2. \A x \in Txn : ty[x].from_parent = tx[x].from_parent /\ ty[x].to_parent = tx[x].to_parent
      BY <1>4
    <3> QED BY <3>1, <3>2 DEF Under
  <2> QED BY <1>8, <2>1 DEF Stacks, Reached
<1>11. Apart(ty)
  <2>1. \A c \in C : /\ ty[c].from # NULL => ty[c].from = tx[c].from
                     /\ ty[c].to_thread # NULL => ty[c].to_thread = tx[c].to_thread
    BY <1>4
  <2> QED BY <1>1, <1>2, <2>1 DEF Stacks, Apart
<1>12. OneServer(ty, U, dest)
  <2>1. ASSUME NEW c \in C, NEW x \in Above(ty, c), ty[x].from # NULL, ty[c].to_thread # NULL,
               ProcOf[ty[x].from] = ProcOf[ty[c].to_thread]
        PROVE  ty[x].from = ty[c].to_thread
    <3>1. x \in C /\ x \in Above(tx, c)
      BY <1>3, <1>5
    <3>2. ty[x].from = tx[x].from /\ ty[c].to_thread = tx[c].to_thread
      BY <1>4, <2>1, <3>1
    <3> QED BY <1>1, <2>1, <3>1, <3>2 DEF Stacks, OneServer
  <2>2. ASSUME NEW c \in C, NEW x \in Above(ty, c), ty[x].from # NULL, c \in U, ty[c].to_thread = NULL
        PROVE  ProcOf[ty[x].from] # dest[c]
    <3>1. x \in C /\ x \in Above(tx, c)
      BY <1>3, <1>5
    <3>2. ty[x].from = tx[x].from /\ ty[c].to_thread = tx[c].to_thread
      BY <1>4, <2>2, <3>1
    <3> QED BY <1>1, <2>2, <3>1, <3>2 DEF Stacks, OneServer
  <2> QED BY <1>2, <2>1, <2>2 DEF OneServer
<1>13. Targets(ty, top2, U, th)
  <2>1. ASSUME NEW c \in C, c \in U, ty[c].to_thread # NULL, ty[c].to_thread # th
        PROVE  /\ top2[ty[c].to_thread] # NULL /\ ty[top2[ty[c].to_thread]].from = ty[c].to_thread
               /\ top2[ty[c].to_thread] \in Above(ty, ty[c].from_parent)
    <3>1. PICK v \in Thread : v = ty[c].to_thread /\ v = tx[c].to_thread /\ v # th /\ v # NULL
      BY <1>3, <1>4, <2>1
    <3>2. top[v] # NULL /\ tx[top[v]].from = v /\ top[v] \in Above(tx, tx[c].from_parent)
      BY <1>1, <2>1, <3>1 DEF Stacks, Targets
    <3>3. top[v] \in C /\ top2[v] = top[v]
      BY <1>3, <3>1, <3>2
    <3>4. ty[top[v]].from = v
      BY <1>4, <3>1, <3>2, <3>3
    <3> QED BY <1>4, <1>5, <3>1, <3>2, <3>3, <3>4
  <2> QED BY <1>2, <2>1 DEF Targets
<1>14. ASSUME top[th] # NULL, tx[top[th]].to_thread = th
       PROVE  top[th] \in C /\ Leaf(ty, top[th]) /\ top[th] \notin U /\ ty[top[th]].to_thread = NULL
  <2>1. top[th] \in C /\ Leaf(tx, top[th])
    BY <1>3, <1>14, ServedLeaf
  <2>2. tx[top[th]].from # th
    BY <1>1, <1>2, <1>14, <2>1 DEF Stacks, Apart
  <2>3. top[th] \notin U
    BY <1>14, <2>2 DEF Stacks, Tops, On
  <2>4. Leaf(ty, top[th])
    BY <1>1, <1>2, <1>4, <2>1 DEF Leaf
  <2> QED BY <1>4, <1>14, <2>1, <2>3, <2>4
<1> QED BY <1>2, <1>6, <1>7, <1>9, <1>10, <1>11, <1>12, <1>13, <1>14 DEF Stacks

\* What binder_send_failed_reply frees for the call t that nobody serves: no call that
\* stays was made for one of them, and the caller it tells waits for the last one.
LEMMA FailedChainShape ==
    ASSUME NEW tx, NEW top, NEW U, NEW dest, NEW X, Typed(tx, top, U), Stacks(tx, top, U, dest, X),
           NEW t \in CallsOf(tx), Leaf(tx, t), t \notin U, tx[t].to_thread = NULL
    PROVE  /\ t \in FailedChain(t, tx)
           /\ \A z \in FailedChain(t, tx) : z \in CallsOf(tx) /\ z \notin U /\ tx[z].to_thread = NULL
           /\ \A c \in CallsOf(tx) : tx[c].from_parent \in FailedChain(t, tx) => c \in FailedChain(t, tx)
           /\ \A c \in CallsOf(tx) : c \notin FailedChain(t, tx) => Above(tx, c) \cap FailedChain(t, tx) = {}
           /\ \A x, y \in FailedChain(t, tx) : tx[x].from # NULL /\ tx[y].from # NULL => x = y
           /\ \A x \in FailedChain(t, tx) : tx[x].from # NULL => top[tx[x].from] = x
<1>1. PICK C, F, next : /\ C = CallsOf(tx) /\ F = FailedChain(t, tx)
                        /\ next = [x \in Txn |-> IF tx[x].from = NULL THEN tx[x].from_parent ELSE NULL]
  OBVIOUS
<1>2. F = Walk(t, next) /\ next \in Pointers /\ C \in SUBSET Txn /\ t \in C
  <2>1. \A x \in Txn : tx[x].from_parent \in Txn \cup {NULL}
    BY FieldTypes
  <2>2. next \in Pointers
    BY <1>1, <2>1 DEF Pointers
  <2> QED BY <1>1, <2>2 DEF FailedChain, CallsOf
<1>3. t \in F
  BY <1>2, WalkStart
<1>4. /\ \A c \in C : tx[c].from_parent \in C \cup {NULL}
      /\ \A c \in C : tx[c].from \in Thread \cup {NULL}
  BY <1>1, CallPointers
<1>5. \A z \in F : z \in C /\ z \notin U /\ tx[z].to_thread = NULL
  <2>1. PICK S : S = {z \in C : z \notin U /\ tx[z].to_thread = NULL}
    OBVIOUS
  <2>2. S \in SUBSET Txn /\ t \in S
    BY <1>2, <2>1
  <2>3. ASSUME NEW y \in S
        PROVE  next[y] \in S \cup {NULL}
    <3>1. y \in C /\ y \in Txn
      BY <1>2, <2>1
    <3>2. CASE tx[y].from # NULL
      BY <1>1, <3>1, <3>2
    <3>3. CASE tx[y].from = NULL
      <4>1. next[y] = tx[y].from_parent
        BY <1>1, <3>1, <3>3
      <4>2. tx[y].from_parent # NULL =>
               /\ tx[y].from_parent \in C /\ tx[y].from_parent \notin U
               /\ tx[tx[y].from_parent].to_thread = NULL
        BY <1>1, <3>1, <3>3 DEF Stacks, Parents
      <4> QED BY <2>1, <4>1, <4>2
    <3> QED BY <3>2, <3>3
  <2>4. F \subseteq S
    BY <1>2, <2>2, <2>3, WalkIn
  <2> QED BY <2>1, <2>4
<1>6. \A c \in C : tx[c].from_parent \in F => c \in F
  <2>1. PICK S : S = {z \in F : \A c \in C : tx[c].from_parent = z => c \in F}
    OBVIOUS
  <2>2. S \in SUBSET Txn
    BY <1>2, <1>5, <2>1
  <2>3. t \in S
    BY <1>1, <1>3, <2>1 DEF Leaf
  <2>4. ASSUME NEW y \in S, next[y] # NULL
        PROVE  next[y] \in S
    <3>1. y \in F /\ y \in C /\ y \in Txn
      BY <1>2, <1>5, <2>1
    <3>2. next[y] = tx[y].from_parent /\ tx[y].from_parent # NULL
      BY <1>1, <2>4, <3>1
    <3>3. next[y] \in F
      BY <1>2, <2>4, <3>1, WalkNext
    <3>4. \A c \in C : tx[c].from_parent = tx[y].from_parent => c = y
      BY <1>1, <3>1, <3>2 DEF Stacks, Parents
    <3> QED BY <2>1, <3>1, <3>2, <3>3, <3>4
  <2>5. F \subseteq S
    BY <1>2, <2>2, <2>3, <2>4, WalkIn
  <2> QED BY <2>1, <2>5
<1>7. ASSUME NEW c \in C, c \notin F
      PROVE  Above(tx, c) \cap F = {}
  <2>1. PICK S : S = C \ F
    OBVIOUS
  <2>2. S \in SUBSET Txn /\ c \in S
    BY <1>2, <1>7, <2>1
  <2>3. \A y \in S : Up(tx)[y] \in S \cup {NULL}
    <3>1. \A y \in S : Up(tx)[y] = tx[y].from_parent
      BY <2>2, FieldTypes
    <3> QED BY <1>4, <1>6, <2>1, <3>1
  <2>4. Above(tx, c) \subseteq S
    BY <2>2, <2>3, WalkIn DEF Above
  <2> QED BY <2>1, <2>4
<1>8. ASSUME NEW x \in F, NEW y \in F, tx[x].from # NULL, tx[y].from # NULL
      PROVE  x = y
  <2>1. \A a \in F : tx[a].from # NULL => Walk(a, next) = {a}
    <3>1. ASSUME NEW a \in F, tx[a].from # NULL
          PROVE  Walk(a, next) = {a}
      <4>1. a \in Txn /\ next[a] = NULL
        BY <1>1, <1>2, <1>5, <3>1
      <4> QED BY <1>2, <4>1, WalkFirst, WalkNull
    <3> QED BY <3>1
  <2>2. y \in Walk(x, next) \/ x \in Walk(y, next)
    BY <1>2, WalkLine
  <2> QED BY <1>8, <2>1, <2>2
<1>9. ASSUME NEW x \in F, tx[x].from # NULL
      PROVE  top[tx[x].from] = x
  <2> SUFFICES ASSUME top[tx[x].from] # x
               PROVE  FALSE
    OBVIOUS
  <2>1. PICK u \in Thread : u = tx[x].from
    BY <1>4, <1>5, <1>9
  <2>2. PICK y \in C : tx[y].to_thread = u /\ tx[y].to_parent = x
    BY <1>1, <1>5, <2>1, UnderServed
  <2>3. x # NULL /\ u # NULL /\ y \in Txn
    BY <1>2, <1>5, Distinct
  <2>4. x \in Above(tx, tx[y].from_parent)
    BY <1>1, <2>2, <2>3 DEF Stacks, Nested
  <2>5. x \in Above(tx, y)
    BY <2>3, <2>4, AboveFirst
  <2>6. y \in F
    BY <1>7, <2>5
  <2> QED BY <1>5, <2>2, <2>3, <2>6
<1> QED BY <1>1, <1>3, <1>5, <1>6, <1>7, <1>8, <1>9

\* binder_send_failed_reply: the chain F of t is freed, and u, the caller of the last one, if
\* any, has that call no longer on its stack.
LEMMA Failed ==
    ASSUME NEW tx, NEW top, NEW U, NEW dest, NEW X, Typed(tx, top, U), Stacks(tx, top, U, dest, X),
           NEW t \in CallsOf(tx), Leaf(tx, t), t \notin U, tx[t].to_thread = NULL,
           NEW F, F = FailedChain(t, tx),
           NEW ty, NEW top2, NEW V, NEW dest2, Typed(ty, top2, V), CallsOf(ty) = CallsOf(tx) \ F,
           \A c \in CallsOf(tx) \ F : Agree(tx, ty, c) /\ (c \in V <=> c \in U),
           \A c \in CallsOf(tx) \ F : c \in V => dest2[c] = dest[c],
           NEW u \in Thread \cup {NULL}, NEW x,
           \/ u = NULL /\ \A z \in F : tx[z].from = NULL
           \/ u # NULL /\ x \in F /\ tx[x].from = u /\ top2[u] = tx[x].from_parent,
           \A w \in Thread : w # u => top2[w] = top[w]
    PROVE  Stacks(ty, top2, V, dest2, X)
<1>1. PICK C, D : C = CallsOf(tx) /\ D = C \ F
  OBVIOUS
<1>2. C \in SUBSET Txn /\ CallsOf(ty) = D /\ NULL \notin Thread /\ NULL \notin Txn
  BY <1>1, Distinct DEF CallsOf
<1>3. /\ \A z \in F : z \in C /\ z \notin U /\ tx[z].to_thread = NULL
      /\ \A c \in C : tx[c].from_parent \in F => c \in F
      /\ \A c \in D : Above(tx, c) \cap F = {}
      /\ \A y, z \in F : tx[y].from # NULL /\ tx[z].from # NULL => y = z
      /\ \A z \in F : tx[z].from # NULL => top[tx[z].from] = z
  BY <1>1, FailedChainShape
<1>4. /\ \A c \in C : /\ tx[c].from_parent \in C \cup {NULL} /\ tx[c].to_parent \in C \cup {NULL}
                      /\ tx[c].from \in Thread \cup {NULL} /\ tx[c].to_thread \in Thread \cup {NULL}
      /\ \A v \in Thread : top[v] \in C \cup {NULL}
      /\ \A c \in C \cup {NULL} : Above(tx, c) \subseteq C
  BY <1>1, CallPointers
<1>5. \A z \in F : \A w \in Thread : tx[z].from = w => w = u /\ z = x
  BY <1>2, <1>3
<1>6. \A c \in D : /\ ty[c].from = tx[c].from /\ ty[c].from_parent = tx[c].from_parent
                   /\ ty[c].to_thread = tx[c].to_thread /\ ty[c].to_parent = tx[c].to_parent
                   /\ (c \in V <=> c \in U) /\ (c \in U => dest2[c] = dest[c])
  BY <1>1 DEF Agree
<1>7. u # NULL => /\ u \in Thread /\ x \in F /\ x \in C /\ tx[x].from = u /\ top[u] = x
                  /\ top2[u] = tx[x].from_parent /\ x # NULL
  BY <1>2, <1>3
<1>8. /\ Up(tx) \in Pointers /\ Up(ty) \in Pointers
      /\ \A w : Under(tx, w) \in Pointers /\ Under(ty, w) \in Pointers
  BY FieldTypes
<1>9. \A c \in D \cup {NULL} : Above(ty, c) = Above(tx, c) /\ Above(tx, c) \subseteq D
  <2>1. \A y \in D : Up(tx)[y] \in D \cup {NULL} /\ Up(ty)[y] = Up(tx)[y]
    <3>1. \A y \in D : Up(tx)[y] = tx[y].from_parent /\ Up(ty)[y] = ty[y].from_parent
      BY <1>1, <1>2, FieldTypes
    <3> QED BY <1>1, <1>3, <1>4, <1>6, <3>1
  <2>2. D \in SUBSET Txn
    BY <1>1, <1>2
  <2>3. \A c \in D \cup {NULL} : Above(ty, c) = Above(tx, c)
    BY <1>8, <2>1, <2>2, WalkSame DEF Above
  <2>4. \A c \in D \cup {NULL} : Above(tx, c) \subseteq D
    BY <2>1, <2>2, WalkIn DEF Above
  <2> QED BY <2>3, <2>4
<1>10. \A c \in D : tx[c].from_parent \in D \cup {NULL}
  BY <1>1, <1>3, <1>4
<1>11. ASSUME NEW c \in D, tx[c].to_parent # NULL
       PROVE  tx[c].to_parent \in D /\ tx[c].to_parent \in Above(tx, tx[c].from_parent)
  <2>1. tx[c].to_parent \in Above(tx, tx[c].from_parent)
    BY <1>1, <1>11 DEF Stacks, Nested
  <2> QED BY <1>9, <1>10, <2>1
<1>12. Parents(ty, V)
  <2>1. ASSUME NEW c \in D, ty[c].from_parent # NULL
        PROVE  /\ ty[c].from_parent \in D /\ ty[c].from_parent \notin V
               /\ ty[ty[c].from_parent].to_thread = ty[c].from
    <3>1. PICK q : q = tx[c].from_parent
      OBVIOUS
    <3>2. q \in D /\ q \notin U /\ tx[q].to_thread = tx[c].from
      BY <1>1, <1>6, <1>10, <2>1, <3>1 DEF Stacks, Parents
    <3> QED BY <1>6, <3>1, <3>2
  <2>2. \A c, d \in D : ty[c].from_parent = ty[d].from_parent /\ ty[c].from_parent # NULL => c = d
    BY <1>1, <1>6 DEF Stacks, Parents
  <2> QED BY <1>2, <2>1, <2>2 DEF Parents
<1>13. Nested(ty, V)
  <2>1. ASSUME NEW c \in D, ty[c].to_parent # NULL
        PROVE  /\ c \notin V /\ ty[c].to_parent \in D
               /\ ty[ty[c].to_parent].from = ty[c].to_thread
               /\ ty[c].to_parent \in Above(ty, ty[c].from_parent)
    <3>1. PICK q : q = tx[c].to_parent
      OBVIOUS
    <3>2. c \notin U /\ q \in D /\ tx[q].from = tx[c].to_thread /\ q \in Above(tx, tx[c].from_parent)
      BY <1>1, <1>6, <1>11, <2>1, <3>1 DEF Stacks, Nested
    <3>3. Above(ty, ty[c].from_parent) = Above(tx, tx[c].from_parent)
      BY <1>6, <1>9, <1>10
    <3> QED BY <1>6, <3>1, <3>2, <3>3
  <2>2. \A c, d \in D : ty[c].to_parent = ty[d].to_parent /\ ty[c].to_parent # NULL => c = d
    BY <1>1, <1>6 DEF Stacks, Nested
  <2> QED BY <1>2, <2>1, <2>2 DEF Nested
<1>14. \A w \in Thread : On(ty, V, w) = On(tx, U, w) \ F
  BY <1>1, <1>2, <1>6 DEF On
<1>15. \A w \in Thread : w # u => On(tx, U, w) \cap F = {}
  BY <1>2, <1>3, <1>5 DEF On
<1>16. u # NULL /\ top2[u] # NULL =>
          /\ top2[u] \in D /\ top2[u] \notin U /\ tx[top2[u]].to_thread = u /\ tx[top2[u]].from # u
  <2> SUFFICES ASSUME u # NULL, top2[u] # NULL
               PROVE  /\ top2[u] \in D /\ top2[u] \notin U /\ tx[top2[u]].to_thread = u
                      /\ tx[top2[u]].from # u
    OBVIOUS
  <2>1. PICK q : q = top2[u]
    OBVIOUS
  <2>2. q = tx[x].from_parent /\ q # NULL
    BY <1>7, <2>1
  <2>3. q \in C /\ q \notin U /\ tx[q].to_thread = u
    BY <1>1, <1>7, <2>2 DEF Stacks, Parents
  <2>4. q \notin F
    BY <1>3, <2>3
  <2>5. tx[q].from # u
    BY <1>1, <2>3 DEF Stacks, Apart
  <2> QED BY <1>1, <2>1, <2>3, <2>4, <2>5
<1>17. Tops(ty, top2, V)
  <2>1. ASSUME NEW w \in Thread, top2[w] # NULL
        PROVE  top2[w] \in On(ty, V, w)
    <3>1. CASE w = u
      BY <1>2, <1>6, <1>16, <2>1, <3>1 DEF On
    <3>2. CASE w # u
      <4>1. top[w] \in On(tx, U, w)
        BY <2>1, <3>2 DEF Stacks, Tops
      <4> QED BY <1>14, <1>15, <3>2, <4>1
    <3> QED BY <3>1, <3>2
  <2>2. ASSUME NEW w \in Thread, NEW c \in D, ty[c].from = w, ty[c].from_parent # NULL
        PROVE  ty[c].from_parent # top2[w]
    <3>1. c \in C /\ tx[c].from_parent # NULL /\ tx[c].from = w /\ ty[c].from_parent = tx[c].from_parent
      BY <1>1, <1>6, <2>2
    <3>2. CASE w = u
      <4>1. tx[c].from_parent = tx[x].from_parent => c = x
        BY <1>1, <1>2, <1>7, <3>1, <3>2 DEF Stacks, Parents
      <4> QED BY <1>1, <1>2, <1>7, <3>1, <3>2, <4>1
    <3>3. CASE w # u
      BY <1>1, <3>1, <3>3 DEF Stacks, Tops
    <3> QED BY <3>2, <3>3
  <2>3. ASSUME NEW w \in Thread, NEW c \in D, ty[c].to_thread = w, ty[c].to_parent # NULL
        PROVE  ty[c].to_parent # top2[w]
    <3>1. c \in C /\ tx[c].to_parent # NULL /\ tx[c].to_thread = w /\ ty[c].to_parent = tx[c].to_parent
      BY <1>1, <1>6, <2>3
    <3>2. CASE w = u
      <4>1. tx[tx[c].to_parent].from = u
        BY <1>1, <3>1, <3>2 DEF Stacks, Nested
      <4> QED BY <1>2, <1>16, <3>1, <3>2, <4>1
    <3>3. CASE w # u
      BY <1>1, <3>1, <3>3 DEF Stacks, Tops
    <3> QED BY <3>2, <3>3
  <2> QED BY <1>2, <2>1, <2>2, <2>3 DEF Tops
<1>18. Reached(ty, top2, V)
  <2>1. ASSUME NEW w \in Thread, w # u
        PROVE  On(ty, V, w) \subseteq Walk(top2[w], Under(ty, w))
    <3>1. PICK S : S = Walk(top[w], Under(tx, w))
      OBVIOUS
    <3>2. S \in SUBSET Txn /\ S \subseteq On(tx, U, w) /\ On(tx, U, w) \subseteq S
      BY <3>1, WalkTxn, StackAbove DEF Stacks, Reached
    <3>3. S \subseteq D
      BY <1>1, <1>15, <2>1, <3>2 DEF On
    <3>4. top[w] \in S \cup {NULL}
      BY <1>2, <1>4, <3>1, WalkStart
    <3>5. \A y \in S : Under(tx, w)[y] \in S \cup {NULL}
      BY <1>8, <3>1, WalkNext
    <3>6. \A y \in S : Under(ty, w)[y] = Under(tx, w)[y]
      BY <1>6, <3>2, <3>3 DEF Under
    <3>7. Walk(top[w], Under(ty, w)) = S
      BY <1>8, <3>1, <3>2, <3>4, <3>5, <3>6, WalkSame
    <3> QED BY <1>14, <2>1, <3>2, <3>7
  <2>2. ASSUME u # NULL
        PROVE  On(ty, V, u) \subseteq Walk(top2[u], Under(ty, u))
    <3>1. PICK S, q : q = tx[x].from_parent /\ S = Walk(q, Under(tx, u))
      OBVIOUS
    <3>2. x \in Txn /\ Under(tx, u)[x] = q /\ u \in Thread
      BY <1>2, <1>3, <1>7, <2>2, <3>1 DEF Under
    <3>3. Walk(x, Under(tx, u)) = {x} \cup S
      BY <1>8, <3>1, <3>2, WalkFirst
    <3>4. S \in SUBSET Txn /\ S \subseteq On(tx, U, u) /\ On(tx, U, u) \subseteq {x} \cup S
      BY <1>7, <2>2, <3>1, <3>2, <3>3, WalkTxn, StackAbove DEF Stacks, Reached
    <3>5. q \in Txn \cup {NULL} /\ q \in S \cup {NULL} /\ q # x
      <4>1. q # NULL => q \in D
        BY <1>7, <1>16, <2>2, <3>1
      <4> QED BY <1>1, <1>2, <1>7, <2>2, <3>1, <4>1, WalkStart
    <3>6. x \notin S
      <4> SUFFICES ASSUME x \in S
                   PROVE  FALSE
        OBVIOUS
      <4>1. PICK y \in S : Under(tx, u)[y] = x
        BY <1>8, <3>1, <3>5, WalkPrev
      <4>2. y \in C /\ y \in Txn /\ (tx[y].to_thread # u => tx[y].from = u)
        BY <1>1, <3>4 DEF On, CallsOf
      <4>3. CASE tx[y].to_thread = u
        <5>1. tx[y].to_parent = x
          BY <4>1, <4>2, <4>3 DEF Under
        <5> QED BY <1>1, <1>7, <2>2, <4>2, <4>3, <5>1 DEF Stacks, Tops
      <4>4. CASE tx[y].to_thread # u
        <5>1. tx[y].from_parent = x
          BY <4>1, <4>2, <4>4 DEF Under
        <5> QED BY <1>1, <1>7, <2>2, <4>2, <4>4, <5>1 DEF Stacks, Tops
      <4> QED BY <4>3, <4>4
    <3>7. S \subseteq D
      <4>1. ASSUME NEW y \in S
            PROVE  y \in C /\ y \notin F
        <5>1. y \in C /\ (tx[y].from = u \/ tx[y].to_thread = u)
          BY <1>1, <3>4 DEF On
        <5> QED BY <1>2, <1>3, <1>5, <3>2, <3>6, <5>1
      <4> QED BY <1>1, <4>1
    <3>8. \A y \in S : Under(tx, u)[y] \in S \cup {NULL}
      BY <1>8, <3>1, WalkNext
    <3>9. \A y \in S : Under(ty, u)[y] = Under(tx, u)[y]
      BY <1>6, <3>4, <3>7 DEF Under
    <3>10. Walk(q, Under(ty, u)) = S
      BY <1>8, <3>1, <3>4, <3>5, <3>8, <3>9, WalkSame
    <3> QED BY <1>7, <1>14, <2>2, <3>1, <3>2, <3>4, <3>10
  <2> QED BY <1>2, <2>1, <2>2 DEF Reached
<1>19. Apart(ty)
  BY <1>1, <1>2, <1>6 DEF Stacks, Apart
<1>20. OneServer(ty, V, dest2)
  <2>1. ASSUME NEW c \in D, NEW y \in Above(ty, c), ty[y].from # NULL, ty[c].to_thread # NULL,
               ProcOf[ty[y].from] = ProcOf[ty[c].to_thread]
        PROVE  ty[y].from = ty[c].to_thread
    <3>1. y \in D /\ y \in Above(tx, c) /\ c \in C
      BY <1>1, <1>9
    <3> QED BY <1>1, <1>6, <2>1, <3>1 DEF Stacks, OneServer
  <2>2. ASSUME NEW c \in D, NEW y \in Above(ty, c), ty[y].from # NULL, c \in V, ty[c].to_thread = NULL
        PROVE  ProcOf[ty[y].from] # dest2[c]
    <3>1. y \in D /\ y \in Above(tx, c) /\ c \in C
      BY <1>1, <1>9
    <3> QED BY <1>1, <1>6, <2>2, <3>1 DEF Stacks, OneServer
  <2> QED BY <1>2, <2>1, <2>2 DEF OneServer
<1>21. Targets(ty, top2, V, X)
  <2>1. ASSUME NEW c \in D, c \in V, ty[c].to_thread # NULL, ty[c].to_thread # X
        PROVE  /\ top2[ty[c].to_thread] # NULL /\ ty[top2[ty[c].to_thread]].from = ty[c].to_thread
               /\ top2[ty[c].to_thread] \in Above(ty, ty[c].from_parent)
    <3>1. PICK v \in Thread : v = ty[c].to_thread /\ v = tx[c].to_thread /\ c \in C /\ c \in U
      BY <1>1, <1>4, <1>6, <2>1
    <3>2. top[v] # NULL /\ tx[top[v]].from = v /\ top[v] \in Above(tx, tx[c].from_parent)
      BY <1>1, <2>1, <3>1 DEF Stacks, Targets
    <3>3. top[v] \in D
      BY <1>9, <1>10, <3>2
    <3>4. v # u
      BY <1>1, <1>2, <1>7, <3>3
    <3>5. Above(ty, ty[c].from_parent) = Above(tx, tx[c].from_parent)
      BY <1>6, <1>9, <1>10
    <3> QED BY <1>6, <3>1, <3>2, <3>3, <3>4, <3>5
  <2> QED BY <1>2, <2>1 DEF Targets
<1> QED BY <1>12, <1>13, <1>17, <1>18, <1>19, <1>20, <1>21 DEF Stacks

-----------------------------------------------------------------------------
(* The lists *)

\* The items of a list that grows.
LEMMA ItemsOfAppend ==
    ASSUME NEW S, NEW q \in Seq(S), NEW x \in S
    PROVE  Items(Append(q, x)) = Items(q) \cup {x}
<1>1. Len(q) \in Nat /\ DOMAIN q = 1 .. Len(q) /\ DOMAIN Append(q, x) = 1 .. (Len(q) + 1)
  OBVIOUS
<1>2. \A i \in 1 .. Len(q) : Append(q, x)[i] = q[i]
  OBVIOUS
<1>3. Append(q, x)[Len(q) + 1] = x
  OBVIOUS
<1>4. 1 .. (Len(q) + 1) = (1 .. Len(q)) \cup {Len(q) + 1}
  BY <1>1
<1> QED BY <1>1, <1>2, <1>3, <1>4 DEF Items

\* The items of a list that loses its head.
LEMMA ItemsOfTail ==
    ASSUME NEW S, NEW q \in Seq(S), q # <<>>
    PROVE  /\ Items(q) = {Head(q)} \cup Items(Tail(q))
           /\ Head(q) \in S /\ Tail(q) \in Seq(S)
<1>1. Len(q) \in Nat /\ Len(q) > 0 /\ DOMAIN q = 1 .. Len(q) /\ DOMAIN Tail(q) = 1 .. (Len(q) - 1)
  OBVIOUS
<1>2. Head(q) = q[1] /\ \A i \in 1 .. (Len(q) - 1) : Tail(q)[i] = q[i + 1]
  OBVIOUS
<1>3. \A i \in 1 .. Len(q) : i = 1 \/ (i - 1 \in 1 .. (Len(q) - 1) /\ q[i] = Tail(q)[i - 1])
  BY <1>1, <1>2
<1>4. \A i \in 1 .. (Len(q) - 1) : i + 1 \in 1 .. Len(q) /\ Tail(q)[i] = q[i + 1]
  BY <1>1, <1>2
<1>5. Items(q) \subseteq {Head(q)} \cup Items(Tail(q))
  <2>1. ASSUME NEW i \in 1 .. Len(q)
        PROVE  q[i] = Head(q) \/ \E j \in DOMAIN Tail(q) : q[i] = Tail(q)[j]
    BY <1>1, <1>2, <1>3
  <2> QED BY <1>1, <2>1 DEF Items
<1>6. Items(Tail(q)) \subseteq Items(q)
  BY <1>1, <1>4 DEF Items
<1>7. Head(q) \in Items(q)
  BY <1>1, <1>2 DEF Items
<1> QED BY <1>5, <1>6, <1>7

\* No transaction is twice in the list.
NoDup(q) == \A i, j \in DOMAIN q : q[i] = q[j] /\ q[i] # COMPLETE => i = j

\* A list that grows by something new holds nothing twice.
LEMMA NoDupAppend ==
    ASSUME NEW S, NEW q \in Seq(S), NEW x \in S, NoDup(q), x \notin Items(q) \/ x = COMPLETE
    PROVE  NoDup(Append(q, x))
<1>1. PICK r : r = Append(q, x)
  OBVIOUS
<1>2. Len(q) \in Nat /\ DOMAIN q = 1 .. Len(q) /\ DOMAIN r = 1 .. (Len(q) + 1)
  BY <1>1
<1>3. (\A i \in 1 .. Len(q) : r[i] = q[i]) /\ r[Len(q) + 1] = x
  BY <1>1
<1>4. \A i \in DOMAIN r : i = Len(q) + 1 \/ i \in DOMAIN q
  BY <1>2
<1>5. x # COMPLETE => \A i \in DOMAIN q : q[i] # x
  BY DEF Items
<1>6. NoDup(r)
  BY <1>2, <1>3, <1>4, <1>5 DEF NoDup
<1> QED BY <1>1, <1>6

\* A list that loses its head holds nothing twice, and the head no more.
LEMMA NoDupTail ==
    ASSUME NEW S, NEW q \in Seq(S), q # <<>>, NoDup(q)
    PROVE  NoDup(Tail(q)) /\ (Head(q) # COMPLETE => Head(q) \notin Items(Tail(q)))
<1>1. PICK r : r = Tail(q)
  OBVIOUS
<1>2. Len(q) \in Nat /\ Len(q) > 0 /\ DOMAIN q = 1 .. Len(q) /\ DOMAIN r = 1 .. (Len(q) - 1)
  BY <1>1
<1>3. Head(q) = q[1] /\ \A i \in 1 .. (Len(q) - 1) : r[i] = q[i + 1]
  BY <1>1
<1>4. \A i \in DOMAIN r : i \in Nat /\ i > 0 /\ i + 1 \in DOMAIN q /\ r[i] = q[i + 1] /\ 1 \in DOMAIN q
  BY <1>2, <1>3
<1>5. NoDup(r)
  BY <1>4 DEF NoDup
<1>6. ASSUME Head(q) # COMPLETE, NEW i \in DOMAIN r, r[i] = Head(q)
      PROVE  FALSE
  BY <1>3, <1>4, <1>6 DEF NoDup
<1> QED BY <1>1, <1>5, <1>6 DEF Items

\* The lists, by the thread, process or node they belong to.
ListKeys == ({"thread"} \X Thread) \cup ({"proc"} \X Proc) \cup ({"node"} \X Proc)

ListOf(td, pt, at) ==
    [k \in ListKeys |-> IF k[1] = "thread" THEN td[k[2]]
                        ELSE IF k[1] = "proc" THEN pt[k[2]] ELSE at[k[2]]]

\* The transactions on the lists are those of U, each in one place.
OnLists(L, U) ==
    /\ L \in [ListKeys -> Seq(Work)]
    /\ U \subseteq Txn
    /\ \A k \in ListKeys : NoDup(L[k])
    /\ \A k, l \in ListKeys, t \in Txn : t \in Items(L[k]) /\ t \in Items(L[l]) => k = l
    /\ \A t \in Txn : t \in U <=> \E k \in ListKeys : t \in Items(L[k])

Grown(L, M, k, x) ==
    /\ k \in ListKeys
    /\ M \in [ListKeys -> Seq(Work)]
    /\ M[k] = Append(L[k], x)
    /\ \A l \in ListKeys : l # k => M[l] = L[l]

Shrunk(L, M, k) ==
    /\ k \in ListKeys
    /\ M \in [ListKeys -> Seq(Work)]
    /\ L[k] # <<>>
    /\ M[k] = Tail(L[k])
    /\ \A l \in ListKeys : l # k => M[l] = L[l]

\* A list grows by the transaction t, or by COMPLETE.
LEMMA ListGrows ==
    ASSUME NEW L, NEW U, OnLists(L, U), NEW M, NEW k, NEW x \in Work, Grown(L, M, k, x), x \notin U
    PROVE  /\ OnLists(M, U \cup ({x} \cap Txn))
           /\ \A l \in ListKeys, t \in Txn : t \in Items(M[l]) <=> t \in Items(L[l]) \/ (l = k /\ t = x)
<1> USE DEF Grown
<1>1. L \in [ListKeys -> Seq(Work)] /\ L[k] \in Seq(Work)
  BY DEF OnLists
<1>2. Items(M[k]) = Items(L[k]) \cup {x}
  BY <1>1, ItemsOfAppend
<1>3. x \in Txn \/ x = COMPLETE
  BY DEF Work
<1>4. x \in Txn => \A l \in ListKeys : x \notin Items(L[l])
  BY DEF OnLists
<1>5. ASSUME NEW l \in ListKeys
      PROVE  NoDup(M[l])
  <2>1. NoDup(L[k]) /\ NoDup(L[l]) /\ (x \notin Items(L[k]) \/ x = COMPLETE)
    BY <1>3, <1>4 DEF OnLists
  <2>2. NoDup(M[k])
    BY <1>1, <2>1, NoDupAppend
  <2> QED BY <2>1, <2>2
<1>6. \A l \in ListKeys, t \in Txn : t \in Items(M[l]) <=> t \in Items(L[l]) \/ (l = k /\ t = x)
  BY <1>2
<1>7. \A l, m \in ListKeys, t \in Txn : t \in Items(M[m]) /\ t \in Items(M[l]) => m = l
  <2>1. \A l, m \in ListKeys, t \in Txn : t \in Items(L[m]) /\ t \in Items(L[l]) => m = l
    BY DEF OnLists
  <2> QED BY <1>4, <1>6, <2>1
<1>8. \A t \in Txn : t \in U \cup ({x} \cap Txn) <=> \E l \in ListKeys : t \in Items(M[l])
  <2>1. \A t \in Txn : t \in U <=> \E l \in ListKeys : t \in Items(L[l])
    BY DEF OnLists
  <2> QED BY <1>6, <2>1
<1>9. U \cup ({x} \cap Txn) \subseteq Txn
  BY DEF OnLists
<1> QED BY <1>5, <1>6, <1>7, <1>8, <1>9 DEF OnLists

\* A list loses its first item.
LEMMA ListShrinks ==
    ASSUME NEW L, NEW U, OnLists(L, U), NEW M, NEW k, Shrunk(L, M, k)
    PROVE  /\ OnLists(M, U \ {Head(L[k])})
           /\ \A l \in ListKeys : Items(M[l]) \subseteq Items(L[l])
           /\ Head(L[k]) \in Items(L[k]) /\ Head(L[k]) \in Work
<1> USE DEF Shrunk
<1>1. L[k] \in Seq(Work)
  BY DEF OnLists
<1>2. PICK h : h = Head(L[k])
  OBVIOUS
<1>3. Items(L[k]) = {h} \cup Items(M[k]) /\ h \in Work /\ NoDup(M[k])
      /\ (h # COMPLETE => h \notin Items(M[k]))
  <2>1. NoDup(L[k])
    BY DEF OnLists
  <2> QED BY <1>1, <1>2, <2>1, ItemsOfTail, NoDupTail
<1>4. \A l \in ListKeys : NoDup(M[l])
  BY <1>3 DEF OnLists
<1>5. \A l \in ListKeys : Items(M[l]) \subseteq Items(L[l])
  BY <1>3
<1>6. \A l, m \in ListKeys, t \in Txn : t \in Items(M[m]) /\ t \in Items(M[l]) => m = l
  BY <1>5 DEF OnLists
<1>7. COMPLETE \notin Txn
  BY Distinct
<1>8. \A t \in Txn : t \in U \ {h} <=> \E l \in ListKeys : t \in Items(M[l])
  <2>1. \A t \in Txn : t \in U <=> \E l \in ListKeys : t \in Items(L[l])
    BY DEF OnLists
  <2>2. \A l, m \in ListKeys, t \in Txn : t \in Items(L[m]) /\ t \in Items(L[l]) => m = l
    BY DEF OnLists
  <2>3. ASSUME NEW t \in Txn, t \in U, t # h
        PROVE  \E l \in ListKeys : t \in Items(M[l])
    BY <1>3, <2>1, <2>3
  <2>4. ASSUME NEW t \in Txn, NEW l \in ListKeys, t \in Items(M[l])
        PROVE  t \in U /\ t # h
    BY <1>3, <1>5, <1>7, <2>1, <2>2, <2>4
  <2> QED BY <2>3, <2>4
<1>9. U \ {h} \subseteq Txn
  BY DEF OnLists
<1> QED BY <1>2, <1>3, <1>4, <1>5, <1>6, <1>8, <1>9 DEF OnLists

\* The lists by their keys, and the form of a key.
LEMMA ListKey ==
    ASSUME NEW td, NEW pt, NEW at
    PROVE  /\ \A th \in Thread : <<"thread", th>> \in ListKeys /\ ListOf(td, pt, at)[<<"thread", th>>] = td[th]
           /\ \A p \in Proc : <<"proc", p>> \in ListKeys /\ ListOf(td, pt, at)[<<"proc", p>>] = pt[p]
           /\ \A p \in Proc : <<"node", p>> \in ListKeys /\ ListOf(td, pt, at)[<<"node", p>>] = at[p]
           /\ \A k \in ListKeys : \/ k[1] = "thread" /\ k[2] \in Thread /\ k = <<"thread", k[2]>>
                                  \/ k[1] = "proc" /\ k[2] \in Proc /\ k = <<"proc", k[2]>>
                                  \/ k[1] = "node" /\ k[2] \in Proc /\ k = <<"node", k[2]>>
<1>1. \A th \in Thread : <<"thread", th>> \in ListKeys
  BY DEF ListKeys
<1>2. \A p \in Proc : <<"proc", p>> \in ListKeys
  BY DEF ListKeys
<1>3. \A p \in Proc : <<"node", p>> \in ListKeys
  BY DEF ListKeys
<1>4. \A k \in ListKeys : \/ k[1] = "thread" /\ k[2] \in Thread /\ k = <<"thread", k[2]>>
                          \/ k[1] = "proc" /\ k[2] \in Proc /\ k = <<"proc", k[2]>>
                          \/ k[1] = "node" /\ k[2] \in Proc /\ k = <<"node", k[2]>>
  BY DEF ListKeys
<1> QED BY <1>1, <1>2, <1>3, <1>4 DEF ListOf

\* The lists are sequences of work.
LEMMA ListType ==
    ASSUME NEW td \in [Thread -> Seq(Work)], NEW pt \in [Proc -> Seq(Txn)], NEW at \in [Proc -> Seq(Txn)]
    PROVE  ListOf(td, pt, at) \in [ListKeys -> Seq(Work)]
<1>1. \A S \in SUBSET Work : Seq(S) \subseteq Seq(Work)
  OBVIOUS
<1>2. Seq(Txn) \subseteq Seq(Work)
  BY <1>1 DEF Work
<1>3. ASSUME NEW k \in ListKeys
      PROVE  ListOf(td, pt, at)[k] \in Seq(Work)
  <2>1. k = <<"thread", k[2]>> /\ k[2] \in Thread => ListOf(td, pt, at)[k] \in Seq(Work)
    BY ListKey
  <2>2. k = <<"proc", k[2]>> /\ k[2] \in Proc => ListOf(td, pt, at)[k] \in Seq(Work)
    <3>1. k[2] \in Proc => pt[k[2]] \in Seq(Work)
      BY <1>2
    <3> QED BY <3>1, ListKey
  <2>3. k = <<"node", k[2]>> /\ k[2] \in Proc => ListOf(td, pt, at)[k] \in Seq(Work)
    <3>1. k[2] \in Proc => at[k[2]] \in Seq(Work)
      BY <1>2
    <3> QED BY <3>1, ListKey
  <2> QED BY <2>1, <2>2, <2>3, ListKey
<1> QED BY <1>3 DEF ListOf

-----------------------------------------------------------------------------
(* Transactions and their buffers *)

\* BufferOfTransaction for given transactions and buffers, strengthened: memory
\* that is free points to nothing.
Linked(tx, bf) ==
    /\ \A t \in Txn, b \in Buf : tx[t].buffer = b <=> bf[b].transaction = t
    /\ \A t \in Txn : tx[t].kind = "none" => tx[t].buffer = NULL
    /\ \A b \in Buf : bf[b].proc = NULL => bf[b].transaction = NULL

-----------------------------------------------------------------------------
(* Transactions, buffers, stacks and lists together *)

\* The transactions that are on their way to a thread, and the processes they go to.
Und(tx, bf) == {t \in Txn : tx[t].buffer # NULL /\ ~bf[tx[t].buffer].allow_user_free}

DestOf(tx, bf) ==
    [t \in Txn |-> IF tx[t].buffer = NULL THEN NULL ELSE bf[tx[t].buffer].proc]

\* What the fields of a transaction and of its buffer are, by its kind.
TxnOK(tx, bf, t) ==
    /\ tx[t].kind # "call" =>
          tx[t].from = NULL /\ tx[t].from_parent = NULL /\ tx[t].to_parent = NULL
    /\ tx[t].kind \in {"none", "oneway"} => tx[t].to_thread = NULL
    /\ tx[t].kind = "none" => tx[t].buffer = NULL
    /\ tx[t].kind \in {"oneway", "reply"} => t \in Und(tx, bf)
    /\ tx[t].kind = "reply" => tx[t].to_thread # NULL
    /\ tx[t].buffer # NULL =>
          /\ bf[tx[t].buffer].proc # NULL
          /\ bf[tx[t].buffer].async <=> tx[t].kind = "oneway"
          /\ bf[tx[t].buffer].target_node = NULL <=> tx[t].kind = "reply"
          /\ tx[t].to_thread # NULL => ProcOf[tx[t].to_thread] = bf[tx[t].buffer].proc
          /\ t \notin Und(tx, bf) => tx[t].to_thread # NULL

BufOK(bf, b) ==
    /\ bf[b].target_node \in {NULL, bf[b].proc}
    /\ bf[b].async => bf[b].target_node # NULL

\* What list a transaction may be on.
FitsIn(tx, dest, k, t) ==
    /\ k[1] = "thread" => dest[t] = ProcOf[k[2]] /\ (tx[t].kind # "oneway" => tx[t].to_thread = k[2])
    /\ k[1] = "proc" => dest[t] = k[2] /\ tx[t].kind # "reply" /\ tx[t].to_thread = NULL
    /\ k[1] = "node" => dest[t] = k[2] /\ tx[t].kind = "oneway"

Fit(tx, dest, L) == \A k \in ListKeys, t \in Txn : t \in Items(L[k]) => FitsIn(tx, dest, k, t)

MemType(tx, bf, top) ==
    /\ tx \in [Txn -> TxnRec]
    /\ bf \in [Buf -> BufRec]
    /\ top \in [Thread -> Txn \cup {NULL}]
    /\ Linked(tx, bf)

MemOK(tx, bf) == (\A t \in Txn : TxnOK(tx, bf, t)) /\ (\A b \in Buf : BufOK(bf, b))

Core(tx, bf, top, X, L) ==
    /\ MemType(tx, bf, top)
    /\ MemOK(tx, bf)
    /\ Stacks(tx, top, Und(tx, bf), DestOf(tx, bf), X)
    /\ OnLists(L, Und(tx, bf))
    /\ Fit(tx, DestOf(tx, bf), L)

\* Well-formed memory has the types that the lemmas about stacks assume.
LEMMA MemTyped ==
    ASSUME NEW tx, NEW bf, NEW top, MemType(tx, bf, top), MemOK(tx, bf)
    PROVE  Typed(tx, top, Und(tx, bf))
<1>1. \A t \in Txn : tx[t].kind # "call" => tx[t].from_parent = NULL /\ tx[t].to_parent = NULL
  BY DEF MemOK, TxnOK
<1>2. Und(tx, bf) \subseteq Txn
  BY DEF Und
<1> QED BY <1>1, <1>2 DEF Typed, MemType

\* The types of all fields, and that no two transactions share a buffer.
LEMMA MemFields ==
    ASSUME NEW tx, NEW bf, NEW top, MemType(tx, bf, top)
    PROVE  /\ \A t \in Txn : /\ tx[t].kind \in {"none", "call", "oneway", "reply"}
                             /\ tx[t].from \in Thread \cup {NULL} /\ tx[t].to_thread \in Thread \cup {NULL}
                             /\ tx[t].from_parent \in Txn \cup {NULL} /\ tx[t].to_parent \in Txn \cup {NULL}
                             /\ tx[t].buffer \in Buf \cup {NULL}
           /\ \A b \in Buf : /\ bf[b].proc \in Proc \cup {NULL} /\ bf[b].transaction \in Txn \cup {NULL}
                             /\ bf[b].target_node \in Proc \cup {NULL}
                             /\ bf[b].async \in BOOLEAN /\ bf[b].allow_user_free \in BOOLEAN
           /\ \A w \in Thread : top[w] \in Txn \cup {NULL}
           /\ \A s, t \in Txn : tx[s].buffer = tx[t].buffer /\ tx[s].buffer # NULL => s = t
<1>1. \A t \in Txn : tx[t] \in TxnRec
  BY DEF MemType
<1>2. \A b \in Buf : bf[b] \in BufRec
  BY DEF MemType
<1>3. \A t \in Txn : /\ tx[t].kind \in {"none", "call", "oneway", "reply"}
                     /\ tx[t].from \in Thread \cup {NULL} /\ tx[t].to_thread \in Thread \cup {NULL}
                     /\ tx[t].from_parent \in Txn \cup {NULL} /\ tx[t].to_parent \in Txn \cup {NULL}
                     /\ tx[t].buffer \in Buf \cup {NULL}
  BY <1>1 DEF TxnRec
<1>4. \A b \in Buf : /\ bf[b].proc \in Proc \cup {NULL} /\ bf[b].transaction \in Txn \cup {NULL}
                     /\ bf[b].target_node \in Proc \cup {NULL}
                     /\ bf[b].async \in BOOLEAN /\ bf[b].allow_user_free \in BOOLEAN
  BY <1>2 DEF BufRec
<1>5. \A w \in Thread : top[w] \in Txn \cup {NULL}
  BY DEF MemType
<1>6. \A s, t \in Txn : tx[s].buffer = tx[t].buffer /\ tx[s].buffer # NULL => s = t
  BY <1>3 DEF MemType, Linked
<1> QED BY <1>3, <1>4, <1>5, <1>6

\* Two states of memory agree on the buffer b, its transaction apart.
SameBuf(bf, bg, b) ==
    /\ bg[b].proc = bf[b].proc /\ bg[b].target_node = bf[b].target_node
    /\ bg[b].async = bf[b].async /\ bg[b].allow_user_free = bf[b].allow_user_free

\* A transaction stays well formed, and on its way, while its buffer stays the same.
LEMMA TxnSame ==
    ASSUME NEW tx, NEW bf, NEW ty, NEW bg, NEW t \in Txn, TxnOK(tx, bf, t), ty[t] = tx[t],
           tx[t].buffer # NULL => SameBuf(bf, bg, tx[t].buffer)
    PROVE  /\ TxnOK(ty, bg, t)
           /\ t \in Und(ty, bg) <=> t \in Und(tx, bf)
           /\ DestOf(ty, bg)[t] = DestOf(tx, bf)[t]
<1>1. t \in Und(ty, bg) <=> t \in Und(tx, bf)
  BY DEF Und, SameBuf
<1>2. DestOf(ty, bg)[t] = DestOf(tx, bf)[t]
  BY DEF DestOf, SameBuf
<1>3. TxnOK(ty, bg, t)
  BY <1>1 DEF TxnOK, SameBuf
<1> QED BY <1>1, <1>2, <1>3

\* The lists fit the memory when a transaction on them fits or did fit and has not changed.
LEMMA FitKept ==
    ASSUME NEW tx, NEW dest, NEW L, Fit(tx, dest, L), NEW ty, NEW dest2, NEW M,
           \A k \in ListKeys, t \in Txn : t \in Items(M[k]) =>
               \/ FitsIn(ty, dest2, k, t)
               \/ /\ t \in Items(L[k]) /\ dest2[t] = dest[t]
                  /\ ty[t].kind = tx[t].kind /\ ty[t].to_thread = tx[t].to_thread
    PROVE  Fit(ty, dest2, M)
BY DEF Fit, FitsIn

-----------------------------------------------------------------------------
(* Changes of the lists *)

\* A BR_TRANSACTION_COMPLETE that is queued changes no stack ...
LEMMA CompleteQueued ==
    ASSUME NEW tx, NEW bf, NEW top, NEW X, NEW L, Core(tx, bf, top, X, L), NEW M, NEW k,
           Grown(L, M, k, COMPLETE)
    PROVE  Core(tx, bf, top, X, M)
<1>1. PICK U : U = Und(tx, bf)
  OBVIOUS
<1>2. OnLists(L, U) /\ COMPLETE \in Work /\ COMPLETE \notin Txn /\ U \subseteq Txn
  BY <1>1, Distinct DEF Core, OnLists, Work
<1>3. /\ OnLists(M, U \cup ({COMPLETE} \cap Txn))
      /\ \A l \in ListKeys, t \in Txn : t \in Items(M[l]) => t \in Items(L[l])
  BY <1>2, ListGrows
<1>4. U \cup ({COMPLETE} \cap Txn) = U
  BY <1>2
<1>5. Fit(tx, DestOf(tx, bf), M)
  BY <1>3, FitKept DEF Core
<1> QED BY <1>1, <1>3, <1>4, <1>5 DEF Core

\* ... and neither does one that is read.
LEMMA CompleteRead ==
    ASSUME NEW tx, NEW bf, NEW top, NEW X, NEW L, Core(tx, bf, top, X, L), NEW M, NEW k,
           Shrunk(L, M, k), Head(L[k]) = COMPLETE
    PROVE  Core(tx, bf, top, X, M)
<1>1. PICK U : U = Und(tx, bf)
  OBVIOUS
<1>2. OnLists(L, U) /\ COMPLETE \notin U
  BY <1>1, Distinct DEF Core, OnLists
<1>3. OnLists(M, U) /\ \A l \in ListKeys : Items(M[l]) \subseteq Items(L[l])
  <2>1. U \ {Head(L[k])} = U
    BY <1>2
  <2>2. /\ OnLists(M, U \ {Head(L[k])})
        /\ \A l \in ListKeys : Items(M[l]) \subseteq Items(L[l])
    BY <1>2, ListShrinks
  <2> QED BY <2>1, <2>2
<1>4. Fit(tx, DestOf(tx, bf), M)
  BY <1>3, FitKept DEF Core
<1> QED BY <1>1, <1>3, <1>4 DEF Core

\* The next one-way call of the node of th moves to th.
LEMMA AsyncMoved ==
    ASSUME NEW tx, NEW bf, NEW top, NEW X, NEW L, Core(tx, bf, top, X, L), NEW M, NEW N,
           NEW k, NEW l, Shrunk(L, M, k), Grown(M, N, l, Head(L[k])),
           k[1] = "node", l[1] = "thread", k[2] = ProcOf[l[2]]
    PROVE  Core(tx, bf, top, X, N)
<1>1. PICK U, t : U = Und(tx, bf) /\ t = Head(L[k])
  OBVIOUS
<1>2. k \in ListKeys /\ l \in ListKeys /\ k # l /\ Grown(M, N, l, t)
  BY <1>1 DEF Shrunk, Grown
<1>3. OnLists(L, U) /\ Fit(tx, DestOf(tx, bf), L)
  BY <1>1 DEF Core
<1>4. /\ OnLists(M, U \ {t}) /\ \A m \in ListKeys : Items(M[m]) \subseteq Items(L[m])
      /\ t \in Items(L[k]) /\ t \in Work
  BY <1>1, <1>3, ListShrinks
<1>5. /\ OnLists(N, (U \ {t}) \cup ({t} \cap Txn))
      /\ \A m \in ListKeys, s \in Txn : s \in Items(N[m]) => (m = l /\ s = t) \/ s \in Items(M[m])
  <2>1. t \notin U \ {t}
    OBVIOUS
  <2> QED BY <1>2, <1>4, <2>1, ListGrows
<1>6. (U \ {t}) \cup ({t} \cap Txn) = U
  BY <1>2, <1>3, <1>4 DEF OnLists
<1>7. t \in Txn => FitsIn(tx, DestOf(tx, bf), l, t)
  <2>1. t \in Txn => FitsIn(tx, DestOf(tx, bf), k, t)
    BY <1>2, <1>3, <1>4 DEF Fit
  <2> QED BY <2>1 DEF FitsIn
<1>8. Fit(tx, DestOf(tx, bf), N)
  BY <1>3, <1>4, <1>5, <1>7, FitKept
<1> QED BY <1>1, <1>5, <1>6, <1>8 DEF Core

-----------------------------------------------------------------------------
(* New transactions *)

\* The transaction t with the buffer b of process p is new.
Made(tx, bf, ty, bg, t, b, p) ==
    /\ t \in Txn /\ tx[t].kind = "none" /\ b \in Buf /\ bf[b].proc = NULL /\ p \in Proc
    /\ \A x \in Txn : x # t => ty[x] = tx[x]
    /\ \A c \in Buf : c # b => bg[c] = bf[c]
    /\ ty[t].buffer = b /\ bg[b].proc = p /\ ~bg[b].allow_user_free
    /\ TxnOK(ty, bg, t) /\ BufOK(bg, b)

\* A new transaction with its buffer is well formed and on its way.
LEMMA NewMemory ==
    ASSUME NEW tx, NEW bf, NEW top, NEW ty, NEW bg, NEW t, NEW b, NEW p,
           MemType(tx, bf, top), MemOK(tx, bf), Made(tx, bf, ty, bg, t, b, p)
    PROVE  /\ MemOK(ty, bg)
           /\ t \notin Und(tx, bf) /\ Und(ty, bg) = Und(tx, bf) \cup {t}
           /\ DestOf(ty, bg)[t] = p
           /\ \A x \in Txn : x # t => DestOf(ty, bg)[x] = DestOf(tx, bf)[x]
           /\ t \notin CallsOf(tx)
<1> USE DEF Made
<1>1. tx[t].buffer = NULL /\ NULL \notin Buf /\ NULL \notin Txn /\ b # NULL
  BY Distinct DEF MemOK, TxnOK
<1>2. \A x \in Txn : tx[x].buffer # b
  BY <1>1 DEF MemType, Linked
<1>3. ASSUME NEW x \in Txn, x # t
      PROVE  /\ TxnOK(ty, bg, x) /\ (x \in Und(ty, bg) <=> x \in Und(tx, bf))
             /\ DestOf(ty, bg)[x] = DestOf(tx, bf)[x]
  <2>1. TxnOK(tx, bf, x) /\ ty[x] = tx[x]
    BY <1>3 DEF MemOK
  <2>2. tx[x].buffer # NULL => SameBuf(bf, bg, tx[x].buffer)
    <3>1. tx[x].buffer \in Buf \cup {NULL}
      BY MemFields
    <3> QED BY <1>2, <3>1 DEF SameBuf
  <2> QED BY <2>1, <2>2, TxnSame
<1>4. \A c \in Buf : BufOK(bg, c)
  BY DEF MemOK, BufOK
<1>5. t \in Und(ty, bg) /\ t \notin Und(tx, bf)
  BY <1>1 DEF Und
<1>6. DestOf(ty, bg)[t] = p
  BY <1>1 DEF DestOf
<1>7. Und(ty, bg) = Und(tx, bf) \cup {t}
  <2>1. Und(ty, bg) \subseteq Txn /\ Und(tx, bf) \subseteq Txn
    BY DEF Und
  <2> QED BY <1>3, <1>5, <2>1
<1>8. MemOK(ty, bg)
  BY <1>3, <1>4 DEF MemOK
<1> QED BY <1>3, <1>5, <1>6, <1>7, <1>8 DEF CallsOf

\* A new transaction that is put on the list it fits in is on that list only.
LEMMA NewOnList ==
    ASSUME NEW tx, NEW bf, NEW top, NEW X, NEW L, Core(tx, bf, top, X, L),
           NEW ty, NEW bg, NEW t, NEW b, NEW p, Made(tx, bf, ty, bg, t, b, p),
           NEW M, NEW k, Grown(L, M, k, t), FitsIn(ty, DestOf(ty, bg), k, t)
    PROVE  OnLists(M, Und(ty, bg)) /\ Fit(ty, DestOf(ty, bg), M)
<1>1. PICK U, V, d, e : U = Und(tx, bf) /\ V = Und(ty, bg) /\ d = DestOf(tx, bf) /\ e = DestOf(ty, bg)
  OBVIOUS
<1>2. /\ t \in Txn /\ t \notin U /\ V = U \cup {t} /\ \A x \in Txn : x # t => e[x] = d[x]
  BY <1>1, NewMemory DEF Core, Made
<1>3. OnLists(L, U) /\ Fit(tx, d, L) /\ t \in Work
  BY <1>1, <1>2 DEF Core, Work
<1>4. /\ OnLists(M, U \cup ({t} \cap Txn))
      /\ \A m \in ListKeys, s \in Txn : s \in Items(M[m]) => (m = k /\ s = t) \/ s \in Items(L[m])
  BY <1>2, <1>3, ListGrows
<1>5. U \cup ({t} \cap Txn) = V
  BY <1>2
<1>6. \A m \in ListKeys, s \in Txn : s \in Items(L[m]) => s # t /\ ty[s] = tx[s] /\ e[s] = d[s]
  <2>1. \A m \in ListKeys, s \in Txn : s \in Items(L[m]) => s \in U
    BY <1>3 DEF OnLists
  <2> QED BY <1>2, <2>1 DEF Made
<1>7. Fit(ty, e, M)
  BY <1>1, <1>3, <1>4, <1>6, FitKept
<1> QED BY <1>1, <1>4, <1>5, <1>7

\* BC_TRANSACTION
LEMMA CallMade ==
    ASSUME NEW tx, NEW bf, NEW top, NEW X, NEW L, Core(tx, bf, top, X, L),
           NEW ty, NEW bg, NEW top2, MemType(ty, bg, top2),
           NEW t, NEW b, NEW p, Made(tx, bf, ty, bg, t, b, p),
           NEW M, NEW k, Grown(L, M, k, t), FitsIn(ty, DestOf(ty, bg), k, t),
           NEW th \in Thread, ProcOf[th] # p, NEW u \in Thread \cup {NULL},
           top[th] # NULL => tx[top[th]].to_thread = th,
           u = NULL => \A x \in Above(tx, top[th]) : tx[x].from # NULL => ProcOf[tx[x].from] # p,
           u # NULL => ProcOf[u] = p /\ \E x \in Above(tx, top[th]) : tx[x].from = u,
           ty[t].kind = "call", ty[t].from = th, ty[t].from_parent = top[th],
           ty[t].to_thread = u, ty[t].to_parent = NULL,
           top2[th] = t, \A w \in Thread : w # th => top2[w] = top[w]
    PROVE  Core(ty, bg, top2, X, M)
<1>1. PICK U, V, d, e : U = Und(tx, bf) /\ V = Und(ty, bg) /\ d = DestOf(tx, bf) /\ e = DestOf(ty, bg)
  OBVIOUS
<1>2. /\ MemOK(ty, bg) /\ V = U \cup {t} /\ e[t] = p
      /\ \A x \in Txn : x # t => e[x] = d[x]
      /\ t \notin CallsOf(tx)
  BY <1>1, NewMemory DEF Core
<1>3. /\ t \in Txn /\ p \in Proc /\ \A x \in Txn : x # t => ty[x] = tx[x]
      /\ \A c \in CallsOf(tx) : c \in U => e[c] = d[c]
  BY <1>2 DEF Made, CallsOf
<1>4. Typed(tx, top, U) /\ Stacks(tx, top, U, d, X) /\ Typed(ty, top2, V)
  <2>1. Typed(tx, top, U) /\ Stacks(tx, top, U, d, X)
    BY <1>1, MemTyped DEF Core
  <2>2. Typed(ty, top2, Und(ty, bg))
    BY <1>2, MemTyped
  <2> QED BY <1>1, <2>1, <2>2
<1>5. Stacks(ty, top2, V, e, X)
  BY <1>2, <1>3, <1>4, Pushed
<1>6. OnLists(M, V) /\ Fit(ty, e, M)
  BY <1>1, NewOnList
<1> QED BY <1>1, <1>2, <1>5, <1>6 DEF Core

\* A one-way call, or a reply.
LEMMA OtherMade ==
    ASSUME NEW tx, NEW bf, NEW top, NEW X, NEW L, Core(tx, bf, top, X, L),
           NEW ty, NEW bg, MemType(ty, bg, top),
           NEW t, NEW b, NEW p, Made(tx, bf, ty, bg, t, b, p), ty[t].kind # "call",
           NEW M, NEW k, Grown(L, M, k, t), FitsIn(ty, DestOf(ty, bg), k, t)
    PROVE  Core(ty, bg, top, X, M)
<1>1. PICK U, V, d, e : U = Und(tx, bf) /\ V = Und(ty, bg) /\ d = DestOf(tx, bf) /\ e = DestOf(ty, bg)
  OBVIOUS
<1>2. /\ MemOK(ty, bg) /\ V = U \cup {t}
      /\ \A x \in Txn : x # t => e[x] = d[x]
      /\ t \notin CallsOf(tx)
  BY <1>1, NewMemory DEF Core
<1>3. CallsOf(ty) = CallsOf(tx)
  BY <1>2 DEF Made, CallsOf
<1>4. /\ \A c \in CallsOf(tx) : Agree(tx, ty, c) /\ (c \in V <=> c \in U)
      /\ \A c \in CallsOf(tx) : c \in U => e[c] = d[c]
  BY <1>2 DEF Made, CallsOf, Agree
<1>5. Typed(tx, top, U) /\ Stacks(tx, top, U, d, X) /\ Typed(ty, top, V)
  <2>1. Typed(tx, top, U) /\ Stacks(tx, top, U, d, X)
    BY <1>1, MemTyped DEF Core
  <2>2. Typed(ty, top, Und(ty, bg))
    BY <1>2, MemTyped
  <2> QED BY <1>1, <2>1, <2>2
<1>6. Stacks(ty, top, V, e, X)
  BY <1>3, <1>4, <1>5, OtherMemory
<1>7. OnLists(M, V) /\ Fit(ty, e, M)
  BY <1>1, NewOnList
<1> QED BY <1>1, <1>2, <1>6, <1>7 DEF Core

-----------------------------------------------------------------------------
(* Transactions that go *)

\* The transactions of F are freed; their buffers may change hands.
Gone(tx, bf, ty, bg, F) ==
    /\ \A x \in Txn : ty[x] = IF x \in F THEN NoTxn ELSE tx[x]
    /\ \A c \in Buf : /\ bg[c].proc = bf[c].proc /\ bg[c].target_node = bf[c].target_node
                      /\ bg[c].async = bf[c].async
                      /\ (\A x \in F : tx[x].buffer # c) => bg[c].allow_user_free = bf[c].allow_user_free

\* Memory is well formed after the transactions of F are freed.
LEMMA GoneMemory ==
    ASSUME NEW tx, NEW bf, NEW top, NEW ty, NEW bg, NEW F \in SUBSET Txn,
           MemType(tx, bf, top), MemOK(tx, bf), Gone(tx, bf, ty, bg, F)
    PROVE  /\ MemOK(ty, bg)
           /\ Und(ty, bg) = Und(tx, bf) \ F
           /\ \A x \in Txn \ F : DestOf(ty, bg)[x] = DestOf(tx, bf)[x]
           /\ CallsOf(ty) = CallsOf(tx) \ F
<1> USE DEF Gone
<1>1. ASSUME NEW x \in Txn, x \notin F
      PROVE  /\ TxnOK(ty, bg, x) /\ (x \in Und(ty, bg) <=> x \in Und(tx, bf))
             /\ DestOf(ty, bg)[x] = DestOf(tx, bf)[x]
  <2>1. TxnOK(tx, bf, x) /\ ty[x] = tx[x]
    BY <1>1 DEF MemOK
  <2>2. tx[x].buffer # NULL => SameBuf(bf, bg, tx[x].buffer)
    <3>1. tx[x].buffer \in Buf \cup {NULL} /\ (tx[x].buffer # NULL => \A y \in F : tx[y].buffer # tx[x].buffer)
      BY <1>1, MemFields
    <3> QED BY <3>1 DEF SameBuf
  <2> QED BY <2>1, <2>2, TxnSame
<1>2. NoTxn.kind = "none" /\ NoTxn.buffer = NULL /\ NoTxn.from = NULL /\ NoTxn.from_parent = NULL
      /\ NoTxn.to_thread = NULL /\ NoTxn.to_parent = NULL
  BY DEF NoTxn
<1>3. \A x \in F : TxnOK(ty, bg, x) /\ x \notin Und(ty, bg) /\ ty[x].kind = "none"
  BY <1>2 DEF TxnOK, Und
<1>4. \A c \in Buf : BufOK(bg, c)
  BY DEF MemOK, BufOK
<1>5. MemOK(ty, bg)
  BY <1>1, <1>3, <1>4 DEF MemOK
<1>6. Und(ty, bg) = Und(tx, bf) \ F
  <2>1. Und(ty, bg) \subseteq Txn /\ Und(tx, bf) \subseteq Txn
    BY DEF Und
  <2> QED BY <1>1, <1>3, <2>1
<1>7. CallsOf(ty) = CallsOf(tx) \ F
  BY <1>3 DEF CallsOf
<1> QED BY <1>1, <1>5, <1>6, <1>7

\* A one-way call or a reply is taken off its list and freed.
LEMMA OtherGone ==
    ASSUME NEW tx, NEW bf, NEW top, NEW X, NEW L, Core(tx, bf, top, X, L),
           NEW ty, NEW bg, MemType(ty, bg, top), NEW M, NEW k, Shrunk(L, M, k),
           NEW t \in Txn, t = Head(L[k]), tx[t].kind # "call", Gone(tx, bf, ty, bg, {t})
    PROVE  Core(ty, bg, top, X, M)
<1>1. PICK U, V, d, e : U = Und(tx, bf) /\ V = Und(ty, bg) /\ d = DestOf(tx, bf) /\ e = DestOf(ty, bg)
  OBVIOUS
<1>2. /\ MemOK(ty, bg) /\ V = U \ {t}
      /\ \A x \in Txn : x # t => e[x] = d[x]
      /\ CallsOf(ty) = CallsOf(tx) \ {t}
  <2>1. {t} \in SUBSET Txn
    OBVIOUS
  <2> QED BY <1>1, <2>1, GoneMemory DEF Core
<1>3. CallsOf(ty) = CallsOf(tx) /\ t \notin CallsOf(tx)
  BY <1>2 DEF CallsOf
<1>4. /\ \A c \in CallsOf(tx) : Agree(tx, ty, c) /\ (c \in V <=> c \in U)
      /\ \A c \in CallsOf(tx) : c \in U => e[c] = d[c]
  BY <1>2, <1>3 DEF Gone, CallsOf, Agree
<1>5. Typed(tx, top, U) /\ Stacks(tx, top, U, d, X) /\ Typed(ty, top, V)
  <2>1. Typed(tx, top, U) /\ Stacks(tx, top, U, d, X)
    BY <1>1, MemTyped DEF Core
  <2>2. Typed(ty, top, Und(ty, bg))
    BY <1>2, MemTyped
  <2> QED BY <1>1, <2>1, <2>2
<1>6. Stacks(ty, top, V, e, X)
  BY <1>3, <1>4, <1>5, OtherMemory
<1>7. OnLists(L, U) /\ Fit(tx, d, L)
  BY <1>1 DEF Core
<1>8. OnLists(M, V) /\ \A l \in ListKeys : Items(M[l]) \subseteq Items(L[l])
  BY <1>2, <1>7, ListShrinks
<1>9. \A l \in ListKeys, x \in Txn : x \in Items(M[l]) => x \in Items(L[l]) /\ ty[x] = tx[x] /\ e[x] = d[x]
  <2>1. \A l \in ListKeys, x \in Txn : x \in Items(M[l]) => x # t
    BY <1>2, <1>8 DEF OnLists
  <2> QED BY <1>2, <1>8, <2>1 DEF Gone
<1>10. Fit(ty, e, M)
  BY <1>7, <1>9, FitKept
<1> QED BY <1>1, <1>2, <1>6, <1>8, <1>10 DEF Core

\* binder_send_failed_reply for the call t that nobody serves any more.
LEMMA CallFailed ==
    ASSUME NEW tx, NEW bf, NEW top, NEW X, NEW L, Core(tx, bf, top, X, L),
           NEW t \in CallsOf(tx), Leaf(tx, t), tx[t].to_thread = NULL, tx[t].buffer = NULL,
           NEW F, F = FailedChain(t, tx),
           NEW ty, NEW bg, NEW top2, MemType(ty, bg, top2), Gone(tx, bf, ty, bg, F),
           NEW u \in Thread \cup {NULL}, NEW x,
           \/ u = NULL /\ \A z \in F : tx[z].from = NULL
           \/ u # NULL /\ x \in F /\ tx[x].from = u /\ top2[u] = tx[x].from_parent,
           \A w \in Thread : w # u => top2[w] = top[w]
    PROVE  Core(ty, bg, top2, X, L)
<1>1. PICK U, V, d, e : U = Und(tx, bf) /\ V = Und(ty, bg) /\ d = DestOf(tx, bf) /\ e = DestOf(ty, bg)
  OBVIOUS
<1>2. Typed(tx, top, U) /\ Stacks(tx, top, U, d, X) /\ OnLists(L, U) /\ Fit(tx, d, L)
  BY <1>1, MemTyped DEF Core
<1>3. t \notin U
  BY <1>1 DEF Und
<1>4. F \in SUBSET Txn /\ F \cap U = {}
  <2>1. \A z \in F : z \in CallsOf(tx) /\ z \notin U
    BY <1>2, <1>3, FailedChainShape
  <2> QED BY <2>1 DEF CallsOf
<1>5. /\ MemOK(ty, bg) /\ Und(ty, bg) = Und(tx, bf) \ F
      /\ \A y \in Txn \ F : DestOf(ty, bg)[y] = DestOf(tx, bf)[y]
      /\ CallsOf(ty) = CallsOf(tx) \ F
  BY <1>4, GoneMemory DEF Core
<1>6. V = U /\ \A y \in Txn \ F : e[y] = d[y]
  BY <1>1, <1>4, <1>5
<1>7. Typed(ty, top2, V)
  <2>1. Typed(ty, top2, Und(ty, bg))
    BY <1>5, MemTyped
  <2> QED BY <1>1, <2>1
<1>8. /\ \A c \in CallsOf(tx) \ F : Agree(tx, ty, c) /\ (c \in V <=> c \in U)
      /\ \A c \in CallsOf(tx) \ F : c \in V => e[c] = d[c]
  BY <1>6 DEF Gone, CallsOf, Agree
<1>9. Stacks(ty, top2, V, e, X)
  BY <1>2, <1>3, <1>5, <1>7, <1>8, Failed
<1>10. Fit(ty, e, L)
  <2>1. \A k \in ListKeys, y \in Txn : y \in Items(L[k]) => y \notin F
    BY <1>2, <1>4 DEF OnLists
  <2>2. \A k \in ListKeys, y \in Txn : y \in Items(L[k]) => ty[y] = tx[y] /\ e[y] = d[y]
    BY <1>6, <2>1 DEF Gone
  <2> QED BY <1>2, <2>2, FitKept
<1> QED BY <1>1, <1>2, <1>5, <1>6, <1>9, <1>10 DEF Core

\* The call t is with nobody: neither sent nor served.
Left(tx, bf, ty, bg, t) ==
    /\ \A x \in Txn : x # t => ty[x] = tx[x]
    /\ ty[t].kind = "call" /\ ty[t].from = tx[t].from /\ ty[t].from_parent = tx[t].from_parent
    /\ ty[t].to_thread = NULL /\ ty[t].to_parent = NULL /\ ty[t].buffer = NULL
    /\ \A c \in Buf : SameBuf(bf, bg, c)

\* Memory is well formed after the call t has lost its buffer and its server.
LEMMA LeftMemory ==
    ASSUME NEW tx, NEW bf, NEW top, NEW ty, NEW bg, NEW t \in CallsOf(tx),
           MemType(tx, bf, top), MemOK(tx, bf), Left(tx, bf, ty, bg, t)
    PROVE  /\ MemOK(ty, bg)
           /\ Und(ty, bg) = Und(tx, bf) \ {t}
           /\ \A x \in Txn : x # t => DestOf(ty, bg)[x] = DestOf(tx, bf)[x]
           /\ CallsOf(ty) = CallsOf(tx)
<1> USE DEF Left
<1>1. ASSUME NEW x \in Txn, x # t
      PROVE  /\ TxnOK(ty, bg, x) /\ (x \in Und(ty, bg) <=> x \in Und(tx, bf))
             /\ DestOf(ty, bg)[x] = DestOf(tx, bf)[x]
  <2>1. TxnOK(tx, bf, x) /\ ty[x] = tx[x]
    BY <1>1 DEF MemOK
  <2>2. tx[x].buffer # NULL => SameBuf(bf, bg, tx[x].buffer)
    BY MemFields
  <2> QED BY <2>1, <2>2, TxnSame
<1>2. TxnOK(ty, bg, t) /\ t \notin Und(ty, bg)
  BY DEF TxnOK, Und
<1>3. \A c \in Buf : BufOK(bg, c)
  BY DEF MemOK, BufOK, SameBuf
<1>4. MemOK(ty, bg)
  BY <1>1, <1>2, <1>3 DEF MemOK
<1>5. Und(ty, bg) = Und(tx, bf) \ {t}
  <2>1. Und(ty, bg) \subseteq Txn /\ Und(tx, bf) \subseteq Txn
    BY DEF Und
  <2> QED BY <1>1, <1>2, <2>1
<1>6. CallsOf(ty) = CallsOf(tx)
  BY DEF CallsOf
<1> QED BY <1>1, <1>4, <1>5, <1>6

\* th leaves the call on top of its stack.
LEMMA CallPopped ==
    ASSUME NEW tx, NEW bf, NEW top, NEW X, NEW L, Core(tx, bf, top, X, L),
           NEW th \in Thread, NEW t \in CallsOf(tx), top[th] = t, tx[t].to_thread = th,
           NEW ty, NEW bg, NEW top2, MemType(ty, bg, top2), Left(tx, bf, ty, bg, t),
           top2[th] = tx[t].to_parent, \A v \in Thread : v # th => top2[v] = top[v]
    PROVE  Core(ty, bg, top2, X, L) /\ Leaf(ty, t) /\ t \in CallsOf(ty)
<1>1. PICK U, V, d, e : U = Und(tx, bf) /\ V = Und(ty, bg) /\ d = DestOf(tx, bf) /\ e = DestOf(ty, bg)
  OBVIOUS
<1>2. Typed(tx, top, U) /\ Stacks(tx, top, U, d, X) /\ OnLists(L, U) /\ Fit(tx, d, L)
  BY <1>1, MemTyped DEF Core
<1>3. /\ MemOK(ty, bg) /\ Und(ty, bg) = Und(tx, bf) \ {t}
      /\ \A x \in Txn : x # t => DestOf(ty, bg)[x] = DestOf(tx, bf)[x]
      /\ CallsOf(ty) = CallsOf(tx)
  BY LeftMemory DEF Core
<1>4. Typed(ty, top2, U) /\ Typed(ty, top2, V)
  <2>1. Typed(ty, top2, Und(ty, bg))
    BY <1>3, MemTyped
  <2> QED BY <1>1, <1>2, <2>1 DEF Typed
<1>5. Stacks(ty, top2, U, d, X) /\ Leaf(ty, t) /\ t \notin U
  BY <1>2, <1>4, Popped DEF Left
<1>6. V = U /\ \A x \in Txn : x # t => e[x] = d[x]
  BY <1>1, <1>3, <1>5
<1>7. Stacks(ty, top2, V, e, X)
  <2>1. \A c \in CallsOf(ty) : Agree(ty, ty, c)
    BY DEF Agree
  <2>2. \A c \in CallsOf(ty) : c \in U => e[c] = d[c]
    BY <1>5, <1>6 DEF CallsOf
  <2> QED BY <1>4, <1>5, <1>6, <2>1, <2>2, OtherMemory
<1>8. Fit(ty, e, L)
  <2>1. \A k \in ListKeys, y \in Txn : y \in Items(L[k]) => y # t
    BY <1>2, <1>5 DEF OnLists
  <2>2. \A k \in ListKeys, y \in Txn : y \in Items(L[k]) => ty[y] = tx[y] /\ e[y] = d[y]
    BY <1>6, <2>1 DEF Left
  <2> QED BY <1>2, <2>2, FitKept
<1> QED BY <1>1, <1>2, <1>3, <1>5, <1>6, <1>7, <1>8 DEF Core

\* The call t is taken off its list and goes to nobody.
LEMMA CallUnqueued ==
    ASSUME NEW tx, NEW bf, NEW top, NEW X, NEW L, Core(tx, bf, top, X, L),
           NEW M, NEW k, Shrunk(L, M, k), NEW t \in CallsOf(tx), t = Head(L[k]),
           NEW ty, NEW bg, MemType(ty, bg, top), Left(tx, bf, ty, bg, t)
    PROVE  Core(ty, bg, top, X, M) /\ Leaf(ty, t) /\ t \in CallsOf(ty)
<1>1. PICK U, V, d, e : U = Und(tx, bf) /\ V = Und(ty, bg) /\ d = DestOf(tx, bf) /\ e = DestOf(ty, bg)
  OBVIOUS
<1>2. Typed(tx, top, U) /\ Stacks(tx, top, U, d, X) /\ OnLists(L, U) /\ Fit(tx, d, L)
  BY <1>1, MemTyped DEF Core
<1>3. /\ MemOK(ty, bg) /\ Und(ty, bg) = Und(tx, bf) \ {t}
      /\ \A x \in Txn : x # t => DestOf(ty, bg)[x] = DestOf(tx, bf)[x]
      /\ CallsOf(ty) = CallsOf(tx)
  BY LeftMemory DEF Core
<1>4. Typed(ty, top, V)
  <2>1. Typed(ty, top, Und(ty, bg))
    BY <1>3, MemTyped
  <2> QED BY <1>1, <2>1
<1>5. V = U \ {t} /\ \A x \in Txn : x # t => e[x] = d[x]
  BY <1>1, <1>3
<1>6. /\ OnLists(M, U \ {t}) /\ \A l \in ListKeys : Items(M[l]) \subseteq Items(L[l])
      /\ t \in Items(L[k]) /\ t \in Txn
  BY <1>2, ListShrinks DEF CallsOf
<1>7. t \in U
  BY <1>2, <1>6 DEF OnLists, Shrunk
<1>8. Stacks(ty, top, V, e, X) /\ Leaf(ty, t)
  <2>1. \A c \in CallsOf(tx) : c \in V => e[c] = d[c]
    BY <1>5 DEF CallsOf
  <2>2. /\ ty[t].kind = "call" /\ ty[t].from = tx[t].from /\ ty[t].from_parent = tx[t].from_parent
        /\ ty[t].to_thread = NULL /\ ty[t].to_parent = NULL
        /\ \A x \in Txn : x # t => ty[x] = tx[x]
    BY DEF Left
  <2> QED BY <1>2, <1>4, <1>5, <1>7, <2>1, <2>2, Unqueued
<1>9. Fit(ty, e, M)
  <2>1. \A l \in ListKeys, y \in Txn : y \in Items(M[l]) => y # t
    BY <1>6 DEF OnLists
  <2>2. \A l \in ListKeys, y \in Txn : y \in Items(M[l]) => y \in Items(L[l]) /\ ty[y] = tx[y] /\ e[y] = d[y]
    BY <1>5, <1>6, <2>1 DEF Left
  <2> QED BY <1>2, <2>2, FitKept
<1> QED BY <1>1, <1>3, <1>5, <1>6, <1>8, <1>9 DEF Core

\* The call t, with the buffer b, is given to w, whose stack has s on top.
Handed(tx, bf, ty, bg, t, b, w, s) ==
    /\ \A x \in Txn : x # t => ty[x] = tx[x]
    /\ ty[t].kind = "call" /\ ty[t].from = tx[t].from /\ ty[t].from_parent = tx[t].from_parent
    /\ ty[t].buffer = b /\ ty[t].to_thread = w /\ ty[t].to_parent = s
    /\ \A c \in Buf : c # b => SameBuf(bf, bg, c)
    /\ bg[b].proc = bf[b].proc /\ bg[b].target_node = bf[b].target_node
    /\ bg[b].async = bf[b].async /\ bg[b].allow_user_free

\* BR_TRANSACTION for w, of the call at the head of its list or of that of its process.
LEMMA CallDelivered ==
    ASSUME NEW tx, NEW bf, NEW top, NEW X, NEW L, Core(tx, bf, top, X, L),
           NEW M, NEW k, Shrunk(L, M, k), NEW t \in CallsOf(tx), t = Head(L[k]),
           NEW w \in Thread, w # X,
           (k[1] = "thread" /\ k[2] = w) \/ (k[1] = "proc" /\ k[2] = ProcOf[w] /\ top[w] = NULL),
           NEW ty, NEW bg, NEW top2, MemType(ty, bg, top2), NEW s, s = top[w], NEW b, b = tx[t].buffer,
           Handed(tx, bf, ty, bg, t, b, w, s),
           top2[w] = t, \A v \in Thread : v # w => top2[v] = top[v]
    PROVE  Core(ty, bg, top2, X, M)
<1>0. /\ \A x \in Txn : x # t => ty[x] = tx[x]
      /\ ty[t].kind = "call" /\ ty[t].from = tx[t].from /\ ty[t].from_parent = tx[t].from_parent
      /\ ty[t].buffer = tx[t].buffer /\ ty[t].to_thread = w /\ ty[t].to_parent = top[w]
      /\ \A c \in Buf : c # tx[t].buffer => SameBuf(bf, bg, c)
      /\ bg[tx[t].buffer].proc = bf[tx[t].buffer].proc
      /\ bg[tx[t].buffer].target_node = bf[tx[t].buffer].target_node
      /\ bg[tx[t].buffer].async = bf[tx[t].buffer].async
      /\ bg[tx[t].buffer].allow_user_free
  BY DEF Handed
<1>1. PICK U, V, d, e : U = Und(tx, bf) /\ V = Und(ty, bg) /\ d = DestOf(tx, bf) /\ e = DestOf(ty, bg)
  OBVIOUS
<1>2. Typed(tx, top, U) /\ Stacks(tx, top, U, d, X) /\ OnLists(L, U) /\ Fit(tx, d, L)
  BY <1>1, MemTyped DEF Core
<1>3. /\ OnLists(M, U \ {t}) /\ \A l \in ListKeys : Items(M[l]) \subseteq Items(L[l])
      /\ t \in Items(L[k]) /\ t \in Txn /\ tx[t].kind = "call" /\ k \in ListKeys
  <2>1. /\ OnLists(M, U \ {Head(L[k])}) /\ \A l \in ListKeys : Items(M[l]) \subseteq Items(L[l])
        /\ Head(L[k]) \in Items(L[k])
    BY <1>2, ListShrinks
  <2>2. t \in Txn /\ tx[t].kind = "call" /\ k \in ListKeys
    BY DEF CallsOf, Shrunk
  <2> QED BY <2>1, <2>2
<1>4. t \in U
  BY <1>2, <1>3 DEF OnLists
<1>5. tx[t].buffer # NULL /\ d[t] = bf[tx[t].buffer].proc /\ tx[t].buffer \in Buf
  <2>1. tx[t].buffer # NULL
    BY <1>1, <1>4 DEF Und
  <2>2. d[t] = bf[tx[t].buffer].proc
    BY <1>1, <1>3, <2>1 DEF DestOf
  <2>3. tx[t].buffer \in Buf
    BY <1>3, <2>1, MemFields DEF Core
  <2> QED BY <2>1, <2>2, <2>3
<1>6. /\ d[t] = ProcOf[w]
      /\ \/ tx[t].to_thread = w
         \/ tx[t].to_thread = NULL /\ d[t] = ProcOf[w] /\ top[w] = NULL
  <2>1. FitsIn(tx, d, k, t)
    BY <1>2, <1>3 DEF Fit
  <2>2. CASE k[1] = "thread" /\ k[2] = w
    BY <1>3, <2>1, <2>2 DEF FitsIn
  <2>3. CASE k[1] = "proc" /\ k[2] = ProcOf[w] /\ top[w] = NULL
    BY <2>1, <2>3 DEF FitsIn
  <2> QED BY <2>2, <2>3
<1>7. ASSUME NEW x \in Txn, x # t
      PROVE  /\ TxnOK(ty, bg, x) /\ (x \in Und(ty, bg) <=> x \in Und(tx, bf))
             /\ DestOf(ty, bg)[x] = DestOf(tx, bf)[x]
  <2>1. TxnOK(tx, bf, x) /\ ty[x] = tx[x]
    BY <1>0, <1>7 DEF Core, MemOK
  <2>2. tx[x].buffer \in Buf \cup {NULL} /\ tx[x].buffer # tx[t].buffer
    BY <1>3, <1>5, <1>7, MemFields DEF Core
  <2>3. tx[x].buffer # NULL => SameBuf(bf, bg, tx[x].buffer)
    BY <1>0, <2>2
  <2> QED BY <2>1, <2>3, TxnSame
<1>8. TxnOK(ty, bg, t) /\ t \notin Und(ty, bg)
  <2>1. t \notin Und(ty, bg)
    BY <1>0 DEF Und
  <2>2. TxnOK(tx, bf, t) /\ w # NULL
    BY <1>3, Distinct DEF Core, MemOK
  <2> QED BY <1>0, <1>3, <1>5, <1>6, <2>1, <2>2 DEF TxnOK
<1>9. MemOK(ty, bg)
  <2>1. \A c \in Buf : BufOK(bf, c)
    BY DEF Core, MemOK
  <2>2. \A c \in Buf : BufOK(bg, c)
    BY <1>0, <1>5, <2>1 DEF BufOK, SameBuf
  <2> QED BY <1>7, <1>8, <2>2 DEF MemOK
<1>10. V = U \ {t} /\ \A x \in Txn : x # t => e[x] = d[x]
  <2>1. Und(ty, bg) \subseteq Txn /\ Und(tx, bf) \subseteq Txn
    BY DEF Und
  <2> QED BY <1>1, <1>7, <1>8, <2>1
<1>11. Typed(ty, top2, V)
  <2>1. Typed(ty, top2, Und(ty, bg))
    BY <1>9, MemTyped
  <2> QED BY <1>1, <2>1
<1>12. Stacks(ty, top2, V, e, X)
  <2>1. \A c \in CallsOf(tx) : c \in V => e[c] = d[c]
    BY <1>10 DEF CallsOf
  <2> QED BY <1>0, <1>2, <1>4, <1>6, <1>10, <1>11, <2>1, Delivered
<1>13. Fit(ty, e, M)
  <2>1. \A l \in ListKeys, y \in Txn : y \in Items(M[l]) => y # t
    BY <1>3 DEF OnLists
  <2>2. \A l \in ListKeys, y \in Txn : y \in Items(M[l]) => y \in Items(L[l]) /\ ty[y] = tx[y] /\ e[y] = d[y]
    BY <1>0, <1>3, <1>10, <2>1
  <2> QED BY <1>2, <2>2, FitKept
<1> QED BY <1>1, <1>3, <1>9, <1>10, <1>12, <1>13 DEF Core

-----------------------------------------------------------------------------
(* Buffers that go, threads that go *)

\* The transactions and their stacks stay as they are.
LEMMA SameCore ==
    ASSUME NEW tx, NEW bf, NEW top, NEW X, NEW L, Core(tx, bf, top, X, L),
           NEW ty, NEW bg, MemType(ty, bg, top), MemOK(ty, bg),
           CallsOf(ty) = CallsOf(tx), \A t \in CallsOf(tx) : Agree(tx, ty, t),
           Und(ty, bg) = Und(tx, bf),
           \A t \in Und(tx, bf) : ty[t] = tx[t] /\ DestOf(ty, bg)[t] = DestOf(tx, bf)[t]
    PROVE  Core(ty, bg, top, X, L)
<1>1. PICK U, V, d, e : U = Und(tx, bf) /\ V = Und(ty, bg) /\ d = DestOf(tx, bf) /\ e = DestOf(ty, bg)
  OBVIOUS
<1>2. Typed(tx, top, U) /\ Stacks(tx, top, U, d, X) /\ OnLists(L, U) /\ Fit(tx, d, L)
  BY <1>1, MemTyped DEF Core
<1>3. V = U /\ \A t \in U : ty[t] = tx[t] /\ e[t] = d[t]
  BY <1>1
<1>4. Typed(ty, top, V)
  BY <1>1, MemTyped
<1>5. Stacks(ty, top, V, e, X)
  BY <1>2, <1>3, <1>4, OtherMemory
<1>6. Fit(ty, e, L)
  <2>1. \A k \in ListKeys, t \in Txn : t \in Items(L[k]) => t \in U
    BY <1>2 DEF OnLists
  <2> QED BY <1>2, <1>3, <2>1, FitKept
<1> QED BY <1>1, <1>2, <1>3, <1>5, <1>6 DEF Core

\* The buffer b is freed; its transaction t, if there is one, forgets it.
Freed(tx, bf, ty, bg, b, t) ==
    /\ b \in Buf /\ bf[b].allow_user_free = TRUE /\ t = bf[b].transaction
    /\ \A x \in Txn : x # t => ty[x] = tx[x]
    /\ t \in Txn => Agree(tx, ty, t) /\ ty[t].buffer = NULL
    /\ bg[b] = NoBuf /\ \A c \in Buf : c # b => bg[c] = bf[c]

\* BC_FREE_BUFFER
LEMMA BufferFreed ==
    ASSUME NEW tx, NEW bf, NEW top, NEW X, NEW L, Core(tx, bf, top, X, L),
           NEW ty, NEW bg, MemType(ty, bg, top), NEW b, NEW t, Freed(tx, bf, ty, bg, b, t)
    PROVE  /\ Core(ty, bg, top, X, L)
           /\ bf[b].async => t = NULL
<1> USE DEF Freed
<1>1. NULL \notin Buf /\ NULL \notin Txn
  BY Distinct
<1>2. \A x \in Txn : tx[x].buffer = b <=> x = t
  BY DEF Core, MemType, Linked
<1>3. \A x \in Txn : x # t => SameBuf(bf, bg, tx[x].buffer) \/ tx[x].buffer = NULL
  <2>1. \A x \in Txn : tx[x].buffer \in Buf \cup {NULL}
    BY MemFields DEF Core
  <2> QED BY <1>2, <2>1 DEF SameBuf
<1>4. ASSUME NEW x \in Txn, x # t
      PROVE  /\ TxnOK(ty, bg, x) /\ (x \in Und(ty, bg) <=> x \in Und(tx, bf))
             /\ DestOf(ty, bg)[x] = DestOf(tx, bf)[x]
  <2>1. TxnOK(tx, bf, x) /\ ty[x] = tx[x]
    BY <1>4 DEF Core, MemOK
  <2>2. tx[x].buffer # NULL => SameBuf(bf, bg, tx[x].buffer)
    BY <1>3, <1>4
  <2> QED BY <2>1, <2>2, TxnSame
<1>5. ASSUME t \in Txn
      PROVE  /\ t \notin Und(tx, bf) /\ t \notin Und(ty, bg) /\ tx[t].kind = "call"
             /\ ~bf[b].async /\ TxnOK(ty, bg, t)
  <2>1. tx[t].buffer = b /\ b # NULL
    BY <1>1, <1>2, <1>5
  <2>2. t \notin Und(tx, bf) /\ t \notin Und(ty, bg)
    BY <1>5, <2>1 DEF Und
  <2>3. TxnOK(tx, bf, t) /\ tx[t].kind \in {"none", "call", "oneway", "reply"}
    BY <1>5, MemFields DEF Core, MemOK
  <2>4. tx[t].kind = "call" /\ ~bf[b].async
    BY <2>1, <2>2, <2>3 DEF TxnOK
  <2>5. TxnOK(ty, bg, t)
    BY <1>5, <2>4 DEF Agree, TxnOK
  <2> QED BY <2>2, <2>4, <2>5
<1>6. Und(ty, bg) = Und(tx, bf)
  <2>1. Und(ty, bg) \subseteq Txn /\ Und(tx, bf) \subseteq Txn
    BY DEF Und
  <2> QED BY <1>4, <1>5, <2>1
<1>7. MemOK(ty, bg)
  <2>1. \A c \in Buf : BufOK(bg, c)
    BY DEF Core, MemOK, BufOK, NoBuf
  <2> QED BY <1>4, <1>5, <2>1 DEF MemOK
<1>8. CallsOf(ty) = CallsOf(tx)
  BY DEF CallsOf, Agree
<1>9. \A x \in CallsOf(tx) : Agree(tx, ty, x)
  BY DEF CallsOf, Agree
<1>10. \A x \in Und(tx, bf) : ty[x] = tx[x] /\ DestOf(ty, bg)[x] = DestOf(tx, bf)[x]
  BY <1>4, <1>5 DEF Und
<1>11. bf[b].async => t = NULL
  <2>1. t \in Txn \cup {NULL}
    BY MemFields DEF Core
  <2> QED BY <1>5, <2>1
<1> QED BY <1>6, <1>7, <1>8, <1>9, <1>10, <1>11, SameCore

\* The buffers of a process go, to which no transaction points.
LEMMA BuffersFreed ==
    ASSUME NEW tx, NEW bf, NEW top, NEW X, NEW L, Core(tx, bf, top, X, L),
           NEW bg, MemType(tx, bg, top), NEW S \in SUBSET Buf,
           \A t \in Txn : tx[t].buffer \notin S,
           \A c \in Buf : bg[c] = IF c \in S THEN NoBuf ELSE bf[c]
    PROVE  Core(tx, bg, top, X, L)
<1>1. ASSUME NEW x \in Txn
      PROVE  /\ TxnOK(tx, bg, x) /\ (x \in Und(tx, bg) <=> x \in Und(tx, bf))
             /\ DestOf(tx, bg)[x] = DestOf(tx, bf)[x]
  <2>1. TxnOK(tx, bf, x) /\ tx[x].buffer \in Buf \cup {NULL}
    BY MemFields DEF Core, MemOK
  <2>2. tx[x].buffer # NULL => SameBuf(bf, bg, tx[x].buffer)
    BY <2>1 DEF SameBuf
  <2> QED BY <2>1, <2>2, TxnSame
<1>2. MemOK(tx, bg)
  <2>1. \A c \in Buf : BufOK(bg, c)
    BY DEF Core, MemOK, BufOK, NoBuf
  <2> QED BY <1>1, <2>1 DEF MemOK
<1>3. Und(tx, bg) = Und(tx, bf)
  <2>1. Und(tx, bg) \subseteq Txn /\ Und(tx, bf) \subseteq Txn
    BY DEF Und
  <2> QED BY <1>1, <2>1
<1>4. \A x \in CallsOf(tx) : Agree(tx, tx, x)
  BY DEF Agree
<1>5. \A x \in Und(tx, bf) : DestOf(tx, bg)[x] = DestOf(tx, bf)[x]
  BY <1>1 DEF Und
<1> QED BY <1>2, <1>3, <1>4, <1>5, SameCore

\* The call c of tx loses what it has of th.
LeavesCall(tx, bf, ty, th, c) ==
    /\ ty[c].kind = "call"
    /\ ty[c].from = (IF tx[c].from = th THEN NULL ELSE tx[c].from)
    /\ ty[c].to_thread = (IF tx[c].to_thread = th /\ c \notin Und(tx, bf)
                          THEN NULL ELSE tx[c].to_thread)
    /\ ty[c].from_parent = tx[c].from_parent /\ ty[c].to_parent = tx[c].to_parent
    /\ ty[c].buffer = (IF tx[c].to_thread = th /\ c \notin Und(tx, bf)
                       THEN NULL ELSE tx[c].buffer)

\* binder_free_thread: th leaves its calls.
LEMMA ThreadLeft ==
    ASSUME NEW tx, NEW bf, NEW top, NEW L, Core(tx, bf, top, NULL, L), NEW th \in Thread,
           NEW ty, NEW bg, NEW top2, MemType(ty, bg, top2),
           \A x \in Txn : x \notin CallsOf(tx) => ty[x] = tx[x],
           \A c \in CallsOf(tx) : LeavesCall(tx, bf, ty, th, c),
           \A c \in Buf : SameBuf(bf, bg, c),
           top2[th] = NULL, \A v \in Thread : v # th => top2[v] = top[v]
    PROVE  /\ Core(ty, bg, top2, th, L)
           /\ top[th] # NULL /\ tx[top[th]].to_thread = th =>
                 /\ top[th] \in CallsOf(ty) /\ Leaf(ty, top[th])
                 /\ ty[top[th]].to_thread = NULL /\ ty[top[th]].buffer = NULL
<1> USE DEF LeavesCall
<1>1. PICK U, V, d, e : U = Und(tx, bf) /\ V = Und(ty, bg) /\ d = DestOf(tx, bf) /\ e = DestOf(ty, bg)
  OBVIOUS
<1>2. Typed(tx, top, U) /\ Stacks(tx, top, U, d, NULL) /\ OnLists(L, U) /\ Fit(tx, d, L)
  BY <1>1, MemTyped DEF Core
<1>3. \A x \in Txn : tx[x].buffer # NULL => SameBuf(bf, bg, tx[x].buffer)
  BY MemFields DEF Core
<1>4. ASSUME NEW x \in Txn, x \notin CallsOf(tx)
      PROVE  /\ TxnOK(ty, bg, x) /\ (x \in V <=> x \in U)
             /\ e[x] = d[x]
  <2>1. TxnOK(tx, bf, x) /\ ty[x] = tx[x]
    BY <1>4 DEF Core, MemOK
  <2> QED BY <1>1, <1>3, <2>1, TxnSame
<1>5. ASSUME NEW c \in CallsOf(tx)
      PROVE  /\ TxnOK(ty, bg, c) /\ (c \in V <=> c \in U)
             /\ c \in U => e[c] = d[c]
  <2>1. c \in Txn /\ tx[c].kind = "call" /\ TxnOK(tx, bf, c)
    BY DEF CallsOf, Core, MemOK
  <2>2. CASE tx[c].to_thread = th /\ c \notin U
    <3>1. ty[c].kind = "call" /\ ty[c].to_thread = NULL /\ ty[c].buffer = NULL
      BY <1>1, <2>2
    <3>2. c \notin V
      BY <1>1, <3>1 DEF Und
    <3> QED BY <2>2, <3>1, <3>2 DEF TxnOK
  <2>3. CASE ~(tx[c].to_thread = th /\ c \notin U)
    <3>1. ty[c].kind = "call" /\ ty[c].to_thread = tx[c].to_thread /\ ty[c].buffer = tx[c].buffer
      BY <1>1, <2>3
    <3>2. tx[c].buffer # NULL => SameBuf(bf, bg, tx[c].buffer)
      BY <1>3, <2>1
    <3>3. c \in V <=> c \in U
      BY <1>1, <2>1, <3>1, <3>2 DEF Und, SameBuf
    <3>4. e[c] = d[c]
      BY <1>1, <2>1, <3>1, <3>2 DEF DestOf, SameBuf
    <3>5. TxnOK(ty, bg, c)
      BY <1>1, <2>1, <3>1, <3>2, <3>3 DEF TxnOK, SameBuf
    <3> QED BY <3>3, <3>4, <3>5
  <2> QED BY <2>2, <2>3
<1>6. V = U
  <2>1. V \subseteq Txn /\ U \subseteq Txn
    BY <1>1 DEF Und
  <2> QED BY <1>4, <1>5, <2>1
<1>7. MemOK(ty, bg)
  <2>1. \A c \in Buf : BufOK(bg, c)
    BY DEF Core, MemOK, BufOK, SameBuf
  <2> QED BY <1>4, <1>5, <2>1 DEF MemOK
<1>8. Typed(ty, top2, V)
  BY <1>1, <1>7, MemTyped
<1>9. CallsOf(ty) = CallsOf(tx)
  BY DEF CallsOf
<1>10. /\ Stacks(ty, top2, U, d, th)
       /\ top[th] # NULL /\ tx[top[th]].to_thread = th =>
             top[th] \in CallsOf(ty) /\ Leaf(ty, top[th]) /\ top[th] \notin U /\ ty[top[th]].to_thread = NULL
  <2>1. \A c \in CallsOf(tx) :
           /\ ty[c].from = (IF tx[c].from = th THEN NULL ELSE tx[c].from)
           /\ ty[c].to_thread = (IF tx[c].to_thread = th /\ c \notin U THEN NULL ELSE tx[c].to_thread)
           /\ ty[c].from_parent = tx[c].from_parent /\ ty[c].to_parent = tx[c].to_parent
    BY <1>1
  <2>2. Typed(ty, top2, U)
    BY <1>6, <1>8
  <2> QED BY <1>2, <1>9, <2>1, <2>2, Exited
<1>11. \A c \in CallsOf(ty) : Agree(ty, ty, c) /\ (c \in U => e[c] = d[c])
  BY <1>5, <1>9 DEF Agree
<1>12. Stacks(ty, top2, V, e, th)
  BY <1>6, <1>8, <1>10, <1>11, OtherMemory
<1>13. \A x \in U : x \in Txn /\ e[x] = d[x] /\ ty[x].kind = tx[x].kind /\ ty[x].to_thread = tx[x].to_thread
  <2>1. \A x \in CallsOf(tx) : ty[x].kind = tx[x].kind
    BY DEF CallsOf
  <2> QED BY <1>1, <1>4, <1>5, <2>1 DEF Und
<1>14. Fit(ty, e, L)
  <2>1. \A k \in ListKeys, x \in Txn : x \in Items(L[k]) => x \in U
    BY <1>2 DEF OnLists
  <2> QED BY <1>2, <1>13, <2>1, FitKept
<1>15. top[th] # NULL /\ tx[top[th]].to_thread = th => ty[top[th]].buffer = NULL
  BY <1>1, <1>9, <1>10
<1> QED BY <1>1, <1>2, <1>6, <1>7, <1>10, <1>12, <1>14, <1>15 DEF Core

\* Nothing is sent to a thread with an empty list.
LEMMA NobodySentTo ==
    ASSUME NEW tx, NEW bf, NEW top, NEW X, NEW L, Core(tx, bf, top, X, L), NEW th \in Thread,
           L[<<"thread", th>>] = <<>>
    PROVE  \A t \in Und(tx, bf) : tx[t].to_thread # th
<1> SUFFICES ASSUME NEW t \in Und(tx, bf), tx[t].to_thread = th
             PROVE  FALSE
  OBVIOUS
<1>1. t \in Txn /\ OnLists(L, Und(tx, bf)) /\ Fit(tx, DestOf(tx, bf), L) /\ TxnOK(tx, bf, t) /\ th # NULL
  BY Distinct DEF Und, Core, MemOK
<1>2. PICK k \in ListKeys : t \in Items(L[k])
  BY <1>1 DEF OnLists
<1>3. FitsIn(tx, DestOf(tx, bf), k, t)
  BY <1>1, <1>2 DEF Fit
<1>4. tx[t].kind # "oneway"
  BY <1>1 DEF TxnOK
<1>5. k[1] = "thread" /\ k[2] = th
  BY <1>1, <1>3, <1>4, ListKey DEF FitsIn
<1>6. k = <<"thread", th>>
  BY <1>5, ListKey
<1>7. Items(<<>>) = {}
  BY DEF Items
<1> QED BY <1>2, <1>6, <1>7

\* The thread that is gone.
LEMMA ThreadGone ==
    ASSUME NEW tx, NEW bf, NEW top, NEW X, NEW L, Core(tx, bf, top, X, L), NEW th \in Thread, X = th,
           L[<<"thread", th>>] = <<>>, top[th] = NULL
    PROVE  /\ Core(tx, bf, top, NULL, L)
           /\ \A t \in Txn : tx[t].from # th /\ tx[t].to_thread # th
<1>1. PICK U, d : U = Und(tx, bf) /\ d = DestOf(tx, bf)
  OBVIOUS
<1>2. Typed(tx, top, U) /\ Stacks(tx, top, U, d, X)
  BY <1>1, MemTyped DEF Core
<1>3. \A t \in U : tx[t].to_thread # th
  BY <1>1, NobodySentTo
<1>4. Targets(tx, top, U, NULL)
  BY <1>2, <1>3 DEF Stacks, Targets
<1>5. Stacks(tx, top, U, d, NULL)
  BY <1>2, <1>4 DEF Stacks
<1>6. On(tx, U, th) = {}
  BY <1>2, WalkNull DEF Stacks, Reached
<1>7. ASSUME NEW t \in Txn
      PROVE  tx[t].from # th /\ tx[t].to_thread # th
  <2>1. TxnOK(tx, bf, t) /\ th # NULL /\ tx[t].kind \in {"none", "call", "oneway", "reply"}
    BY MemFields, Distinct DEF Core, MemOK
  <2>2. CASE tx[t].kind = "call"
    <3>1. t \in CallsOf(tx)
      BY <2>2 DEF CallsOf
    <3> QED BY <1>3, <1>6, <3>1 DEF On
  <2>3. CASE tx[t].kind # "call"
    <3>1. t \in U => tx[t].to_thread # th
      BY <1>3
    <3> QED BY <1>1, <2>1, <2>3, <3>1 DEF TxnOK
  <2> QED BY <2>2, <2>3
<1> QED BY <1>1, <1>5, <1>7 DEF Core

-----------------------------------------------------------------------------
(* The steps *)

\* The part of the type invariant that a failed reply can touch.
ReplyTypeOK ==
    /\ txn \in [Txn -> TxnRec]
    /\ buf \in [Buf -> BufRec]
    /\ stack \in [Thread -> Txn \cup {NULL}]
    /\ return_error \in [Thread -> Errors]
    /\ return_error2 \in [Thread -> Errors]
    /\ asleep \in SUBSET Thread
    /\ bug \in Bugs

\* Freeing transactions and detaching buffers keeps the memory well typed.
LEMMA MemoryType ==
    ASSUME NEW STATE tx, tx \in [Txn -> TxnRec], NEW STATE bf, bf \in [Buf -> BufRec], NEW STATE S
    PROVE  /\ Kfree(tx, S) \in [Txn -> TxnRec]
           /\ Detach(bf, tx, S) \in [Buf -> BufRec]
<1>1. NoTxn \in TxnRec
  BY DEF NoTxn, TxnRec
<1>2. Kfree(tx, S) \in [Txn -> TxnRec]
  BY <1>1 DEF Kfree
<1>3. ASSUME NEW b \in Buf
      PROVE [bf[b] EXCEPT !.transaction = NULL] \in BufRec
  BY <1>3 DEF BufRec
<1>4. Detach(bf, tx, S) \in [Buf -> BufRec]
  BY <1>3 DEF Detach
<1> QED BY <1>2, <1>4

\* What binder_send_failed_reply writes is well typed.
LEMMA SendFailedReplyType ==
    ASSUME TypeOK,
           NEW STATE t, t \in Txn, NEW code \in Errors,
           NEW STATE tx, tx \in [Txn -> TxnRec], NEW STATE bf, bf \in [Buf -> BufRec],
           NEW STATE stk, stk \in [Thread -> Txn \cup {NULL}],
           NEW STATE re, re \in [Thread -> Errors],
           binder_send_failed_reply(t, code, tx, bf, stk, re)
    PROVE  ReplyTypeOK'
<1> DEFINE chain == FailedChain(t, tx)
           gone == {x \in chain : tx[x].from = NULL}
           found == chain \ gone
           x == CHOOSE y \in found : TRUE
           u == tx[x].from
           full == BothErrors(u, re)
           freed == IF found = {} \/ full THEN gone ELSE chain
<1>1. chain \subseteq Txn
  BY DEF FailedChain, Walk
<1>2. /\ txn' = Kfree(tx, freed)
      /\ buf' = Detach(bf, tx, freed)
  BY DEF binder_send_failed_reply
<1>3. txn' \in [Txn -> TxnRec] /\ buf' \in [Buf -> BufRec]
  BY <1>2, MemoryType
<1>4. /\ return_error2 \in [Thread -> Errors]
      /\ asleep \in SUBSET Thread
      /\ bug \in Bugs
  BY DEF TypeOK
<1>5. CASE found = {} \/ full
  <2>1. stack' = stk /\ return_error' = re /\ UNCHANGED <<return_error2, asleep>>
    BY <1>5 DEF binder_send_failed_reply
  <2>2. bug' \in Bugs
    BY <1>4 DEF binder_send_failed_reply, Bugs
  <2> QED BY <2>1, <2>2, <1>3, <1>4 DEF ReplyTypeOK
<1>6. CASE ~(found = {} \/ full)
  <2>1. x \in found
    BY <1>6
  <2>2. x \in Txn /\ u \in Thread /\ tx[x].from_parent \in Txn \cup {NULL}
    BY <2>1, <1>1 DEF TxnRec
  <2>3. /\ stack' = [stk EXCEPT ![u] = tx[x].from_parent]
        /\ return_error' = [re EXCEPT ![u] = code]
        /\ return_error2' = IF MovesError(u, re)
                            THEN [return_error2 EXCEPT ![u] = re[u]]
                            ELSE return_error2
        /\ asleep' = Woken(u)
    BY <1>6 DEF binder_send_failed_reply
  <2>4. bug' \in Bugs
    BY <1>4 DEF binder_send_failed_reply, Bugs
  <2>5. asleep' \in SUBSET Thread
    BY <2>3, <1>4 DEF Woken
  <2> HIDE DEF x, u
  <2>6. /\ stack' \in [Thread -> Txn \cup {NULL}]
        /\ return_error' \in [Thread -> Errors]
        /\ return_error2' \in [Thread -> Errors]
    BY <2>2, <2>3, <1>4
  <2> QED BY <2>4, <2>5, <2>6, <1>3 DEF ReplyTypeOK
<1> QED BY <1>5, <1>6

\* So is what the release of one work item writes.
LEMMA ReleaseItemType ==
    ASSUME TypeOK, NEW STATE w, w \in Work, ReleaseItem(w)
    PROVE  ReplyTypeOK'
<1> DEFINE b == txn[w].buffer
<1>1. ReplyTypeOK
  BY DEF TypeOK, ReplyTypeOK
<1>2. CASE w = COMPLETE
  BY <1>1, <1>2 DEF ReleaseItem, ReplyTypeOK, memVars
<1>3. CASE w # COMPLETE
  <2>1. w \in Txn
    BY <1>3 DEF Work
  <2>2. CASE b = NULL
    BY <1>1, <1>3, <2>2 DEF ReleaseItem, ReplyTypeOK, memVars, Bugs
  <2>3. CASE b # NULL /\ buf[b].target_node # NULL /\ txn[w].kind # "oneway"
    <3>1. binder_send_failed_reply(w, "DEAD", txn, buf, stack, return_error)
      BY <1>3, <2>3 DEF ReleaseItem
    <3>2. "DEAD" \in Errors
      BY DEF Errors
    <3> QED BY <1>1, <2>1, <3>1, <3>2, SendFailedReplyType DEF ReplyTypeOK
  <2>4. CASE b # NULL /\ ~(buf[b].target_node # NULL /\ txn[w].kind # "oneway")
    <3>1. /\ txn' = Kfree(txn, {w})
          /\ buf' = Detach(buf, txn, {w})
          /\ UNCHANGED <<stack, return_error, return_error2, asleep, bug>>
      BY <1>3, <2>4 DEF ReleaseItem
    <3>2. txn' \in [Txn -> TxnRec] /\ buf' \in [Buf -> BufRec]
      BY <1>1, <3>1, MemoryType DEF ReplyTypeOK
    <3> QED BY <1>1, <3>1, <3>2 DEF ReplyTypeOK
  <2> QED BY <2>2, <2>3, <2>4
<1> QED BY <1>2, <1>3

\* So is what the first part of binder_free_thread writes.
LEMMA StartFreeThreadType ==
    ASSUME TypeOK, NEW th \in Thread, StartFreeThread(th)
    PROVE  ReplyTypeOK'
<1> DEFINE active == ActiveTransactions(th)
           in == {x \in active : txn[x].to_thread = th}
           tx == [x \in Txn |->
                    IF x \in in THEN [txn[x] EXCEPT !.to_thread = NULL, !.buffer = NULL]
                    ELSE IF x \in active THEN [txn[x] EXCEPT !.from = NULL]
                    ELSE txn[x]]
           bf == Detach(buf, txn, in)
<1>1. ReplyTypeOK
  BY DEF TypeOK, ReplyTypeOK
<1>2. tx \in [Txn -> TxnRec]
  <2>1. ASSUME NEW x \in Txn
        PROVE /\ [txn[x] EXCEPT !.to_thread = NULL, !.buffer = NULL] \in TxnRec
              /\ [txn[x] EXCEPT !.from = NULL] \in TxnRec
              /\ txn[x] \in TxnRec
    BY <1>1 DEF ReplyTypeOK, TxnRec
  <2> HIDE DEF active, in
  <2> QED BY <2>1
<1>3. bf \in [Buf -> BufRec]
  BY <1>1, MemoryType DEF ReplyTypeOK
<1>4. CASE \E x \in active \ in : txn[x].from # th
  BY <1>1, <1>4 DEF StartFreeThread, ReplyTypeOK, memVars, Bugs
<1>5. CASE (~\E x \in active \ in : txn[x].from # th) /\ stack[th] \in in
  <2>1. binder_send_failed_reply(stack[th], "DEAD", tx, bf, stack, return_error)
    BY <1>5 DEF StartFreeThread
  <2>2. "DEAD" \in Errors /\ stack[th] \in Txn
    BY <1>5 DEF Errors, ActiveTransactions, Walk
  <2> HIDE DEF tx, bf
  <2> QED BY <1>1, <1>2, <1>3, <2>1, <2>2, SendFailedReplyType DEF ReplyTypeOK
<1>6. CASE (~\E x \in active \ in : txn[x].from # th) /\ stack[th] \notin in
  <2>1. txn' = tx /\ buf' = bf
        /\ UNCHANGED <<stack, return_error, return_error2, asleep, bug>>
    BY <1>6 DEF StartFreeThread
  <2> HIDE DEF tx, bf
  <2> QED BY <1>1, <1>2, <1>3, <2>1 DEF ReplyTypeOK
<1> QED BY <1>4, <1>5, <1>6

\* So is what the delivery of a transaction writes.
LEMMA DeliverType ==
    ASSUME TypeOK, NEW th \in Thread, NEW STATE t, t \in Txn, Deliver(th, t)
    PROVE  /\ txn' \in [Txn -> TxnRec]
           /\ buf' \in [Buf -> BufRec]
           /\ stack' \in [Thread -> Txn \cup {NULL}]
           /\ bug' \in Bugs
<1> DEFINE b == txn[t].buffer
           call == buf[b].target_node # NULL /\ txn[t].kind # "oneway"
<1>1. ReplyTypeOK
  BY DEF TypeOK, ReplyTypeOK
<1>2. bug' \in Bugs
  BY <1>1 DEF Deliver, BugOn, ReplyTypeOK, Bugs
<1>3. CASE b = NULL
  BY <1>1, <1>2, <1>3 DEF Deliver, ReplyTypeOK
<1>4. CASE b # NULL
  <2>1. b \in Buf
    BY <1>1, <1>4 DEF ReplyTypeOK, TxnRec
  <2>2. /\ buf' = [buf EXCEPT ![b].allow_user_free = TRUE,
                              ![b].transaction = IF call THEN @ ELSE NULL]
        /\ txn' = IF call THEN [txn EXCEPT ![t].to_parent = stack[th],
                                           ![t].to_thread = th]
                  ELSE Kfree(txn, {t})
        /\ stack' = IF call THEN [stack EXCEPT ![th] = t] ELSE stack
    BY <1>4 DEF Deliver
  <2>3. buf' \in [Buf -> BufRec]
    <3> HIDE DEF b, call
    <3> QED BY <1>1, <2>1, <2>2 DEF ReplyTypeOK, BufRec
  <2>4. txn' \in [Txn -> TxnRec]
    <3>1. CASE call
      <4>1. txn' = [txn EXCEPT ![t].to_parent = stack[th], ![t].to_thread = th]
        BY <2>2, <3>1
      <4>2. [txn[t] EXCEPT !.to_parent = stack[th], !.to_thread = th] \in TxnRec
        BY <1>1 DEF ReplyTypeOK, TxnRec
      <4>3. txn' = [txn EXCEPT ![t] =
                      [txn[t] EXCEPT !.to_parent = stack[th], !.to_thread = th]]
        BY <1>1, <4>1 DEF ReplyTypeOK
      <4> QED BY <1>1, <4>2, <4>3 DEF ReplyTypeOK
    <3>2. CASE ~call
      BY <1>1, <2>2, <3>2, MemoryType DEF ReplyTypeOK
    <3> QED BY <3>1, <3>2
  <2>5. stack' \in [Thread -> Txn \cup {NULL}]
    <3> HIDE DEF b, call
    <3> QED BY <1>1, <2>2 DEF ReplyTypeOK
  <2> QED BY <1>2, <2>3, <2>4, <2>5
<1> QED BY <1>3, <1>4

\* A read that returns leaves the wait queues well typed.
LEMMA ReadReturnType ==
    ASSUME TypeOK, NEW th \in Thread, NEW STATE rest, ReadReturn(th, rest)
    PROVE  /\ wait' \in [Thread -> {"no", "proc", "thread"}]
           /\ asleep' \in SUBSET Thread
BY DEF ReadReturn, TypeOK, Sleepers

\* The search for the thread that waits finds a thread or nothing.
LEMMA TargetThreadType ==
    ASSUME TypeOK, NEW th \in Thread, NEW p \in Proc
    PROVE  TargetThread(th, p) \subseteq Thread \cup {NULL}
BY DEF TargetThread, Walk, TypeOK, TxnRec

\* Every step keeps the type invariant.
LEMMA TypeStep == TypeOK /\ [Next]_vars => TypeOK'
<1> SUFFICES ASSUME TypeOK, [Next]_vars PROVE TypeOK'
  OBVIOUS
<1> USE ProcOfType
<1>1. ASSUME NEW th \in Thread, NEW p \in Proc, NEW t \in Txn, NEW b \in Buf,
             Transact(th, p, t, b)
      PROVE TypeOK'
  <2> DEFINE r(u) == [kind |-> "call", from |-> th, from_parent |-> stack[th],
                      to_thread |-> u, to_parent |-> NULL, buffer |-> b]
             n == NewBuffer(p, t, p, FALSE)
             queued == [todo EXCEPT ![th] = Append(@, COMPLETE)]
  <2>1. PICK u \in TargetThread(th, p) :
           /\ txn' = [txn EXCEPT ![t] = r(u)]
           /\ todo' = (IF u # NULL THEN [queued EXCEPT ![u] = Append(@, t)] ELSE queued)
           /\ proc_todo' = (IF u # NULL THEN proc_todo
                            ELSE [proc_todo EXCEPT ![p] = Append(@, t)])
           /\ (IF u # NULL THEN asleep' = Woken(u) ELSE WakeProc(p))
    BY <1>1 DEF Transact
  <2>2. u \in Thread \cup {NULL}
    BY TargetThreadType
  <2>3. r(u) \in TxnRec
    BY <2>2 DEF TypeOK, TxnRec
  <2>4. n \in BufRec
    BY DEF NewBuffer, BufRec
  <2>5. /\ buf' = [buf EXCEPT ![b] = n]
        /\ stack' = [stack EXCEPT ![th] = t]
        /\ threads' = threads \cup {th}
        /\ UNCHANGED <<alive, return_error, return_error2, wait, has_async, async_todo,
                       exiting, closing, bug>>
    BY <1>1 DEF Transact, GetThread, lockVars
  <2>6. COMPLETE \in Work /\ t \in Work
    BY DEF Work
  <2>7. queued \in [Thread -> Seq(Work)]
    BY <2>6 DEF TypeOK
  <2> HIDE DEF r, n, queued
  <2>8. todo' \in [Thread -> Seq(Work)]
    BY <2>1, <2>2, <2>6, <2>7
  <2>9. proc_todo' \in [Proc -> Seq(Txn)] /\ asleep' \in SUBSET Thread
    BY <2>1 DEF TypeOK, Woken, WakeProc, Sleepers
  <2> QED BY <2>1, <2>3, <2>4, <2>5, <2>8, <2>9 DEF TypeOK
<1>2. ASSUME NEW th \in Thread, NEW p \in Proc, NEW t \in Txn, NEW b \in Buf,
             TransactOneWay(th, p, t, b)
      PROVE TypeOK'
  <2> DEFINE r == [NoTxn EXCEPT !.kind = "oneway", !.buffer = b]
             n == NewBuffer(p, t, p, TRUE)
  <2>1. r \in TxnRec
    BY DEF TxnRec, NoTxn
  <2>2. n \in BufRec
    BY DEF NewBuffer, BufRec
  <2> HIDE DEF r, n
  <2>3. /\ txn' = [txn EXCEPT ![t] = r]
        /\ buf' = [buf EXCEPT ![b] = n]
        /\ threads' = threads \cup {th}
        /\ todo' = [todo EXCEPT ![th] = Append(@, COMPLETE)]
        /\ has_async' = [has_async EXCEPT ![p] = TRUE]
        /\ UNCHANGED <<alive, stack, return_error, return_error2, wait,
                       exiting, closing, bug>>
    BY <1>2 DEF TransactOneWay, r, n, GetThread, lockVars
  <2>4. todo' \in [Thread -> Seq(Work)]
    BY <2>3 DEF TypeOK, Work
  <2>5. /\ proc_todo' \in [Proc -> Seq(Txn)]
        /\ async_todo' \in [Proc -> Seq(Txn)]
        /\ asleep' \in SUBSET Thread
    <3>1. CASE Busy(p)
      <4>1. /\ async_todo' = [async_todo EXCEPT ![p] = Append(@, t)]
            /\ UNCHANGED <<proc_todo, asleep>>
        BY <1>2, <3>1 DEF TransactOneWay
      <4> QED BY <4>1 DEF TypeOK
    <3>2. CASE ~Busy(p)
      <4>1. /\ proc_todo' = [proc_todo EXCEPT ![p] = Append(@, t)]
            /\ WakeProc(p)
            /\ UNCHANGED async_todo
        BY <1>2, <3>2 DEF TransactOneWay
      <4>2. asleep' \in SUBSET Thread
        BY <4>1 DEF TypeOK, WakeProc, Sleepers
      <4> QED BY <4>1, <4>2 DEF TypeOK
    <3> QED BY <3>1, <3>2
  <2> QED BY <2>1, <2>2, <2>3, <2>4, <2>5 DEF TypeOK
<1>3. ASSUME NEW th \in Thread, NEW t \in Txn, NEW b \in Buf, Reply(th, t, b)
      PROVE TypeOK'
  <2> DEFINE k == stack[th]
             u == txn[k].from
             s == StackAfterReply(th)
             match == s[u] = k
             r == [NoTxn EXCEPT !.kind = "reply", !.to_thread = u, !.buffer = b]
             n == NewBuffer(ProcOf[u], t, NULL, FALSE)
  <2>1. k \in Txn /\ u \in Thread
    BY <1>3 DEF Reply, Serves, TypeOK, TxnRec
  <2>2. txn[k] \in TxnRec /\ s \in [Thread -> Txn \cup {NULL}]
    BY <2>1 DEF TypeOK, StackAfterReply, TxnRec
  <2>3. r \in TxnRec
    <3> HIDE DEF u
    <3> QED BY <2>1 DEF TxnRec, NoTxn
  <2>4. n \in BufRec
    <3> HIDE DEF u
    <3> QED BY <2>1 DEF NewBuffer, BufRec
  <2>5. bug' \in Bugs
    BY <1>3 DEF Reply, BugOn, Bugs, TypeOK
  <2>6. /\ threads' = threads \cup {th}
        /\ UNCHANGED <<alive, return_error2, wait, proc_todo, has_async, async_todo,
                       exiting, closing>>
    BY <1>3 DEF Reply, GetThread, nodeVars, lockVars
  <2>7. CASE match
    <3>1. /\ stack' = [s EXCEPT ![u] = txn[k].from_parent]
          /\ txn' = [Kfree(txn, {k}) EXCEPT ![t] = r]
          /\ buf' = [Detach(buf, txn, {k}) EXCEPT ![b] = n]
          /\ todo' = [[todo EXCEPT ![u] = Append(@, t)] EXCEPT ![th] = Append(@, COMPLETE)]
          /\ asleep' = Woken(u)
          /\ return_error' = return_error
      BY <1>3, <2>7 DEF Reply
    <3>2. Kfree(txn, {k}) \in [Txn -> TxnRec] /\ Detach(buf, txn, {k}) \in [Buf -> BufRec]
      BY MemoryType DEF TypeOK
    <3>3. txn[k].from_parent \in Txn \cup {NULL}
      BY <2>2 DEF TxnRec
    <3> HIDE DEF k, u, s, r, n
    <3>4. txn' \in [Txn -> TxnRec] /\ buf' \in [Buf -> BufRec]
      BY <2>3, <2>4, <3>1, <3>2
    <3>5. stack' \in [Thread -> Txn \cup {NULL}]
      BY <2>1, <2>2, <3>1, <3>3
    <3>6. todo' \in [Thread -> Seq(Work)]
      <4> DEFINE q == [todo EXCEPT ![u] = Append(@, t)]
      <4>1. q \in [Thread -> Seq(Work)]
        BY <2>1 DEF TypeOK, Work
      <4>2. todo' = [q EXCEPT ![th] = Append(@, COMPLETE)]
        BY <3>1
      <4> HIDE DEF q
      <4> QED BY <4>1, <4>2 DEF Work
    <3>7. asleep' \in SUBSET Thread
      BY <3>1 DEF Woken, TypeOK
    <3> QED BY <2>5, <2>6, <3>1, <3>4, <3>5, <3>6, <3>7 DEF TypeOK
  <2>8. CASE ~match
    <3>1. /\ stack' = s
          /\ return_error' = [return_error EXCEPT ![th] = "FAILED"]
          /\ UNCHANGED <<todo, asleep, txn, buf>>
      BY <1>3, <2>8 DEF Reply, memVars
    <3> HIDE DEF s
    <3> QED BY <2>2, <2>5, <2>6, <3>1 DEF TypeOK, Errors
  <2> QED BY <2>7, <2>8
<1>4. ASSUME NEW th \in Thread, NEW b \in Buf, FreeBuffer(th, b)
      PROVE TypeOK'
  <2> DEFINE t == buf[b].transaction
             n == buf[b].target_node
             async == buf[b].async /\ n # NULL
  <2>1. t \in Txn \cup {NULL} /\ n \in Proc \cup {NULL}
    BY DEF TypeOK, BufRec
  <2>2. /\ txn' = (IF t = NULL THEN txn ELSE [txn EXCEPT ![t].buffer = NULL])
        /\ buf' = [buf EXCEPT ![b] = NoBuf]
        /\ threads' = threads \cup {th}
        /\ (IF async THEN NextAsync(th, n) ELSE UNCHANGED <<has_async, async_todo, todo>>)
        /\ UNCHANGED <<alive, stack, return_error, return_error2, wait, asleep,
                       proc_todo, exiting, closing>>
    BY <1>4 DEF FreeBuffer, GetThread, lockVars
  <2>3. bug' \in Bugs
    BY <1>4 DEF FreeBuffer, BugOn, Bugs, TypeOK
  <2>4. buf' \in [Buf -> BufRec]
    BY <2>2 DEF TypeOK, NoBuf, BufRec
  <2>5. txn' \in [Txn -> TxnRec]
    <3>1. CASE t = NULL
      BY <2>2, <3>1 DEF TypeOK
    <3>2. CASE t # NULL
      <4>1. t \in Txn /\ txn \in [Txn -> TxnRec]
        BY <2>1, <3>2 DEF TypeOK
      <4>2. txn' = [txn EXCEPT ![t].buffer = NULL]
        BY <2>2, <3>2
      <4> HIDE DEF t
      <4>3. [txn[t] EXCEPT !.buffer = NULL] \in TxnRec
        BY <4>1 DEF TxnRec
      <4> QED BY <4>1, <4>2, <4>3
    <3> QED BY <3>1, <3>2
  <2>6. /\ has_async' \in [Proc -> BOOLEAN]
        /\ async_todo' \in [Proc -> Seq(Txn)]
        /\ todo' \in [Thread -> Seq(Work)]
    <3>1. CASE ~async
      BY <2>2, <3>1 DEF TypeOK
    <3>2. CASE async
      <4>1. n \in Proc
        BY <2>1, <3>2
      <4> HIDE DEF n, t
      <4>2. CASE async_todo[n] = <<>>
        BY <2>2, <3>2, <4>1, <4>2 DEF NextAsync, TypeOK
      <4>3. CASE async_todo[n] # <<>>
        <5>1. Head(async_todo[n]) \in Work /\ Tail(async_todo[n]) \in Seq(Txn)
          BY <4>1, <4>3 DEF TypeOK, Work
        <5>2. /\ async_todo' = [async_todo EXCEPT ![n] = Tail(@)]
              /\ todo' = [todo EXCEPT ![th] = Append(@, Head(async_todo[n]))]
              /\ UNCHANGED has_async
          BY <2>2, <3>2, <4>3 DEF NextAsync
        <5> QED BY <4>1, <5>1, <5>2 DEF TypeOK
      <4> QED BY <4>2, <4>3
    <3> QED BY <3>1, <3>2
  <2> QED BY <2>2, <2>3, <2>4, <2>5, <2>6 DEF TypeOK
<1>5. ASSUME NEW th \in Thread, TransactFail(th) \/ ReplyNoCall(th)
      PROVE TypeOK'
  BY <1>5 DEF TransactFail, ReplyNoCall, GetThread, nodeVars, memVars, lockVars,
              TypeOK, Errors
<1>6. ASSUME NEW th \in Thread, ReplyCallerDead(th) \/ ReplyFail(th)
      PROVE TypeOK'
  <2> DEFINE re == [return_error EXCEPT ![th] = "COMPLETE"]
  <2>1. PICK code \in {"DEAD", "FAILED"} :
           binder_send_failed_reply(stack[th], code, txn, buf, StackAfterReply(th), re)
    BY <1>6 DEF ReplyCallerDead, ReplyFail, ReplyError
  <2>2. /\ threads' = threads \cup {th}
        /\ UNCHANGED <<alive, todo, wait, proc_todo, has_async, async_todo, exiting, closing>>
    BY <1>6 DEF ReplyCallerDead, ReplyFail, ReplyError, GetThread, nodeVars, lockVars
  <2>3. stack[th] \in Txn /\ code \in Errors /\ re \in [Thread -> Errors]
    BY <1>6 DEF ReplyCallerDead, ReplyFail, Serves, TypeOK, Errors
  <2>4. StackAfterReply(th) \in [Thread -> Txn \cup {NULL}]
    BY <2>3 DEF StackAfterReply, TypeOK, TxnRec
  <2> HIDE DEF re
  <2>5. ReplyTypeOK'
    BY <2>1, <2>3, <2>4, SendFailedReplyType DEF TypeOK
  <2> QED BY <2>2, <2>5 DEF TypeOK, ReplyTypeOK
<1>7. ASSUME NEW th \in Thread, ReadWait(th) \/ ReadSleep(th) \/ ReadError(th)
                                 \/ ReadComplete(th) \/ ReadInterrupted(th)
      PROVE TypeOK'
  <2>1. CASE ReadWait(th)
    BY <2>1 DEF ReadWait, WaitQueue, GetThread, nodeVars, memVars, lockVars, TypeOK
  <2>2. CASE ReadSleep(th)
    BY <2>2 DEF ReadSleep, nodeVars, memVars, lockVars, TypeOK
  <2>3. CASE ReadError(th)
    BY <2>3, ReadReturnType
       DEF ReadError, GetThread, nodeVars, memVars, lockVars, TypeOK, Errors
  <2>4. CASE ReadComplete(th)
    <3>1. Tail(todo[th]) \in Seq(Work)
      BY <2>4 DEF ReadComplete, TypeOK
    <3> QED BY <2>4, <3>1, ReadReturnType
            DEF ReadComplete, nodeVars, memVars, lockVars, TypeOK
  <2>5. CASE ReadInterrupted(th)
    BY <2>5, ReadReturnType DEF ReadInterrupted, nodeVars, memVars, lockVars, TypeOK
  <2> QED BY <1>7, <2>1, <2>2, <2>3, <2>4, <2>5
<1>8. ASSUME NEW th \in Thread, ReadThreadWork(th)
      PROVE TypeOK'
  <2>1. Head(todo[th]) \in Txn /\ Tail(todo[th]) \in Seq(Work)
    BY <1>8 DEF ReadThreadWork, TypeOK, Work
  <2>2. Deliver(th, Head(todo[th])) /\ ReadReturn(th, proc_todo[ProcOf[th]])
    BY <1>8 DEF ReadThreadWork
  <2>3. /\ txn' \in [Txn -> TxnRec]
        /\ buf' \in [Buf -> BufRec]
        /\ stack' \in [Thread -> Txn \cup {NULL}]
        /\ bug' \in Bugs
    BY <2>1, <2>2, DeliverType
  <2> QED BY <1>8, <2>1, <2>2, <2>3, ReadReturnType
          DEF ReadThreadWork, nodeVars, lockVars, TypeOK
<1>9. ASSUME NEW th \in Thread, ReadProcWork(th)
      PROVE TypeOK'
  <2> DEFINE p == ProcOf[th]
  <2>1. Head(proc_todo[p]) \in Txn /\ Tail(proc_todo[p]) \in Seq(Txn)
    BY <1>9 DEF ReadProcWork, TypeOK
  <2>2. Deliver(th, Head(proc_todo[p])) /\ ReadReturn(th, Tail(proc_todo[p]))
    BY <1>9 DEF ReadProcWork
  <2>3. /\ txn' \in [Txn -> TxnRec]
        /\ buf' \in [Buf -> BufRec]
        /\ stack' \in [Thread -> Txn \cup {NULL}]
        /\ bug' \in Bugs
    BY <2>1, <2>2, DeliverType
  <2> QED BY <1>9, <2>1, <2>2, <2>3, ReadReturnType DEF ReadProcWork, lockVars, TypeOK
<1>10. ASSUME NEW th \in Thread, ThreadExit(th)
       PROVE TypeOK'
  BY <1>10, StartFreeThreadType
     DEF ThreadExit, StartFreeThread, GetThread, nodeVars, TypeOK, ReplyTypeOK
<1>11. ASSUME NEW th \in Thread, FreeThread(th)
       PROVE TypeOK'
  <2>1. CASE ReleaseThreadWork(th)
    <3>1. Head(todo[th]) \in Work /\ Tail(todo[th]) \in Seq(Work)
      BY <2>1 DEF ReleaseThreadWork, TypeOK
    <3>2. ReplyTypeOK'
      BY <2>1, <3>1, ReleaseItemType DEF ReleaseThreadWork
    <3> QED BY <2>1, <3>1, <3>2
            DEF ReleaseThreadWork, nodeVars, lockVars, TypeOK, ReplyTypeOK
  <2>2. CASE FinishFreeThread(th)
    BY <2>2 DEF FinishFreeThread, nodeVars, memVars, TypeOK, Errors
  <2> QED BY <1>11, <2>1, <2>2 DEF FreeThread
<1>12. ASSUME NEW p \in Proc, Release(p)
       PROVE TypeOK'
  <2>1. CASE StartRelease(p)
    BY <2>1 DEF StartRelease, threadVars, nodeVars, memVars, TypeOK
  <2>2. ASSUME NEW th \in Thread, ReleaseThread(p, th)
        PROVE TypeOK'
    BY <2>2, StartFreeThreadType
       DEF ReleaseThread, StartFreeThread, nodeVars, TypeOK, ReplyTypeOK
  <2>3. CASE ReleaseAsyncWork(p)
    <3>1. Head(async_todo[p]) \in Work /\ Tail(async_todo[p]) \in Seq(Txn)
      BY <2>3 DEF ReleaseAsyncWork, TypeOK, Work
    <3>2. ReplyTypeOK'
      BY <2>3, <3>1, ReleaseItemType DEF ReleaseAsyncWork
    <3> QED BY <2>3, <3>1, <3>2 DEF ReleaseAsyncWork, lockVars, TypeOK, ReplyTypeOK
  <2>4. CASE ReleaseProcWork(p)
    <3>1. Head(proc_todo[p]) \in Work /\ Tail(proc_todo[p]) \in Seq(Txn)
      BY <2>4 DEF ReleaseProcWork, TypeOK, Work
    <3>2. ReplyTypeOK'
      BY <2>4, <3>1, ReleaseItemType DEF ReleaseProcWork
    <3> QED BY <2>4, <3>1, <3>2 DEF ReleaseProcWork, lockVars, TypeOK, ReplyTypeOK
  <2>5. CASE FinishRelease(p)
    <3>1. ASSUME NEW x \in Txn
          PROVE [txn[x] EXCEPT !.buffer = NULL] \in TxnRec
      <4>1. txn[x] \in TxnRec
        BY DEF TypeOK
      <4> QED BY <4>1 DEF TxnRec
    <3>2. txn' \in [Txn -> TxnRec] /\ bug' \in Bugs
      BY <2>5, <3>1 DEF FinishRelease, BuffersGone, BugOn, Bugs, TypeOK
    <3>3. buf' \in [Buf -> BufRec]
      BY <2>5 DEF FinishRelease, BuffersGone, TypeOK, NoBuf, BufRec
    <3> QED BY <2>5, <3>2, <3>3 DEF FinishRelease, threadVars, TypeOK
  <2> QED BY <1>12, <2>1, <2>2, <2>3, <2>4, <2>5 DEF Release
<1>13. CASE UNCHANGED vars
  BY <1>13 DEF vars, threadVars, nodeVars, memVars, lockVars, TypeOK
<1> QED
  BY <1>1, <1>2, <1>3, <1>4, <1>5, <1>6, <1>7, <1>8, <1>9, <1>10, <1>11, <1>12, <1>13
     DEF Next, Write, Read

\* The type invariant: every variable of the driver keeps its type.
THEOREM TypeCorrect == Spec => []TypeOK
<1>1. Init => TypeOK
  BY DEF Init, TypeOK, NoTxn, NoBuf, TxnRec, BufRec, Errors, Bugs
<1> QED BY <1>1, TypeStep, PTL DEF Spec

-----------------------------------------------------------------------------
(* Buffers and transactions *)

\* To free transactions and to detach their buffers keeps the two in step.
LEMMA FreeKeepsInverse ==
    ASSUME NEW STATE tx, tx \in [Txn -> TxnRec], NEW STATE bf, bf \in [Buf -> BufRec],
           NEW STATE S, S \in SUBSET Txn, Linked(tx, bf)
    PROVE  Linked(Kfree(tx, S), Detach(bf, tx, S))
<1> DEFINE tx2 == Kfree(tx, S)
           bf2 == Detach(bf, tx, S)
<1>1. ASSUME NEW t \in Txn
      PROVE tx2[t] = IF t \in S THEN NoTxn ELSE tx[t]
  BY DEF Kfree
<1>2. ASSUME NEW b \in Buf
      PROVE /\ bf2[b].proc = bf[b].proc
            /\ bf2[b].transaction = IF \E x \in S : tx[x].buffer = b THEN NULL
                                    ELSE bf[b].transaction
  BY DEF Detach, BufRec
<1>3. NoTxn.buffer = NULL /\ NULL \notin Buf /\ NULL \notin Txn
  BY Distinct DEF NoTxn
<1> HIDE DEF tx2, bf2
<1>5. ASSUME NEW t \in Txn, NEW b \in Buf
      PROVE tx2[t].buffer = b <=> bf2[b].transaction = t
  <2>1. CASE t \in S
    BY <1>1, <1>2, <1>3, <2>1 DEF Linked
  <2>2. CASE t \notin S
    <3>1. tx2[t] = tx[t]
      BY <1>1, <2>2
    <3>2. \A x \in S : tx[x].buffer = b => bf[b].transaction = x
      BY DEF Linked
    <3> QED BY <1>2, <1>3, <2>2, <3>1, <3>2 DEF Linked
  <2> QED BY <2>1, <2>2
<1>6. ASSUME NEW t \in Txn, tx2[t].kind = "none"
      PROVE tx2[t].buffer = NULL
  BY <1>1, <1>3, <1>6 DEF Linked
<1>7. ASSUME NEW b \in Buf, bf2[b].proc = NULL
      PROVE bf2[b].transaction = NULL
  BY <1>2, <1>7 DEF Linked
<1> QED BY <1>5, <1>6, <1>7 DEF Linked, tx2, bf2

BufferInv == Linked(txn, buf)

\* A failed reply frees the transactions it pops.
LEMMA SendFailedReplyInverse ==
    ASSUME NEW STATE t, NEW STATE code,
           NEW STATE tx, tx \in [Txn -> TxnRec], NEW STATE bf, bf \in [Buf -> BufRec],
           NEW STATE stk, NEW STATE re, Linked(tx, bf),
           binder_send_failed_reply(t, code, tx, bf, stk, re)
    PROVE  BufferInv'
<1>1. PICK S \in SUBSET Txn : txn' = Kfree(tx, S) /\ buf' = Detach(bf, tx, S)
  <2> DEFINE chain == FailedChain(t, tx)
             gone == {x \in chain : tx[x].from = NULL}
             found == chain \ gone
             x == CHOOSE y \in found : TRUE
             full == BothErrors(tx[x].from, re)
             freed == IF found = {} \/ full THEN gone ELSE chain
  <2>1. txn' = Kfree(tx, freed) /\ buf' = Detach(bf, tx, freed)
    BY DEF binder_send_failed_reply
  <2>2. freed \in SUBSET Txn
    BY DEF FailedChain, Walk
  <2> HIDE DEF freed
  <2> QED BY <2>1, <2>2
<1>2. Linked(Kfree(tx, S), Detach(bf, tx, S))
  BY FreeKeepsInverse
<1> QED BY <1>1, <1>2 DEF BufferInv, Linked

\* So does the release of a work item.
LEMMA ReleaseItemInverse ==
    ASSUME TypeOK, BufferInv, NEW STATE w, w \in Work, ReleaseItem(w)
    PROVE  BufferInv'
<1>1. CASE UNCHANGED memVars
  BY <1>1 DEF memVars, BufferInv, Linked
<1>2. CASE binder_send_failed_reply(w, "DEAD", txn, buf, stack, return_error)
  BY <1>2, SendFailedReplyInverse DEF TypeOK, BufferInv
<1>3. CASE w # COMPLETE /\ txn' = Kfree(txn, {w}) /\ buf' = Detach(buf, txn, {w})
  <2>1. {w} \in SUBSET Txn
    BY <1>3 DEF Work
  <2>2. Linked(Kfree(txn, {w}), Detach(buf, txn, {w}))
    BY <2>1, FreeKeepsInverse DEF TypeOK, BufferInv
  <2> QED BY <1>3, <2>2 DEF BufferInv, Linked
<1> QED BY <1>1, <1>2, <1>3 DEF ReleaseItem

\* binder_free_thread detaches the buffers of the calls the thread was serving.
LEMMA StartFreeThreadInverse ==
    ASSUME TypeOK, BufferInv, NEW th \in Thread, StartFreeThread(th)
    PROVE  BufferInv'
<1> DEFINE active == ActiveTransactions(th)
           in == {x \in active : txn[x].to_thread = th}
           tx == [x \in Txn |->
                    IF x \in in THEN [txn[x] EXCEPT !.to_thread = NULL, !.buffer = NULL]
                    ELSE IF x \in active THEN [txn[x] EXCEPT !.from = NULL]
                    ELSE txn[x]]
           bf == Detach(buf, txn, in)
<1>1. active \subseteq Txn /\ in \in SUBSET Txn
  BY DEF ActiveTransactions, Walk
<1>2. \A x \in Txn : txn[x] \in TxnRec
  BY DEF TypeOK
<1>3. ASSUME NEW x \in Txn
      PROVE /\ tx[x] \in TxnRec
            /\ tx[x].kind = txn[x].kind
            /\ tx[x].buffer = IF x \in in THEN NULL ELSE txn[x].buffer
  <2> HIDE DEF in, active
  <2> QED BY <1>2 DEF TxnRec
<1>4. ASSUME NEW b \in Buf
      PROVE /\ bf[b] \in BufRec
            /\ bf[b].proc = buf[b].proc
            /\ bf[b].transaction = IF \E x \in in : txn[x].buffer = b THEN NULL
                                   ELSE buf[b].transaction
  <2>1. buf[b] \in BufRec
    BY DEF TypeOK
  <2> HIDE DEF in
  <2> QED BY <2>1 DEF Detach, BufRec
<1>5. tx \in [Txn -> TxnRec] /\ bf \in [Buf -> BufRec]
  <2>1. bf \in [Buf -> BufRec]
    BY MemoryType DEF TypeOK
  <2> QED BY <1>3, <2>1
<1>6. Linked(tx, bf)
  <2> HIDE DEF tx, bf, active, in
  <2>1. ASSUME NEW t \in Txn, NEW b \in Buf
        PROVE tx[t].buffer = b <=> bf[b].transaction = t
    <3>1. NULL \notin Buf /\ NULL \notin Txn
      BY Distinct
    <3>2. CASE t \in in
      BY <1>3, <1>4, <3>1, <3>2 DEF BufferInv, Linked
    <3>3. CASE t \notin in
      <4>1. \A x \in in : txn[x].buffer = b => buf[b].transaction = x
        BY <1>1 DEF BufferInv, Linked
      <4> QED BY <1>3, <1>4, <3>1, <3>3, <4>1 DEF BufferInv, Linked
    <3> QED BY <3>2, <3>3
  <2>2. ASSUME NEW t \in Txn, tx[t].kind = "none"
        PROVE tx[t].buffer = NULL
    BY <1>3, <2>2 DEF BufferInv, Linked
  <2>3. ASSUME NEW b \in Buf, bf[b].proc = NULL
        PROVE bf[b].transaction = NULL
    BY <1>4, <2>3 DEF BufferInv, Linked
  <2> QED BY <2>1, <2>2, <2>3 DEF Linked
<1>7. \/ UNCHANGED memVars
      \/ binder_send_failed_reply(stack[th], "DEAD", tx, bf, stack, return_error)
      \/ txn' = tx /\ buf' = bf
  BY DEF StartFreeThread
<1> HIDE DEF tx, bf
<1>8. CASE UNCHANGED memVars
  BY <1>8 DEF memVars, BufferInv, Linked
<1>9. CASE binder_send_failed_reply(stack[th], "DEAD", tx, bf, stack, return_error)
  BY <1>5, <1>6, <1>9, SendFailedReplyInverse
<1>10. CASE txn' = tx /\ buf' = bf
  BY <1>6, <1>10 DEF BufferInv, Linked
<1> QED BY <1>7, <1>8, <1>9, <1>10

\* The delivery of a one-way call or a reply frees the transaction.
LEMMA DeliverInverse ==
    ASSUME TypeOK, BufferInv, NEW th \in Thread, NEW STATE t, t \in Txn, Deliver(th, t)
    PROVE  BufferInv'
<1> DEFINE b == txn[t].buffer
           call == buf[b].target_node # NULL /\ txn[t].kind # "oneway"
<1>1. txn \in [Txn -> TxnRec] /\ buf \in [Buf -> BufRec] /\ NULL \notin Buf /\ NULL \notin Txn
  BY Distinct DEF TypeOK
<1>2. CASE b = NULL
  <2>1. txn' = txn /\ buf' = buf
    BY <1>2 DEF Deliver
  <2> QED BY <2>1 DEF BufferInv, Linked
<1>3. CASE b # NULL
  <2>1. b \in Buf
    BY <1>1, <1>3 DEF TxnRec
  <2>2. /\ buf' = [buf EXCEPT ![b].allow_user_free = TRUE,
                              ![b].transaction = IF call THEN @ ELSE NULL]
        /\ txn' = IF call THEN [txn EXCEPT ![t].to_parent = stack[th],
                                           ![t].to_thread = th]
                  ELSE Kfree(txn, {t})
    BY <1>3 DEF Deliver
  <2>3. ASSUME NEW c \in Buf
        PROVE /\ buf'[c].proc = buf[c].proc
              /\ buf'[c].transaction = IF c = b /\ ~call THEN NULL ELSE buf[c].transaction
    <3> HIDE DEF b, call
    <3> QED BY <1>1, <2>1, <2>2 DEF BufRec
  <2>4. CASE call
    <3>1. txn' = [txn EXCEPT ![t].to_parent = stack[th], ![t].to_thread = th]
      BY <2>2, <2>4
    <3>2. ASSUME NEW x \in Txn
          PROVE txn'[x].kind = txn[x].kind /\ txn'[x].buffer = txn[x].buffer
      BY <1>1, <3>1 DEF TxnRec
    <3> QED BY <2>3, <2>4, <3>2 DEF BufferInv, Linked
  <2>5. CASE ~call
    <3>1. ASSUME NEW x \in Txn
          PROVE txn'[x] = IF x = t THEN NoTxn ELSE txn[x]
      BY <2>2, <2>5 DEF Kfree
    <3>2. NoTxn.buffer = NULL
      BY DEF NoTxn
    <3>3. buf[b].transaction = t
      BY <2>1 DEF BufferInv, Linked
    <3> HIDE DEF b, call
    <3>4. ASSUME NEW x \in Txn, NEW c \in Buf
          PROVE txn'[x].buffer = c <=> buf'[c].transaction = x
      BY <1>1, <2>1, <2>3, <2>5, <3>1, <3>2, <3>3 DEF BufferInv, Linked
    <3>5. ASSUME NEW x \in Txn, txn'[x].kind = "none"
          PROVE txn'[x].buffer = NULL
      BY <3>1, <3>2, <3>5 DEF BufferInv, Linked
    <3>6. ASSUME NEW c \in Buf, buf'[c].proc = NULL
          PROVE buf'[c].transaction = NULL
      BY <2>3, <3>6 DEF BufferInv, Linked
    <3> QED BY <3>4, <3>5, <3>6 DEF BufferInv, Linked
  <2> QED BY <2>4, <2>5
<1> QED BY <1>2, <1>3

\* A new transaction with its buffer, both from free memory.
LEMMA NewKeepsInverse ==
    ASSUME NEW STATE tx, tx \in [Txn -> TxnRec], NEW STATE bf, bf \in [Buf -> BufRec],
           NEW t \in Txn, NEW b \in Buf, NEW STATE r, r \in TxnRec, NEW STATE n, n \in BufRec,
           Linked(tx, bf), tx[t].kind = "none", bf[b].proc = NULL,
           r.kind # "none", r.buffer = b, n.proc # NULL, n.transaction = t
    PROVE  Linked([tx EXCEPT ![t] = r], [bf EXCEPT ![b] = n])
<1> DEFINE tx2 == [tx EXCEPT ![t] = r]
           bf2 == [bf EXCEPT ![b] = n]
<1>1. ASSUME NEW x \in Txn
      PROVE tx2[x] = IF x = t THEN r ELSE tx[x]
  OBVIOUS
<1>2. ASSUME NEW c \in Buf
      PROVE bf2[c] = IF c = b THEN n ELSE bf[c]
  OBVIOUS
<1>3. tx[t].buffer = NULL /\ bf[b].transaction = NULL /\ NULL \notin Buf /\ NULL \notin Txn
  BY Distinct DEF Linked
<1> HIDE DEF tx2, bf2
<1>4. ASSUME NEW x \in Txn, NEW c \in Buf
      PROVE tx2[x].buffer = c <=> bf2[c].transaction = x
  BY <1>1, <1>2, <1>3 DEF Linked
<1>5. ASSUME NEW x \in Txn, tx2[x].kind = "none"
      PROVE tx2[x].buffer = NULL
  BY <1>1, <1>5 DEF Linked
<1>6. ASSUME NEW c \in Buf, bf2[c].proc = NULL
      PROVE bf2[c].transaction = NULL
  BY <1>2, <1>6 DEF Linked
<1>7. Linked(tx2, bf2)
  BY <1>4, <1>5, <1>6 DEF Linked
<1> QED BY <1>7 DEF tx2, bf2

\* Every step keeps transactions and buffers in step.
LEMMA InverseStep == TypeOK /\ BufferInv /\ [Next]_vars => BufferInv'
<1> SUFFICES ASSUME TypeOK, BufferInv, [Next]_vars PROVE BufferInv'
  OBVIOUS
<1> USE ProcOfType
<1>0. txn \in [Txn -> TxnRec] /\ buf \in [Buf -> BufRec] /\ NULL \notin Buf
      /\ NULL \notin Txn /\ NULL \notin Proc
  BY Distinct DEF TypeOK
<1>s. ASSUME txn' = txn, buf' = buf PROVE BufferInv'
  BY <1>s DEF BufferInv, Linked
<1>1. ASSUME NEW th \in Thread, NEW p \in Proc, NEW t \in Txn, NEW b \in Buf,
             Transact(th, p, t, b)
      PROVE BufferInv'
  <2> DEFINE r(u) == [kind |-> "call", from |-> th, from_parent |-> stack[th],
                      to_thread |-> u, to_parent |-> NULL, buffer |-> b]
             n == NewBuffer(p, t, p, FALSE)
  <2>1. PICK u \in TargetThread(th, p) : txn' = [txn EXCEPT ![t] = r(u)]
    BY <1>1 DEF Transact
  <2>2. r(u) \in TxnRec /\ r(u).kind # "none" /\ r(u).buffer = b
    BY TargetThreadType DEF TypeOK, TxnRec
  <2>3. n \in BufRec /\ n.proc # NULL /\ n.transaction = t
    BY <1>0 DEF NewBuffer, BufRec
  <2>4. txn[t].kind = "none" /\ buf[b].proc = NULL /\ buf' = [buf EXCEPT ![b] = n]
    BY <1>1 DEF Transact, CanTransact, CanAllocate
  <2> HIDE DEF r, n
  <2>5. Linked([txn EXCEPT ![t] = r(u)], [buf EXCEPT ![b] = n])
    BY <1>0, <2>2, <2>3, <2>4, NewKeepsInverse DEF BufferInv
  <2> QED BY <2>1, <2>4, <2>5 DEF BufferInv, Linked
<1>2. ASSUME NEW th \in Thread, NEW p \in Proc, NEW t \in Txn, NEW b \in Buf,
             TransactOneWay(th, p, t, b)
      PROVE BufferInv'
  <2> DEFINE r == [NoTxn EXCEPT !.kind = "oneway", !.buffer = b]
             n == NewBuffer(p, t, p, TRUE)
  <2>1. r \in TxnRec /\ r.kind # "none" /\ r.buffer = b
    BY DEF TxnRec, NoTxn
  <2>2. n \in BufRec /\ n.proc # NULL /\ n.transaction = t
    BY <1>0 DEF NewBuffer, BufRec
  <2>3. /\ txn[t].kind = "none" /\ buf[b].proc = NULL
        /\ txn' = [txn EXCEPT ![t] = r]
        /\ buf' = [buf EXCEPT ![b] = n]
    BY <1>2 DEF TransactOneWay, CanTransact, CanAllocate
  <2> HIDE DEF r, n
  <2>4. Linked([txn EXCEPT ![t] = r], [buf EXCEPT ![b] = n])
    BY <1>0, <2>1, <2>2, <2>3, NewKeepsInverse DEF BufferInv
  <2> QED BY <2>3, <2>4 DEF BufferInv, Linked
<1>3. ASSUME NEW th \in Thread, NEW t \in Txn, NEW b \in Buf, Reply(th, t, b)
      PROVE BufferInv'
  <2> DEFINE k == stack[th]
             u == txn[k].from
             match == StackAfterReply(th)[u] = k
             r == [NoTxn EXCEPT !.kind = "reply", !.to_thread = u, !.buffer = b]
             n == NewBuffer(ProcOf[u], t, NULL, FALSE)
             tx == Kfree(txn, {k})
             bf == Detach(buf, txn, {k})
  <2>1. k \in Txn /\ u \in Thread /\ txn[t].kind = "none" /\ buf[b].proc = NULL
    BY <1>3 DEF Reply, CanAllocate, Serves, TypeOK, TxnRec
  <2>2. r \in TxnRec /\ r.kind # "none" /\ r.buffer = b
    <3> HIDE DEF u
    <3> QED BY <2>1 DEF TxnRec, NoTxn
  <2>3. n \in BufRec /\ n.proc # NULL /\ n.transaction = t
    <3> HIDE DEF u
    <3> QED BY <1>0, <2>1 DEF NewBuffer, BufRec
  <2>4. Linked(tx, bf) /\ tx \in [Txn -> TxnRec] /\ bf \in [Buf -> BufRec]
    BY <1>0, <2>1, MemoryType, FreeKeepsInverse DEF BufferInv
  <2>5. tx[t].kind = "none"
    BY <2>1 DEF Kfree, NoTxn
  <2>6. bf[b].proc = NULL
    BY <1>0, <2>1 DEF Detach, BufRec
  <2>7. CASE match
    <3>1. txn' = [tx EXCEPT ![t] = r] /\ buf' = [bf EXCEPT ![b] = n]
      BY <1>3, <2>7 DEF Reply
    <3> HIDE DEF k, u, r, n, tx, bf
    <3>2. Linked([tx EXCEPT ![t] = r], [bf EXCEPT ![b] = n])
      BY <2>2, <2>3, <2>4, <2>5, <2>6, NewKeepsInverse
    <3> QED BY <3>1, <3>2 DEF BufferInv, Linked
  <2>8. CASE ~match
    BY <1>3, <1>s, <2>8 DEF Reply, memVars
  <2> QED BY <2>7, <2>8
<1>4. ASSUME NEW th \in Thread, NEW b \in Buf, FreeBuffer(th, b)
      PROVE BufferInv'
  <2> DEFINE t == buf[b].transaction
  <2>1. /\ t \in Txn \cup {NULL}
        /\ txn' = IF t = NULL THEN txn ELSE [txn EXCEPT ![t].buffer = NULL]
        /\ buf' = [buf EXCEPT ![b] = NoBuf]
    BY <1>0, <1>4 DEF FreeBuffer, BufRec
  <2>2. ASSUME NEW x \in Txn
        PROVE /\ txn'[x].kind = txn[x].kind
              /\ txn'[x].buffer = IF x = t THEN NULL ELSE txn[x].buffer
    <3> HIDE DEF t
    <3> QED BY <1>0, <2>1 DEF TxnRec
  <2>3. ASSUME NEW c \in Buf
        PROVE buf'[c] = IF c = b THEN NoBuf ELSE buf[c]
    BY <1>0, <2>1
  <2>4. NoBuf.transaction = NULL
    BY DEF NoBuf
  <2>5. ASSUME NEW x \in Txn, NEW c \in Buf
        PROVE txn'[x].buffer = c <=> buf'[c].transaction = x
    BY <1>0, <2>2, <2>3, <2>4 DEF BufferInv, Linked
  <2>6. ASSUME NEW x \in Txn, txn'[x].kind = "none"
        PROVE txn'[x].buffer = NULL
    BY <2>2, <2>6 DEF BufferInv, Linked
  <2>7. ASSUME NEW c \in Buf, buf'[c].proc = NULL
        PROVE buf'[c].transaction = NULL
    BY <2>3, <2>4, <2>7 DEF BufferInv, Linked
  <2> QED BY <2>5, <2>6, <2>7 DEF BufferInv, Linked
<1>5. ASSUME NEW th \in Thread, TransactFail(th) \/ ReplyNoCall(th)
      PROVE BufferInv'
  BY <1>5, <1>s DEF TransactFail, ReplyNoCall, memVars
<1>6. ASSUME NEW th \in Thread, ReplyCallerDead(th) \/ ReplyFail(th)
      PROVE BufferInv'
  <2> DEFINE re == [return_error EXCEPT ![th] = "COMPLETE"]
  <2>1. PICK code \in {"DEAD", "FAILED"} :
           binder_send_failed_reply(stack[th], code, txn, buf, StackAfterReply(th), re)
    BY <1>6 DEF ReplyCallerDead, ReplyFail, ReplyError
  <2> HIDE DEF re
  <2> QED BY <1>0, <2>1, SendFailedReplyInverse DEF BufferInv
<1>7. ASSUME NEW th \in Thread, ReadWait(th) \/ ReadSleep(th) \/ ReadError(th)
                                 \/ ReadComplete(th) \/ ReadInterrupted(th)
      PROVE BufferInv'
  BY <1>7, <1>s DEF ReadWait, ReadSleep, ReadError, ReadComplete, ReadInterrupted, memVars
<1>8. ASSUME NEW th \in Thread, ReadThreadWork(th)
      PROVE BufferInv'
  <2>1. Head(todo[th]) \in Txn
    BY <1>8 DEF ReadThreadWork, TypeOK, Work
  <2> QED BY <1>8, <2>1, DeliverInverse DEF ReadThreadWork
<1>9. ASSUME NEW th \in Thread, ReadProcWork(th)
      PROVE BufferInv'
  <2>1. Head(proc_todo[ProcOf[th]]) \in Txn
    BY <1>9 DEF ReadProcWork, TypeOK
  <2> QED BY <1>9, <2>1, DeliverInverse DEF ReadProcWork
<1>10. ASSUME NEW th \in Thread, ThreadExit(th)
       PROVE BufferInv'
  BY <1>10, StartFreeThreadInverse DEF ThreadExit
<1>11. ASSUME NEW th \in Thread, FreeThread(th)
       PROVE BufferInv'
  <2>1. CASE ReleaseThreadWork(th)
    <3>1. Head(todo[th]) \in Work
      BY <2>1 DEF ReleaseThreadWork, TypeOK
    <3> QED BY <2>1, <3>1, ReleaseItemInverse DEF ReleaseThreadWork
  <2>2. CASE FinishFreeThread(th)
    BY <2>2, <1>s DEF FinishFreeThread, memVars
  <2> QED BY <1>11, <2>1, <2>2 DEF FreeThread
<1>12. ASSUME NEW p \in Proc, Release(p)
       PROVE BufferInv'
  <2>1. CASE StartRelease(p)
    BY <2>1, <1>s DEF StartRelease, memVars
  <2>2. ASSUME NEW th \in Thread, ReleaseThread(p, th)
        PROVE BufferInv'
    BY <2>2, StartFreeThreadInverse DEF ReleaseThread
  <2>3. CASE ReleaseAsyncWork(p)
    <3>1. Head(async_todo[p]) \in Work
      BY <2>3 DEF ReleaseAsyncWork, TypeOK, Work
    <3> QED BY <2>3, <3>1, ReleaseItemInverse DEF ReleaseAsyncWork
  <2>4. CASE ReleaseProcWork(p)
    <3>1. Head(proc_todo[p]) \in Work
      BY <2>4 DEF ReleaseProcWork, TypeOK, Work
    <3> QED BY <2>4, <3>1, ReleaseItemInverse DEF ReleaseProcWork
  <2>5. CASE FinishRelease(p)
    <3>1. ASSUME NEW x \in Txn
          PROVE /\ txn'[x].kind = txn[x].kind
                /\ txn'[x].buffer =
                     IF \E b \in Buf : buf[b].proc = p /\ buf[b].transaction = x
                     THEN NULL ELSE txn[x].buffer
      <4>1. txn[x] \in TxnRec
        BY <1>0
      <4>2. txn'[x] = IF \E b \in Buf : buf[b].proc = p /\ buf[b].transaction = x
                      THEN [txn[x] EXCEPT !.buffer = NULL] ELSE txn[x]
        BY <2>5 DEF FinishRelease, BuffersGone
      <4> QED BY <4>1, <4>2 DEF TxnRec
    <3>2. ASSUME NEW c \in Buf
          PROVE buf'[c] = IF buf[c].proc = p THEN NoBuf ELSE buf[c]
      BY <2>5 DEF FinishRelease, BuffersGone
    <3>3. NoBuf.transaction = NULL
      BY DEF NoBuf
    <3>4. ASSUME NEW x \in Txn, NEW c \in Buf
          PROVE txn'[x].buffer = c <=> buf'[c].transaction = x
      BY <1>0, <3>1, <3>2, <3>3 DEF BufferInv, Linked
    <3>5. ASSUME NEW x \in Txn, txn'[x].kind = "none"
          PROVE txn'[x].buffer = NULL
      BY <3>1, <3>5 DEF BufferInv, Linked
    <3>6. ASSUME NEW c \in Buf, buf'[c].proc = NULL
          PROVE buf'[c].transaction = NULL
      BY <3>2, <3>3, <3>6 DEF BufferInv, Linked
    <3> QED BY <3>4, <3>5, <3>6 DEF BufferInv, Linked
  <2> QED BY <1>12, <2>1, <2>2, <2>3, <2>4, <2>5 DEF Release
<1>13. CASE UNCHANGED vars
  BY <1>13, <1>s DEF vars, memVars
<1> QED
  BY <1>1, <1>2, <1>3, <1>4, <1>5, <1>6, <1>7, <1>8, <1>9, <1>10, <1>11, <1>12, <1>13
     DEF Next, Write, Read

\* t->buffer and buffer->transaction are inverse in every reachable state, so no
\* path of the driver leaves one of them pointing to freed memory.
THEOREM BuffersMatch == Spec => []BufferOfTransaction
<1>1. Init => BufferInv
  BY Distinct DEF Init, BufferInv, Linked, NoTxn, NoBuf
<1>2. BufferInv => BufferOfTransaction
  BY DEF BufferInv, Linked, BufferOfTransaction
<1> QED BY <1>1, <1>2, InverseStep, TypeCorrect, PTL DEF Spec

-----------------------------------------------------------------------------
(* Errors *)

\* A failed reply moves an unread error of the caller to return_error2.
LEMMA SendFailedReplyError ==
    ASSUME TypeOK, NEW STATE t, NEW STATE code, NEW STATE tx, tx \in [Txn -> TxnRec],
           NEW STATE bf, NEW STATE stk, NEW STATE re, re \in [Thread -> Errors],
           binder_send_failed_reply(t, code, tx, bf, stk, re), NEW v \in Thread,
           re[v] # "OK", return_error'[v] # re[v]
    PROVE  return_error2'[v] = re[v]
<1> DEFINE chain == FailedChain(t, tx)
           gone == {x \in chain : tx[x].from = NULL}
           found == chain \ gone
           x == CHOOSE y \in found : TRUE
           u == tx[x].from
           full == BothErrors(u, re)
<1>1. ~(found = {} \/ full)
  BY DEF binder_send_failed_reply
<1>2. /\ return_error' = [re EXCEPT ![u] = code]
      /\ return_error2' = IF MovesError(u, re)
                          THEN [return_error2 EXCEPT ![u] = re[u]]
                          ELSE return_error2
  BY <1>1 DEF binder_send_failed_reply
<1> HIDE DEF u, found
<1>3. u = v
  BY <1>2
<1> QED BY <1>1, <1>2, <1>3 DEF MovesError, BothErrors, TypeOK

\* The first part of binder_free_thread, and the release of an item, write
\* errors only by a failed reply.
LEMMA TeardownError ==
    ASSUME TypeOK, NEW v \in Thread,
           (\E th \in Thread : StartFreeThread(th)) \/ (\E w \in Work : ReleaseItem(w)),
           return_error[v] # "OK", return_error'[v] # return_error[v]
    PROVE  return_error2'[v] = return_error[v]
<1>0. txn \in [Txn -> TxnRec] /\ buf \in [Buf -> BufRec] /\ return_error \in [Thread -> Errors]
  BY DEF TypeOK
<1>1. ASSUME NEW th \in Thread, StartFreeThread(th)
      PROVE return_error2'[v] = return_error[v]
  <2> DEFINE active == ActiveTransactions(th)
             in == {x \in active : txn[x].to_thread = th}
             tx == [x \in Txn |->
                    IF x \in in THEN [txn[x] EXCEPT !.to_thread = NULL, !.buffer = NULL]
                    ELSE IF x \in active THEN [txn[x] EXCEPT !.from = NULL]
                    ELSE txn[x]]
             bf == Detach(buf, txn, in)
  <2>1. binder_send_failed_reply(stack[th], "DEAD", tx, bf, stack, return_error)
    BY <1>1 DEF StartFreeThread
  <2>2. tx \in [Txn -> TxnRec]
    <3>1. ASSUME NEW x \in Txn
          PROVE /\ [txn[x] EXCEPT !.to_thread = NULL, !.buffer = NULL] \in TxnRec
                /\ [txn[x] EXCEPT !.from = NULL] \in TxnRec
                /\ txn[x] \in TxnRec
      BY <1>0 DEF TxnRec
    <3> HIDE DEF active, in
    <3> QED BY <3>1
  <2> HIDE DEF tx, bf
  <2> QED BY <1>0, <2>1, <2>2, SendFailedReplyError
<1>2. ASSUME NEW w \in Work, ReleaseItem(w)
      PROVE return_error2'[v] = return_error[v]
  <2>1. binder_send_failed_reply(w, "DEAD", txn, buf, stack, return_error)
    BY <1>2 DEF ReleaseItem
  <2> QED BY <1>0, <2>1, SendFailedReplyError
<1> QED BY <1>1, <1>2

\* No error is lost before its thread has read it.
THEOREM ErrorsKept == Spec => ErrorNotLost
<1>1. ASSUME TypeOK, [Next]_vars, NEW v \in Thread, return_error[v] # "OK",
             return_error'[v] # "OK", return_error'[v] # return_error[v]
      PROVE return_error2'[v] = return_error[v]
  <2>0. return_error \in [Thread -> Errors] /\ txn \in [Txn -> TxnRec]
    BY <1>1 DEF TypeOK
  <2>1. ~UNCHANGED return_error
    BY <1>1
  <2>2. ASSUME NEW th \in Thread, Write(th)
        PROVE return_error2'[v] = return_error[v]
    <3>1. return_error[th] = "OK" /\ th # v
      BY <1>1, <2>2 DEF Write, Transact, TransactOneWay, CanTransact, Reply, FreeBuffer,
                  TransactFail, ReplyNoCall, ReplyCallerDead, ReplyFail, CanWrite
    <3>2. CASE ReplyCallerDead(th) \/ ReplyFail(th)
      <4> DEFINE re == [return_error EXCEPT ![th] = "COMPLETE"]
      <4>1. PICK code \in {"DEAD", "FAILED"} :
               binder_send_failed_reply(stack[th], code, txn, buf, StackAfterReply(th), re)
        BY <3>2 DEF ReplyCallerDead, ReplyFail, ReplyError
      <4>2. re \in [Thread -> Errors] /\ re[v] = return_error[v]
        BY <2>0, <3>1 DEF Errors
      <4> HIDE DEF re
      <4> QED BY <1>1, <2>0, <4>1, <4>2, SendFailedReplyError
    <3>3. CASE TransactFail(th) \/ ReplyNoCall(th)
      BY <1>1, <2>0, <3>1, <3>3 DEF TransactFail, ReplyNoCall
    <3>4. ASSUME NEW t \in Txn, NEW b \in Buf, Reply(th, t, b)
          PROVE FALSE
      <4>1. \/ UNCHANGED return_error
            \/ return_error' = [return_error EXCEPT ![th] = "FAILED"]
        BY <3>4 DEF Reply
      <4> QED BY <1>1, <2>0, <2>1, <3>1, <4>1
    <3> QED BY <2>1, <2>2, <3>2, <3>3, <3>4
            DEF Write, Transact, TransactOneWay, FreeBuffer
  <2>3. ASSUME NEW th \in Thread, Read(th)
        PROVE return_error2'[v] = return_error[v]
    BY <1>1, <2>0, <2>1, <2>3 DEF Read, ReadWait, ReadSleep, ReadError, ReadComplete,
                            ReadThreadWork, ReadProcWork, ReadInterrupted
  <2>4. ASSUME NEW th \in Thread, ThreadExit(th) \/ FreeThread(th)
        PROVE return_error2'[v] = return_error[v]
    <3>1. CASE ThreadExit(th)
      BY <1>1, <3>1, TeardownError DEF ThreadExit
    <3>2. CASE ReleaseThreadWork(th)
      <4>1. Head(todo[th]) \in Work
        BY <1>1, <3>2 DEF ReleaseThreadWork, TypeOK
      <4> QED BY <1>1, <3>2, <4>1, TeardownError DEF ReleaseThreadWork
    <3>3. CASE FinishFreeThread(th)
      BY <1>1, <2>0, <3>3 DEF FinishFreeThread
    <3> QED BY <2>4, <3>1, <3>2, <3>3 DEF FreeThread
  <2>5. ASSUME NEW p \in Proc, Release(p)
        PROVE return_error2'[v] = return_error[v]
    <3>1. CASE StartRelease(p) \/ FinishRelease(p)
      BY <2>1, <3>1 DEF StartRelease, FinishRelease, threadVars
    <3>2. ASSUME NEW th \in Thread, ReleaseThread(p, th)
          PROVE return_error2'[v] = return_error[v]
      BY <1>1, <3>2, TeardownError DEF ReleaseThread
    <3>3. CASE ReleaseAsyncWork(p)
      <4>1. Head(async_todo[p]) \in Work
        BY <1>1, <3>3 DEF ReleaseAsyncWork, TypeOK, Work
      <4> QED BY <1>1, <3>3, <4>1, TeardownError DEF ReleaseAsyncWork
    <3>4. CASE ReleaseProcWork(p)
      <4>1. Head(proc_todo[p]) \in Work
        BY <1>1, <3>4 DEF ReleaseProcWork, TypeOK, Work
      <4> QED BY <1>1, <3>4, <4>1, TeardownError DEF ReleaseProcWork
    <3> QED BY <2>5, <3>1, <3>2, <3>3, <3>4 DEF Release
  <2> QED BY <1>1, <2>1, <2>2, <2>3, <2>4, <2>5 DEF Next, vars, threadVars
<1>2. TypeOK /\ [Next]_vars => [KeepsErrors]_vars
  BY <1>1 DEF KeepsErrors
<1> QED BY <1>2, TypeCorrect, PTL DEF Spec, ErrorNotLost

-----------------------------------------------------------------------------
(* Wake-ups *)

\* ThreadWorkWakes and ProcWorkHasReader together with what makes them
\* inductive: only a thread that is in a read sleeps.
WakeInv ==
    /\ \A th \in asleep : wait[th] # "no"
    /\ ThreadWorkWakes
    /\ ProcWorkHasReader

\* A step that queues nothing for a process, and that wakes the threads whose own
\* work it adds to, and no thread that waits for work of its process.
LEMMA WakeKept ==
    ASSUME TypeOK, WakeInv, wait' = wait, asleep' \subseteq asleep,
           \A v \in asleep \ asleep' : wait[v] = "thread",
           \A v \in asleep' : wait[v] = "thread" =>
               /\ todo'[v] = todo[v]
               /\ return_error'[v] = return_error[v],
           \A p \in Proc : proc_todo'[p] # <<>> => proc_todo[p] # <<>>
    PROVE  WakeInv'
<1>1. (\A th \in asleep : wait[th] # "no")'
  BY DEF WakeInv
<1>2. ThreadWorkWakes'
  BY DEF WakeInv, ThreadWorkWakes, binder_has_thread_work
<1>3. ASSUME NEW p \in Proc, (proc_todo[p] # <<>>)', (Sleepers(p) # {})'
      PROVE (\E th \in ThreadsOf(p) \ asleep : wait[th] = "proc")'
  <2>1. Sleepers(p) # {} /\ proc_todo[p] # <<>>
    BY <1>3 DEF Sleepers
  <2>2. PICK th \in ThreadsOf(p) \ asleep : wait[th] = "proc"
    BY <2>1 DEF WakeInv, ProcWorkHasReader
  <2> QED BY <2>2 DEF ThreadsOf
<1> QED BY <1>1, <1>2, <1>3 DEF WakeInv, ProcWorkHasReader

\* wake_up(&proc->wait) for work that was queued for process p by a thread that
\* is not asleep.
LEMMA WakeProcKept ==
    ASSUME TypeOK, WakeInv, NEW p \in Proc, WakeProc(p), wait' = wait,
           \A v \in asleep : todo'[v] = todo[v] /\ return_error'[v] = return_error[v],
           \A q \in Proc \ {p} : proc_todo'[q] = proc_todo[q]
    PROVE  WakeInv'
<1>0. asleep \subseteq Thread
  BY DEF TypeOK
<1>1. asleep' \subseteq asleep
  BY DEF WakeProc
<1>2. (\A th \in asleep : wait[th] # "no")' /\ ThreadWorkWakes'
  BY <1>1 DEF WakeInv, ThreadWorkWakes, binder_has_thread_work
<1>3. ASSUME NEW q \in Proc, (proc_todo[q] # <<>>)', (Sleepers(q) # {})'
      PROVE (\E th \in ThreadsOf(q) \ asleep : wait[th] = "proc")'
  <2>1. Sleepers(q) # {}
    BY <1>1, <1>3 DEF Sleepers
  <2>2. CASE q = p
    <3>1. PICK u \in Sleepers(p) : asleep' = asleep \ {u}
      BY <2>1, <2>2 DEF WakeProc
    <3> QED BY <1>0, <2>2, <3>1 DEF Sleepers, ThreadsOf
  <2>3. CASE q # p
    <3>1. PICK th \in ThreadsOf(q) \ asleep : wait[th] = "proc"
      BY <1>3, <2>1, <2>3 DEF WakeInv, ProcWorkHasReader
    <3> QED BY <1>1, <3>1 DEF ThreadsOf
  <2> QED BY <2>2, <2>3
<1> QED BY <1>2, <1>3 DEF WakeInv, ProcWorkHasReader

\* The return of a read passes the remaining work of the process on.
LEMMA ReadReturnKept ==
    ASSUME TypeOK, WakeInv, NEW th \in Thread, NEW STATE rest, ReadReturn(th, rest),
           \A v \in asleep \ {th} : todo'[v] = todo[v] /\ return_error'[v] = return_error[v],
           proc_todo'[ProcOf[th]] = rest,
           \A q \in Proc \ {ProcOf[th]} : proc_todo'[q] = proc_todo[q]
    PROVE  WakeInv'
<1> DEFINE others == Sleepers(ProcOf[th]) \ {th}
<1>0. /\ asleep \subseteq Thread
      /\ wait \in [Thread -> {"no", "proc", "thread"}]
      /\ wait' = [wait EXCEPT ![th] = "no"]
      /\ \/ asleep' = asleep \ {th} /\ (rest = <<>> \/ others = {})
         \/ \E u \in others : asleep' = asleep \ {th, u}
  BY DEF TypeOK, ReadReturn
<1>1. /\ asleep' \subseteq asleep \ {th}
      /\ \A v \in Thread \ {th} : wait'[v] = wait[v]
  BY <1>0
<1>2. (\A v \in asleep : wait[v] # "no")' /\ ThreadWorkWakes'
  BY <1>0, <1>1 DEF WakeInv, ThreadWorkWakes, binder_has_thread_work
<1>3. ASSUME NEW q \in Proc, (proc_todo[q] # <<>>)', (Sleepers(q) # {})'
      PROVE (\E v \in ThreadsOf(q) \ asleep : wait[v] = "proc")'
  <2>1. PICK v \in asleep' : ProcOf[v] = q /\ wait'[v] = "proc"
    BY <1>3 DEF Sleepers
  <2>2. v \in Sleepers(q) \ {th}
    BY <1>0, <1>1, <2>1 DEF Sleepers
  <2>3. CASE q = ProcOf[th]
    <3>1. PICK u \in others : asleep' = asleep \ {th, u}
      BY <1>0, <1>3, <2>2, <2>3
    <3>2. u \in ThreadsOf(q) /\ u \notin asleep' /\ wait'[u] = "proc"
      BY <1>0, <1>1, <2>3, <3>1 DEF Sleepers, ThreadsOf
    <3> QED BY <3>2 DEF ThreadsOf
  <2>4. CASE q # ProcOf[th]
    <3>1. PICK w \in ThreadsOf(q) \ asleep : wait[w] = "proc"
      BY <1>3, <2>2, <2>4 DEF WakeInv, ProcWorkHasReader
    <3> QED BY <1>1, <2>4, <3>1 DEF ThreadsOf
  <2> QED BY <2>3, <2>4
<1> QED BY <1>2, <1>3 DEF WakeInv, ProcWorkHasReader

\* A failed reply wakes the thread it writes an error to.
LEMMA SendFailedReplyWakes ==
    ASSUME NEW STATE t, NEW STATE code, NEW STATE tx, NEW STATE bf, NEW STATE stk,
           NEW STATE re, re \in [Thread -> Errors], asleep \subseteq Thread,
           binder_send_failed_reply(t, code, tx, bf, stk, re)
    PROVE  /\ asleep' \subseteq asleep
           /\ \A v \in asleep \ asleep' : wait[v] = "thread"
           /\ \A v \in asleep' : wait[v] = "thread" => return_error'[v] = re[v]
<1> DEFINE chain == FailedChain(t, tx)
           gone == {x \in chain : tx[x].from = NULL}
           found == chain \ gone
           x == CHOOSE y \in found : TRUE
           u == tx[x].from
           full == BothErrors(u, re)
<1>1. CASE found = {} \/ full
  BY <1>1 DEF binder_send_failed_reply
<1>2. CASE ~(found = {} \/ full)
  <2>1. return_error' = [re EXCEPT ![u] = code] /\ asleep' = Woken(u)
    BY <1>2 DEF binder_send_failed_reply
  <2> HIDE DEF u
  <2> QED BY <2>1 DEF Woken
<1> QED BY <1>1, <1>2

\* So do the steps of a teardown.
LEMMA TeardownWakes ==
    ASSUME TypeOK,
           (\E th \in Thread : StartFreeThread(th)) \/ (\E w \in Work : ReleaseItem(w))
    PROVE  /\ asleep' \subseteq asleep
           /\ \A v \in asleep \ asleep' : wait[v] = "thread"
           /\ \A v \in asleep' : wait[v] = "thread" => return_error'[v] = return_error[v]
<1>0. return_error \in [Thread -> Errors] /\ asleep \subseteq Thread
  BY DEF TypeOK
<1>1. ASSUME NEW STATE t, NEW STATE tx, NEW STATE bf,
             binder_send_failed_reply(t, "DEAD", tx, bf, stack, return_error)
      PROVE  /\ asleep' \subseteq asleep
             /\ \A v \in asleep \ asleep' : wait[v] = "thread"
             /\ \A v \in asleep' : wait[v] = "thread" => return_error'[v] = return_error[v]
  BY <1>0, <1>1, SendFailedReplyWakes
<1>2. ASSUME NEW th \in Thread, StartFreeThread(th)
      PROVE  \/ UNCHANGED <<asleep, return_error>>
             \/ /\ asleep' \subseteq asleep
                /\ \A v \in asleep \ asleep' : wait[v] = "thread"
                /\ \A v \in asleep' : wait[v] = "thread" => return_error'[v] = return_error[v]
  <2> DEFINE active == ActiveTransactions(th)
             in == {x \in active : txn[x].to_thread = th}
             tx == [x \in Txn |->
                    IF x \in in THEN [txn[x] EXCEPT !.to_thread = NULL, !.buffer = NULL]
                    ELSE IF x \in active THEN [txn[x] EXCEPT !.from = NULL]
                    ELSE txn[x]]
             bf == Detach(buf, txn, in)
  <2>1. \/ UNCHANGED <<asleep, return_error>>
        \/ binder_send_failed_reply(stack[th], "DEAD", tx, bf, stack, return_error)
    BY <1>2 DEF StartFreeThread
  <2> HIDE DEF tx, bf
  <2> QED BY <2>1, <1>1
<1>3. ASSUME NEW w \in Work, ReleaseItem(w)
      PROVE  \/ UNCHANGED <<asleep, return_error>>
             \/ binder_send_failed_reply(w, "DEAD", txn, buf, stack, return_error)
  BY <1>3 DEF ReleaseItem
<1> QED BY <1>1, <1>2, <1>3

\* Every step keeps the wake-up invariant.
LEMMA WakeStep == TypeOK /\ WakeInv /\ [Next]_vars => WakeInv'
<1> SUFFICES ASSUME TypeOK, WakeInv, [Next]_vars PROVE WakeInv'
  OBVIOUS
<1> USE ProcOfType
<1>0. /\ asleep \subseteq Thread
      /\ todo \in [Thread -> Seq(Work)]
      /\ proc_todo \in [Proc -> Seq(Txn)]
      /\ return_error \in [Thread -> Errors]
      /\ wait \in [Thread -> {"no", "proc", "thread"}]
      /\ NULL \notin Thread
  BY Distinct DEF TypeOK
<1>r. ASSUME NEW th \in Thread, wait[th] = "no"
      PROVE th \notin asleep
  BY <1>r DEF WakeInv
<1>1. ASSUME NEW th \in Thread, NEW p \in Proc, NEW t \in Txn, NEW b \in Buf,
             Transact(th, p, t, b)
      PROVE WakeInv'
  <2> DEFINE queued == [todo EXCEPT ![th] = Append(@, COMPLETE)]
  <2>1. PICK u \in TargetThread(th, p) :
           IF u # NULL
           THEN /\ todo' = [queued EXCEPT ![u] = Append(@, t)]
                /\ asleep' = Woken(u)
                /\ UNCHANGED proc_todo
           ELSE /\ todo' = queued
                /\ proc_todo' = [proc_todo EXCEPT ![p] = Append(@, t)]
                /\ WakeProc(p)
    BY <1>1 DEF Transact
  <2>2. wait' = wait /\ return_error' = return_error /\ th \notin asleep
    BY <1>1, <1>r DEF Transact, CanTransact, CanWrite, Running
  <2>3. queued \in [Thread -> Seq(Work)] /\ \A v \in asleep : queued[v] = todo[v]
    BY <1>0, <2>2 DEF Work
  <2> HIDE DEF queued
  <2>4. CASE u # NULL
    <3>1. u \in Thread
      BY <2>4, TargetThreadType
    <3>2. /\ asleep' \subseteq asleep
          /\ \A v \in asleep \ asleep' : wait[v] = "thread"
          /\ \A v \in asleep' : wait[v] = "thread" => todo'[v] = todo[v]
      BY <1>0, <2>1, <2>3, <2>4, <3>1 DEF Woken
    <3> QED BY <2>1, <2>2, <2>4, <3>2, WakeKept
  <2>5. CASE u = NULL
    BY <1>0, <2>1, <2>2, <2>3, <2>5, WakeProcKept
  <2> QED BY <2>4, <2>5
<1>2. ASSUME NEW th \in Thread, NEW p \in Proc, NEW t \in Txn, NEW b \in Buf,
             TransactOneWay(th, p, t, b)
      PROVE WakeInv'
  <2>1. /\ todo' = [todo EXCEPT ![th] = Append(@, COMPLETE)]
        /\ UNCHANGED <<wait, return_error>>
        /\ th \notin asleep
        /\ \/ UNCHANGED <<proc_todo, asleep>>
           \/ proc_todo' = [proc_todo EXCEPT ![p] = Append(@, t)] /\ WakeProc(p)
    BY <1>2, <1>r DEF TransactOneWay, CanTransact, CanWrite, Running
  <2>2. \A v \in asleep : todo'[v] = todo[v]
    BY <1>0, <2>1
  <2>3. CASE UNCHANGED <<proc_todo, asleep>>
    BY <2>1, <2>2, <2>3, WakeKept
  <2>4. CASE proc_todo' = [proc_todo EXCEPT ![p] = Append(@, t)] /\ WakeProc(p)
    BY <1>0, <2>1, <2>2, <2>4, WakeProcKept
  <2> QED BY <2>1, <2>3, <2>4
<1>3. ASSUME NEW th \in Thread, NEW t \in Txn, NEW b \in Buf, Reply(th, t, b)
      PROVE WakeInv'
  <2> DEFINE u == txn[stack[th]].from
  <2>1. /\ UNCHANGED <<wait, proc_todo>>
        /\ th \notin asleep
        /\ \/ /\ UNCHANGED <<todo, asleep>>
              /\ return_error' = [return_error EXCEPT ![th] = "FAILED"]
           \/ /\ todo' = [[todo EXCEPT ![u] = Append(@, t)]
                            EXCEPT ![th] = Append(@, COMPLETE)]
              /\ asleep' = Woken(u)
              /\ UNCHANGED return_error
    BY <1>3, <1>r DEF Reply, CanWrite, Running, nodeVars
  <2> HIDE DEF u
  <2>2. /\ asleep' \subseteq asleep
        /\ \A v \in asleep \ asleep' : wait[v] = "thread"
        /\ \A v \in asleep' : wait[v] = "thread" =>
               todo'[v] = todo[v] /\ return_error'[v] = return_error[v]
    BY <1>0, <2>1 DEF Woken
  <2> QED BY <2>1, <2>2, WakeKept
<1>4. ASSUME NEW th \in Thread, NEW b \in Buf, FreeBuffer(th, b)
      PROVE WakeInv'
  <2>1. /\ UNCHANGED <<wait, asleep, proc_todo, return_error>>
        /\ th \notin asleep
        /\ \/ UNCHANGED todo
           \/ \E n \in {buf[b].target_node} :
                  todo' = [todo EXCEPT ![th] = Append(@, Head(async_todo[n]))]
    BY <1>4, <1>r DEF FreeBuffer, CanWrite, Running, NextAsync
  <2>2. \A v \in asleep : todo'[v] = todo[v]
    BY <1>0, <2>1
  <2> QED BY <2>1, <2>2, WakeKept
<1>5. ASSUME NEW th \in Thread, TransactFail(th) \/ ReplyNoCall(th)
      PROVE WakeInv'
  <2>1. /\ UNCHANGED <<wait, asleep, proc_todo, todo>>
        /\ th \notin asleep
        /\ \E code \in Errors : return_error' = [return_error EXCEPT ![th] = code]
    BY <1>5, <1>r DEF TransactFail, ReplyNoCall, CanWrite, Running, nodeVars, Errors
  <2>2. \A v \in asleep : return_error'[v] = return_error[v]
    BY <1>0, <2>1
  <2> QED BY <2>1, <2>2, WakeKept
<1>6. ASSUME NEW th \in Thread, ReplyCallerDead(th) \/ ReplyFail(th)
      PROVE WakeInv'
  <2> DEFINE re == [return_error EXCEPT ![th] = "COMPLETE"]
  <2>1. PICK code \in {"DEAD", "FAILED"} :
           binder_send_failed_reply(stack[th], code, txn, buf, StackAfterReply(th), re)
    BY <1>6 DEF ReplyCallerDead, ReplyFail, ReplyError
  <2>2. UNCHANGED <<todo, wait, proc_todo>> /\ th \notin asleep
    BY <1>6, <1>r DEF ReplyCallerDead, ReplyFail, ReplyError, CanWrite, Running, nodeVars
  <2>3. re \in [Thread -> Errors] /\ \A v \in asleep : re[v] = return_error[v]
    BY <1>0, <2>2 DEF Errors
  <2> DEFINE stk == StackAfterReply(th)
  <2>a. binder_send_failed_reply(stack[th], code, txn, buf, stk, re)
    BY <2>1
  <2> HIDE DEF re, stk
  <2>4. /\ asleep' \subseteq asleep
        /\ \A v \in asleep \ asleep' : wait[v] = "thread"
        /\ \A v \in asleep' : wait[v] = "thread" => return_error'[v] = re[v]
    <3>1. asleep \subseteq Thread /\ re \in [Thread -> Errors]
      BY <1>0, <2>3
    <3> QED BY <2>a, <3>1, SendFailedReplyWakes
  <2> QED BY <2>2, <2>3, <2>4, WakeKept
<1>7. ASSUME NEW th \in Thread, ReadWait(th)
      PROVE WakeInv'
  <2>1. /\ UNCHANGED <<todo, return_error, asleep, proc_todo>>
        /\ wait' = [wait EXCEPT ![th] = WaitQueue(th)]
        /\ WaitQueue(th) # "no"
        /\ th \notin asleep
        /\ wait[th] = "proc" => proc_todo[ProcOf[th]] = <<>>
    BY <1>7, <1>r DEF ReadWait, AtRetry, Running, Awake, NoItem, WaitQueue, nodeVars
  <2>2. \A v \in Thread \ {th} : wait'[v] = wait[v]
    BY <1>0, <2>1
  <2>3. (\A v \in asleep : wait[v] # "no")' /\ ThreadWorkWakes'
    BY <1>0, <2>1, <2>2 DEF WakeInv, ThreadWorkWakes, binder_has_thread_work
  <2>4. ASSUME NEW p \in Proc, (proc_todo[p] # <<>>)', (Sleepers(p) # {})'
        PROVE (\E v \in ThreadsOf(p) \ asleep : wait[v] = "proc")'
    <3>1. Sleepers(p) # {} /\ proc_todo[p] # <<>>
      BY <1>0, <2>1, <2>2, <2>4 DEF Sleepers
    <3>2. PICK v \in ThreadsOf(p) \ asleep : wait[v] = "proc"
      BY <3>1 DEF WakeInv, ProcWorkHasReader
    <3> QED BY <2>1, <2>2, <3>1, <3>2 DEF ThreadsOf
  <2> QED BY <2>3, <2>4 DEF WakeInv, ProcWorkHasReader
<1>8. ASSUME NEW th \in Thread, ReadSleep(th)
      PROVE WakeInv'
  <2>1. /\ UNCHANGED <<todo, return_error, wait, proc_todo>>
        /\ asleep' = asleep \cup {th}
        /\ wait[th] # "no"
        /\ ~HasWork(th)
    BY <1>8 DEF ReadSleep, Awake, nodeVars
  <2>2. (\A v \in asleep : wait[v] # "no")' /\ ThreadWorkWakes'
    BY <2>1 DEF WakeInv, ThreadWorkWakes, binder_has_thread_work, HasWork
  <2>3. ASSUME NEW p \in Proc, (proc_todo[p] # <<>>)', (Sleepers(p) # {})'
        PROVE (\E v \in ThreadsOf(p) \ asleep : wait[v] = "proc")'
    <3>1. ~(ProcOf[th] = p /\ wait[th] = "proc")
      BY <2>1, <2>3 DEF HasWork, binder_has_proc_work
    <3>2. Sleepers(p) # {} /\ proc_todo[p] # <<>>
      BY <2>1, <2>3, <3>1 DEF Sleepers
    <3>3. PICK v \in ThreadsOf(p) \ asleep : wait[v] = "proc"
      BY <3>2 DEF WakeInv, ProcWorkHasReader
    <3> QED BY <2>1, <3>1, <3>3 DEF ThreadsOf
  <2> QED BY <2>2, <2>3 DEF WakeInv, ProcWorkHasReader
<1>9. ASSUME NEW th \in Thread, ReadError(th) \/ ReadComplete(th) \/ ReadThreadWork(th)
                                 \/ ReadInterrupted(th)
      PROVE WakeInv'
  <2>1. ReadReturn(th, proc_todo[ProcOf[th]]) /\ UNCHANGED proc_todo
    BY <1>9 DEF ReadError, ReadComplete, ReadThreadWork, ReadInterrupted, nodeVars
  <2>2. \A v \in asleep \ {th} : todo'[v] = todo[v] /\ return_error'[v] = return_error[v]
    BY <1>0, <1>9 DEF ReadError, ReadComplete, ReadThreadWork, ReadInterrupted
  <2> QED BY <2>1, <2>2, ReadReturnKept
<1>10. ASSUME NEW th \in Thread, ReadProcWork(th)
       PROVE WakeInv'
  <2> DEFINE p == ProcOf[th]
  <2>1. /\ ReadReturn(th, Tail(proc_todo[p]))
        /\ proc_todo' = [proc_todo EXCEPT ![p] = Tail(@)]
        /\ UNCHANGED <<todo, return_error>>
    BY <1>10 DEF ReadProcWork
  <2>2. /\ proc_todo'[p] = Tail(proc_todo[p])
        /\ \A q \in Proc \ {p} : proc_todo'[q] = proc_todo[q]
    BY <1>0, <2>1
  <2> QED BY <2>1, <2>2, ReadReturnKept
<1>11. ASSUME NEW th \in Thread, ThreadExit(th) \/ FreeThread(th)
       PROVE WakeInv'
  <2>1. CASE ThreadExit(th)
    BY <2>1, TeardownWakes, WakeKept DEF ThreadExit, StartFreeThread, nodeVars
  <2>2. CASE ReleaseThreadWork(th)
    <3>1. Head(todo[th]) \in Work
      BY <2>2 DEF ReleaseThreadWork, TypeOK
    <3>2. wait' = wait /\ proc_todo' = proc_todo
          /\ todo' = [todo EXCEPT ![th] = Tail(@)] /\ todo[th] # <<>>
      BY <2>2 DEF ReleaseThreadWork, nodeVars
    <3>3. /\ asleep' \subseteq asleep
          /\ \A v \in asleep \ asleep' : wait[v] = "thread"
          /\ \A v \in asleep' : wait[v] = "thread" => return_error'[v] = return_error[v]
      BY <2>2, <3>1, TeardownWakes DEF ReleaseThreadWork
    <3>4. ASSUME NEW v \in asleep', wait[v] = "thread"
          PROVE todo'[v] = todo[v]
      BY <1>0, <3>2, <3>3, <3>4 DEF WakeInv, ThreadWorkWakes, binder_has_thread_work
    <3> QED BY <3>2, <3>3, <3>4, WakeKept
  <2>3. CASE FinishFreeThread(th)
    <3>1. /\ UNCHANGED <<todo, wait, asleep, proc_todo>>
          /\ return_error' = [return_error EXCEPT ![th] = "OK"]
      BY <2>3 DEF FinishFreeThread, nodeVars
    <3>2. ASSUME NEW v \in asleep', wait[v] = "thread"
          PROVE return_error'[v] = return_error[v]
      BY <1>0, <3>1, <3>2 DEF WakeInv, ThreadWorkWakes, binder_has_thread_work
    <3> QED BY <3>1, <3>2, WakeKept
  <2> QED BY <1>11, <2>1, <2>2, <2>3 DEF FreeThread
<1>12. ASSUME NEW p \in Proc, Release(p)
       PROVE WakeInv'
  <2>1. CASE StartRelease(p) \/ FinishRelease(p)
    BY <2>1, WakeKept DEF StartRelease, FinishRelease, threadVars, nodeVars
  <2>2. ASSUME NEW th \in Thread, ReleaseThread(p, th)
        PROVE WakeInv'
    BY <2>2, TeardownWakes, WakeKept DEF ReleaseThread, StartFreeThread, nodeVars
  <2>3. CASE ReleaseAsyncWork(p)
    <3>1. Head(async_todo[p]) \in Work
      BY <2>3 DEF ReleaseAsyncWork, TypeOK, Work
    <3> QED BY <2>3, <3>1, TeardownWakes, WakeKept DEF ReleaseAsyncWork
  <2>4. CASE ReleaseProcWork(p)
    <3>1. Head(proc_todo[p]) \in Work
      BY <2>4 DEF ReleaseProcWork, TypeOK, Work
    <3>2. \A q \in Proc : proc_todo'[q] # <<>> => proc_todo[q] # <<>>
      BY <1>0, <2>4 DEF ReleaseProcWork
    <3> QED BY <2>4, <3>1, <3>2, TeardownWakes, WakeKept DEF ReleaseProcWork
  <2> QED BY <1>12, <2>1, <2>2, <2>3, <2>4 DEF Release
<1>13. CASE UNCHANGED vars
  BY <1>13, WakeKept DEF vars, threadVars, nodeVars
<1> QED
  BY <1>1, <1>2, <1>3, <1>4, <1>5, <1>6, <1>7, <1>8, <1>9, <1>10, <1>11, <1>12, <1>13
     DEF Next, Write, Read

\* WakeInv holds in every reachable state.
LEMMA WakeCorrect == Spec => []WakeInv
<1>1. Init => WakeInv
  BY DEF Init, WakeInv, ThreadWorkWakes, ProcWorkHasReader, Sleepers
<1> QED BY <1>1, WakeStep, TypeCorrect, PTL DEF Spec

\* No thread sleeps on its own queue while it has work or an error to read.
THEOREM NoLostThreadWakeup == Spec => []ThreadWorkWakes
<1>1. WakeInv => ThreadWorkWakes
  BY DEF WakeInv
<1> QED BY <1>1, WakeCorrect, PTL

\* Work of a process never waits for threads that all sleep, although a wake-up
\* is exclusive and the thread it wakes may return without taking the work.
THEOREM NoLostProcWakeup == Spec => []ProcWorkHasReader
<1>1. WakeInv => ProcWorkHasReader
  BY DEF WakeInv
<1> QED BY <1>1, WakeCorrect, PTL

-----------------------------------------------------------------------------
(* The inductive invariant *)

Lists == ListOf(todo, proc_todo, async_todo)

\* The stacks; that of the thread binder_free_thread has taken apart is not read again.
Top == [w \in Thread |-> IF w = exiting THEN NULL ELSE stack[w]]

MemInv == Core(txn, buf, Top, exiting, Lists)

ThreadInv ==
    /\ \A t \in Txn : {txn[t].from, txn[t].to_thread} \subseteq threads \cup {NULL}
    /\ \A th \in Thread \ threads : todo[th] = <<>> /\ wait[th] = "no"
    /\ exiting # NULL => /\ wait[exiting] = "no"
                         /\ IF closing = NULL THEN exiting \in Exits ELSE ProcOf[exiting] = closing
    /\ closing # NULL => \A th \in ThreadsOf(closing) : wait[th] = "no"

\* A thread that waits for a reply has room for an error.
Room(tx, top, re, re2) ==
    \A w \in Thread : /\ re2[w] # "OK" => re[w] # "OK"
                      /\ top[w] # NULL /\ tx[top[w]].from = w => re2[w] = "OK"

ErrorInv == Room(txn, Top, return_error, return_error2)

AsyncInv ==
    \A p \in alive \ {closing} :
        /\ has_async[p] => \E b \in Buf : ActiveAsync(p) = {b}
        /\ ~has_async[p] => ActiveAsync(p) = {} /\ async_todo[p] = <<>>
        /\ \A b \in ActiveAsync(p) :
              \/ buf[b].transaction # NULL \/ buf[b].allow_user_free
              \/ Exits \cap ThreadsOf(p) # {}

Inv == MemInv /\ ThreadInv /\ ErrorInv /\ NoStaleWait /\ AsyncInv /\ NoBug
-----------------------------------------------------------------------------
(* The lists of a state *)

\* Of the lists f of the keys D that of h loses its first item, and g are the lists after that.
OneDrops(f, g, h, D) ==
    h \in D /\ (\A v \in D : v # h => g[v] = f[v]) /\ f[h] # <<>> /\ g[h] = Tail(f[h])

\* The list q of the given kind, of the thread or process h, loses its first item.
Drops(L, M, kind, h, q) == \E k : k[1] = kind /\ k[2] = h /\ Shrunk(L, M, k) /\ L[k] = q

\* The list of a thread grows, and the others stay.
LEMMA ThreadListGrows ==
    ASSUME NEW td \in [Thread -> Seq(Work)], NEW pt \in [Proc -> Seq(Txn)], NEW at \in [Proc -> Seq(Txn)],
           NEW te \in [Thread -> Seq(Work)], NEW h \in Thread, \A v \in Thread : v # h => te[v] = td[v],
           NEW x, te[h] = Append(td[h], x)
    PROVE  \E k : k[1] = "thread" /\ k[2] = h /\ Grown(ListOf(td, pt, at), ListOf(te, pt, at), k, x)
<1>1. PICK k : k = <<"thread", h>>
  OBVIOUS
<1>2. k[1] = "thread" /\ k[2] = h
  BY <1>1
<1>3. k \in ListKeys /\ ListOf(td, pt, at)[k] = td[h] /\ ListOf(te, pt, at)[k] = te[h]
  <2>1. k \in ListKeys
    BY <1>1 DEF ListKeys
  <2> QED BY <1>2, <2>1 DEF ListOf
<1>4. ListOf(te, pt, at) \in [ListKeys -> Seq(Work)]
  BY ListType
<1>5. \A l \in ListKeys : l # k => ListOf(te, pt, at)[l] = ListOf(td, pt, at)[l]
  <2>1. \A l \in ListKeys : l[1] = "thread" /\ l # k => l[2] \in Thread /\ l[2] # h
    BY <1>1, ListKey
  <2> QED BY <2>1 DEF ListOf
<1>6. Grown(ListOf(td, pt, at), ListOf(te, pt, at), k, x)
  BY <1>3, <1>4, <1>5 DEF Grown
<1> QED BY <1>2, <1>6

\* The list of a thread loses its head, and the others stay.
LEMMA ThreadListShrinks ==
    ASSUME NEW td \in [Thread -> Seq(Work)], NEW pt \in [Proc -> Seq(Txn)], NEW at \in [Proc -> Seq(Txn)],
           NEW te \in [Thread -> Seq(Work)], NEW h, OneDrops(td, te, h, Thread)
    PROVE  Drops(ListOf(td, pt, at), ListOf(te, pt, at), "thread", h, td[h])
<1> USE DEF OneDrops
<1>1. PICK k : k = <<"thread", h>>
  OBVIOUS
<1>2. k[1] = "thread" /\ k[2] = h
  BY <1>1
<1>3. k \in ListKeys /\ ListOf(td, pt, at)[k] = td[h] /\ ListOf(te, pt, at)[k] = te[h]
  <2>1. k \in ListKeys
    BY <1>1 DEF ListKeys
  <2> QED BY <1>2, <2>1 DEF ListOf
<1>4. ListOf(te, pt, at) \in [ListKeys -> Seq(Work)]
  BY ListType
<1>5. \A l \in ListKeys : l # k => ListOf(te, pt, at)[l] = ListOf(td, pt, at)[l]
  <2>1. \A l \in ListKeys : l[1] = "thread" /\ l # k => l[2] \in Thread /\ l[2] # h
    BY <1>1, ListKey
  <2> QED BY <2>1 DEF ListOf
<1>6. Shrunk(ListOf(td, pt, at), ListOf(te, pt, at), k) /\ ListOf(td, pt, at)[k] = td[h]
  BY <1>3, <1>4, <1>5 DEF Shrunk
<1> QED BY <1>2, <1>6 DEF Drops

\* The list of a process grows, and the others stay.
LEMMA ProcListGrows ==
    ASSUME NEW td \in [Thread -> Seq(Work)], NEW pt \in [Proc -> Seq(Txn)], NEW at \in [Proc -> Seq(Txn)],
           NEW pu \in [Proc -> Seq(Txn)], NEW h \in Proc, \A v \in Proc : v # h => pu[v] = pt[v],
           NEW x, pu[h] = Append(pt[h], x)
    PROVE  \E k : k[1] = "proc" /\ k[2] = h /\ Grown(ListOf(td, pt, at), ListOf(td, pu, at), k, x)
<1>1. PICK k : k = <<"proc", h>>
  OBVIOUS
<1>2. k[1] = "proc" /\ k[2] = h
  BY <1>1
<1>3. k \in ListKeys /\ ListOf(td, pt, at)[k] = pt[h] /\ ListOf(td, pu, at)[k] = pu[h]
  <2>1. k \in ListKeys
    BY <1>1 DEF ListKeys
  <2> QED BY <1>2, <2>1 DEF ListOf
<1>4. ListOf(td, pu, at) \in [ListKeys -> Seq(Work)]
  BY ListType
<1>5. \A l \in ListKeys : l # k => ListOf(td, pu, at)[l] = ListOf(td, pt, at)[l]
  <2>1. \A l \in ListKeys : l[1] = "proc" /\ l # k => l[2] \in Proc /\ l[2] # h
    BY <1>1, ListKey
  <2> QED BY <2>1 DEF ListOf
<1>6. Grown(ListOf(td, pt, at), ListOf(td, pu, at), k, x)
  BY <1>3, <1>4, <1>5 DEF Grown
<1> QED BY <1>2, <1>6

\* The list of a process loses its head, and the others stay.
LEMMA ProcListShrinks ==
    ASSUME NEW td \in [Thread -> Seq(Work)], NEW pt \in [Proc -> Seq(Txn)], NEW at \in [Proc -> Seq(Txn)],
           NEW pu \in [Proc -> Seq(Txn)], NEW h, OneDrops(pt, pu, h, Proc)
    PROVE  Drops(ListOf(td, pt, at), ListOf(td, pu, at), "proc", h, pt[h])
<1> USE DEF OneDrops
<1>1. PICK k : k = <<"proc", h>>
  OBVIOUS
<1>2. k[1] = "proc" /\ k[2] = h
  BY <1>1
<1>3. k \in ListKeys /\ ListOf(td, pt, at)[k] = pt[h] /\ ListOf(td, pu, at)[k] = pu[h]
  <2>1. k \in ListKeys
    BY <1>1 DEF ListKeys
  <2> QED BY <1>2, <2>1 DEF ListOf
<1>4. ListOf(td, pu, at) \in [ListKeys -> Seq(Work)]
  BY ListType
<1>5. \A l \in ListKeys : l # k => ListOf(td, pu, at)[l] = ListOf(td, pt, at)[l]
  <2>1. \A l \in ListKeys : l[1] = "proc" /\ l # k => l[2] \in Proc /\ l[2] # h
    BY <1>1, ListKey
  <2> QED BY <2>1 DEF ListOf
<1>6. Shrunk(ListOf(td, pt, at), ListOf(td, pu, at), k) /\ ListOf(td, pt, at)[k] = pt[h]
  BY <1>3, <1>4, <1>5 DEF Shrunk
<1> QED BY <1>2, <1>6 DEF Drops

\* The list of a node grows, and the others stay.
LEMMA NodeListGrows ==
    ASSUME NEW td \in [Thread -> Seq(Work)], NEW pt \in [Proc -> Seq(Txn)], NEW at \in [Proc -> Seq(Txn)],
           NEW au \in [Proc -> Seq(Txn)], NEW h \in Proc, \A v \in Proc : v # h => au[v] = at[v],
           NEW x, au[h] = Append(at[h], x)
    PROVE  \E k : k[1] = "node" /\ k[2] = h /\ Grown(ListOf(td, pt, at), ListOf(td, pt, au), k, x)
<1>1. PICK k : k = <<"node", h>>
  OBVIOUS
<1>2. k[1] = "node" /\ k[2] = h
  BY <1>1
<1>3. k \in ListKeys /\ ListOf(td, pt, at)[k] = at[h] /\ ListOf(td, pt, au)[k] = au[h]
  <2>1. k \in ListKeys
    BY <1>1 DEF ListKeys
  <2> QED BY <1>2, <2>1 DEF ListOf
<1>4. ListOf(td, pt, au) \in [ListKeys -> Seq(Work)]
  BY ListType
<1>5. \A l \in ListKeys : l # k => ListOf(td, pt, au)[l] = ListOf(td, pt, at)[l]
  <2>1. \A l \in ListKeys : l[1] # "thread" /\ l[1] # "proc" /\ l # k => l[2] \in Proc /\ l[2] # h
    <3>1. \A l \in ListKeys : l[1] # "thread" /\ l[1] # "proc" => l = <<"node", l[2]>> /\ l[2] \in Proc
      BY DEF ListKeys
    <3> QED BY <1>1, <3>1
  <2> QED BY <2>1 DEF ListOf
<1>6. Grown(ListOf(td, pt, at), ListOf(td, pt, au), k, x)
  BY <1>3, <1>4, <1>5 DEF Grown
<1> QED BY <1>2, <1>6

\* The list of a node loses its head, and the others stay.
LEMMA NodeListShrinks ==
    ASSUME NEW td \in [Thread -> Seq(Work)], NEW pt \in [Proc -> Seq(Txn)], NEW at \in [Proc -> Seq(Txn)],
           NEW au \in [Proc -> Seq(Txn)], NEW h, OneDrops(at, au, h, Proc)
    PROVE  Drops(ListOf(td, pt, at), ListOf(td, pt, au), "node", h, at[h])
<1> USE DEF OneDrops
<1>1. PICK k : k = <<"node", h>>
  OBVIOUS
<1>2. k[1] = "node" /\ k[2] = h
  BY <1>1
<1>3. k \in ListKeys /\ ListOf(td, pt, at)[k] = at[h] /\ ListOf(td, pt, au)[k] = au[h]
  <2>1. k \in ListKeys
    BY <1>1 DEF ListKeys
  <2> QED BY <1>2, <2>1 DEF ListOf
<1>4. ListOf(td, pt, au) \in [ListKeys -> Seq(Work)]
  BY ListType
<1>5. \A l \in ListKeys : l # k => ListOf(td, pt, au)[l] = ListOf(td, pt, at)[l]
  <2>1. \A l \in ListKeys : l[1] # "thread" /\ l[1] # "proc" /\ l # k => l[2] \in Proc /\ l[2] # h
    <3>1. \A l \in ListKeys : l[1] # "thread" /\ l[1] # "proc" => l = <<"node", l[2]>> /\ l[2] \in Proc
      BY DEF ListKeys
    <3> QED BY <1>1, <3>1
  <2> QED BY <2>1 DEF ListOf
<1>6. Shrunk(ListOf(td, pt, at), ListOf(td, pt, au), k) /\ ListOf(td, pt, at)[k] = at[h]
  BY <1>3, <1>4, <1>5 DEF Shrunk
<1> QED BY <1>2, <1>6 DEF Drops

-----------------------------------------------------------------------------
(* binder_send_failed_reply in a state that satisfies the invariant *)

\* What binder_send_failed_reply does when no assertion fails: everything on the
\* chain F is freed, and the caller that is left, if any, is told.
LEMMA SendFailedForm ==
    ASSUME NEW STATE t, NEW STATE code, NEW STATE ax, NEW STATE ab, NEW STATE stk, NEW STATE re,
           binder_send_failed_reply(t, code, ax, ab, stk, re), bug = "none", ax[t].kind = "call",
           NEW STATE F, F = FailedChain(t, ax)
    PROVE  /\ (\A z \in F : ax[z].from = NULL) =>
                 /\ txn' = Kfree(ax, F) /\ buf' = Detach(ab, ax, F) /\ bug' = "none"
                 /\ stack' = stk /\ return_error' = re /\ return_error2' = return_error2
           /\ \A x \in F : \A u : /\ u = ax[x].from /\ u # NULL /\ stk[u] = x /\ ~BothErrors(u, re)
                                  /\ \A y \in F : ax[y].from # NULL => y = x
                 => /\ txn' = Kfree(ax, F) /\ buf' = Detach(ab, ax, F) /\ bug' = "none"
                    /\ stack' = [stk EXCEPT ![u] = ax[x].from_parent]
                    /\ return_error' = [re EXCEPT ![u] = code]
                    /\ return_error2' = IF MovesError(u, re) THEN [return_error2 EXCEPT ![u] = re[u]]
                                        ELSE return_error2
<1>1. ASSUME \A z \in F : ax[z].from = NULL
      PROVE  /\ txn' = Kfree(ax, F) /\ buf' = Detach(ab, ax, F) /\ bug' = "none"
             /\ stack' = stk /\ return_error' = re /\ return_error2' = return_error2
  <2>1. {x \in F : ax[x].from = NULL} = F /\ F \ F = {}
    BY <1>1
  <2> QED BY <2>1 DEF binder_send_failed_reply
<1>2. ASSUME NEW x \in F, NEW u, u = ax[x].from, u # NULL, stk[u] = x, ~BothErrors(u, re),
             \A y \in F : ax[y].from # NULL => y = x
      PROVE  /\ txn' = Kfree(ax, F) /\ buf' = Detach(ab, ax, F) /\ bug' = "none"
             /\ stack' = [stk EXCEPT ![u] = ax[x].from_parent]
             /\ return_error' = [re EXCEPT ![u] = code]
             /\ return_error2' = IF MovesError(u, re) THEN [return_error2 EXCEPT ![u] = re[u]]
                                 ELSE return_error2
  <2>1. F \ {y \in F : ax[y].from = NULL} = {x}
    BY <1>2
  <2>2. (CHOOSE y \in {x} : TRUE) = x
    OBVIOUS
  <2> QED BY <1>2, <2>1, <2>2 DEF binder_send_failed_reply
<1> QED BY <1>1, <1>2

\* binder_send_failed_reply for a call that nobody serves any more: no assertion
\* fails, and the stacks keep their shape.
LEMMA SendFailed ==
    ASSUME NEW STATE tx, NEW STATE bf, NEW STATE top, NEW STATE X, NEW STATE L,
           Core(tx, bf, top, X, L),
           NEW STATE t, t \in CallsOf(tx), Leaf(tx, t), tx[t].to_thread = NULL, tx[t].buffer = NULL,
           NEW STATE ax, NEW STATE ab, NEW STATE stk, NEW STATE re, NEW code \in Errors \ {"OK"},
           ax[t].kind = "call", ax[t].from = tx[t].from, ax[t].from_parent = tx[t].from_parent,
           \A x \in Txn : x # t => ax[x] = tx[x],
           \A c \in Buf : SameBuf(bf, ab, c) /\ ab[c] \in BufRec,
           stk \in [Thread -> Txn \cup {NULL}], re \in [Thread -> Errors],
           return_error2 \in [Thread -> Errors],
           \A w \in Thread : top[w] = IF w = X THEN NULL ELSE stk[w],
           Room(tx, top, re, return_error2), bug = "none",
           binder_send_failed_reply(t, code, ax, ab, stk, re),
           NEW top2, MemType(txn', buf', top2),
           \A w \in Thread : top2[w] = IF w = X THEN NULL ELSE stack'[w]
    PROVE  /\ Core(txn', buf', top2, X, L)
           /\ Room(txn', top2, return_error', return_error2')
           /\ bug' = "none"
           /\ \A w \in Thread : (stack'[w] = stk[w] /\ return_error'[w] = re[w]) \/ top[w] # NULL
           /\ \A x \in Txn : txn'[x] \in {NoTxn, tx[x]}
           /\ \A c \in Buf : /\ SameBuf(bf, buf', c)
                             /\ (\A x \in CallsOf(tx) : ax[x].buffer # c) =>
                                   buf'[c].transaction = ab[c].transaction
<1>1. PICK F : F = FailedChain(t, tx)
  OBVIOUS
<1>2. F = FailedChain(t, ax)
  <2>1. t \in Txn
    BY DEF CallsOf
  <2>2. \A x \in Txn : ax[x].from = tx[x].from /\ ax[x].from_parent = tx[x].from_parent
    OBVIOUS
  <2>3. [x \in Txn |-> IF ax[x].from = NULL THEN ax[x].from_parent ELSE NULL]
          = [x \in Txn |-> IF tx[x].from = NULL THEN tx[x].from_parent ELSE NULL]
    BY <2>2
  <2> QED BY <1>1, <2>3 DEF FailedChain
<1>3. /\ t \in F /\ F \subseteq CallsOf(tx)
      /\ \A x, y \in F : tx[x].from # NULL /\ tx[y].from # NULL => x = y
      /\ \A x \in F : tx[x].from # NULL => top[tx[x].from] = x
  <2>1. PICK tc, bc, oc, Uc, dc, Xc, sc : /\ tc = tx /\ bc = bf /\ oc = top /\ Uc = Und(tx, bf)
                                          /\ dc = DestOf(tx, bf) /\ Xc = X /\ sc = t
    OBVIOUS
  <2>2. Typed(tx, top, Und(tx, bf)) /\ Stacks(tx, top, Und(tx, bf), DestOf(tx, bf), X)
    BY MemTyped DEF Core
  <2>3. Typed(tc, oc, Uc) /\ Stacks(tc, oc, Uc, dc, Xc)
    BY <2>1, <2>2
  <2>4. sc \in CallsOf(tc) /\ Leaf(tc, sc) /\ sc \notin Uc /\ tc[sc].to_thread = NULL /\ F = FailedChain(sc, tc)
    BY <1>1, <2>1 DEF Und
  <2>5. /\ sc \in F /\ \A z \in F : z \in CallsOf(tc)
        /\ \A x, y \in F : tc[x].from # NULL /\ tc[y].from # NULL => x = y
        /\ \A x \in F : tc[x].from # NULL => oc[tc[x].from] = x
    BY <2>3, <2>4, FailedChainShape
  <2> QED BY <2>1, <2>5
<1>4. \A x \in F : x \in Txn /\ ax[x].from = tx[x].from /\ ax[x].from_parent = tx[x].from_parent
  BY <1>3 DEF CallsOf
<1>5. /\ txn' = Kfree(ax, F) /\ buf' = Detach(ab, ax, F) =>
           /\ Gone(tx, bf, txn', buf', F)
           /\ \A x \in Txn : txn'[x] \in {NoTxn, tx[x]}
           /\ \A c \in Buf : /\ SameBuf(bf, buf', c)
                             /\ (\A x \in CallsOf(tx) : ax[x].buffer # c) =>
                                   buf'[c].transaction = ab[c].transaction
  <2>1. /\ Gone(tx, bf, Kfree(ax, F), Detach(ab, ax, F), F)
        /\ \A c \in Buf : /\ SameBuf(bf, Detach(ab, ax, F), c)
                          /\ (\A x \in F : ax[x].buffer # c) =>
                                Detach(ab, ax, F)[c].transaction = ab[c].transaction
    <3>1. \A x \in Txn : Kfree(ax, F)[x] = IF x \in F THEN NoTxn ELSE tx[x]
      BY <1>3 DEF Kfree
    <3>2. \A c \in Buf : /\ SameBuf(bf, Detach(ab, ax, F), c)
                         /\ (\A x \in F : ax[x].buffer # c) =>
                               Detach(ab, ax, F)[c].transaction = ab[c].transaction
      BY DEF Detach, SameBuf, BufRec
    <3> QED BY <3>1, <3>2 DEF Gone, SameBuf
  <2>2. \A x \in Txn : Kfree(ax, F)[x] \in {NoTxn, tx[x]}
    BY <2>1 DEF Gone
  <2> QED BY <1>3, <2>1, <2>2
<1>6. CASE \A z \in F : tx[z].from = NULL
  <2>1. /\ txn' = Kfree(ax, F) /\ buf' = Detach(ab, ax, F) /\ bug' = "none"
        /\ stack' = stk /\ return_error' = re /\ return_error2' = return_error2
    BY <1>2, <1>4, <1>6, SendFailedForm
  <2>2. \A w \in Thread : top2[w] = top[w]
    BY <2>1
  <2>3. Core(txn', buf', top2, X, L)
    <3>1. PICK u : u = NULL
      OBVIOUS
    <3>2. u \in Thread \cup {NULL} /\ \A w \in Thread : w # u => top2[w] = top[w]
      BY <2>2, <3>1
    <3>3. Gone(tx, bf, txn', buf', F)
      BY <1>5, <2>1
    <3>4. PICK tc, bc, oc, Xc, lc, sc, ty, bg : /\ tc = tx /\ bc = bf /\ oc = top /\ Xc = X /\ lc = L /\ sc = t
                                               /\ ty = txn' /\ bg = buf'
      OBVIOUS
    <3>5. Core(tc, bc, oc, Xc, lc) /\ sc \in CallsOf(tc) /\ Leaf(tc, sc) /\ tc[sc].to_thread = NULL /\ tc[sc].buffer = NULL
      BY <3>4
    <3>6. F = FailedChain(sc, tc) /\ Gone(tc, bc, ty, bg, F) /\ MemType(ty, bg, top2)
      BY <1>1, <3>3, <3>4
    <3>7. \/ u = NULL /\ \A z \in F : tc[z].from = NULL
          \/ u # NULL /\ sc \in F /\ tc[sc].from = u /\ top2[u] = tc[sc].from_parent
      BY <1>6, <3>1, <3>4
    <3>8. \A w \in Thread : w # u => top2[w] = oc[w]
      BY <3>2, <3>4
    <3>9. Core(ty, bg, top2, Xc, lc)
      BY <3>2, <3>5, <3>6, <3>7, <3>8, CallFailed
    <3> QED BY <3>4, <3>9
  <2>4. Room(txn', top2, return_error', return_error2')
    <3>1. \A x \in Txn : txn'[x].from \in {NULL, tx[x].from}
      BY <1>5, <2>1 DEF NoTxn
    <3>2. \A w \in Thread : w # NULL /\ top[w] \in Txn \cup {NULL}
      BY Distinct, MemFields DEF Core
    <3> QED BY <2>1, <2>2, <3>1, <3>2 DEF Room
  <2> QED BY <1>5, <2>1, <2>3, <2>4
<1>7. ASSUME NEW x \in F, tx[x].from # NULL
      PROVE  /\ Core(txn', buf', top2, X, L)
             /\ Room(txn', top2, return_error', return_error2')
             /\ bug' = "none"
             /\ \A w \in Thread : (stack'[w] = stk[w] /\ return_error'[w] = re[w]) \/ top[w] # NULL
             /\ \A y \in Txn : txn'[y] \in {NoTxn, tx[y]}
             /\ \A c \in Buf : /\ SameBuf(bf, buf', c)
                               /\ (\A y \in CallsOf(tx) : ax[y].buffer # c) =>
                                     buf'[c].transaction = ab[c].transaction
  <2>1. PICK u : u = tx[x].from
    OBVIOUS
  <2>2. u \in Thread /\ u # NULL /\ x \in Txn /\ x # NULL
    BY <1>3, <1>7, <2>1, MemFields, Distinct DEF Core, CallsOf
  <2>3. top[u] = x /\ u # X /\ stk[u] = x
    BY <1>3, <1>7, <2>1, <2>2
  <2>4. return_error2[u] = "OK" /\ ~BothErrors(u, re)
    BY <2>1, <2>2, <2>3 DEF Room, BothErrors
  <2>5. /\ txn' = Kfree(ax, F) /\ buf' = Detach(ab, ax, F) /\ bug' = "none"
        /\ stack' = [stk EXCEPT ![u] = ax[x].from_parent]
        /\ return_error' = [re EXCEPT ![u] = code]
        /\ return_error2' = IF MovesError(u, re) THEN [return_error2 EXCEPT ![u] = re[u]]
                            ELSE return_error2
    <3>1. \A y \in F : ax[y].from # NULL => y = x
      BY <1>3, <1>4, <1>7
    <3>2. u = ax[x].from
      BY <1>4, <2>1
    <3> QED BY <1>2, <2>2, <2>3, <2>4, <3>1, <3>2, SendFailedForm
  <2>6. /\ stack'[u] = tx[x].from_parent /\ return_error'[u] = code
        /\ \A w \in Thread : w # u => /\ stack'[w] = stk[w] /\ return_error'[w] = re[w]
                                      /\ return_error2'[w] = return_error2[w]
    BY <1>4, <2>2, <2>5
  <2>7. top2[u] = tx[x].from_parent /\ \A w \in Thread : w # u => top2[w] = top[w]
    BY <2>2, <2>3, <2>6
  <2>8. Core(txn', buf', top2, X, L)
    <3>1. Gone(tx, bf, txn', buf', F)
      BY <1>5, <2>5
    <3> QED BY <1>1, <2>1, <2>2, <2>7, <3>1, CallFailed
  <2>9. top2[u] # NULL => txn'[top2[u]].from # u
    <3>1. txn'[tx[x].from_parent].from \in {NULL, tx[tx[x].from_parent].from} \/ tx[x].from_parent = NULL
      <4>1. tx[x].from_parent \in Txn \cup {NULL}
        BY <2>2, MemFields DEF Core
      <4> QED BY <1>5, <2>5, <4>1 DEF NoTxn
    <3>2. tx[x].from_parent # NULL => tx[tx[x].from_parent].from # u
      <4>1. Parents(tx, Und(tx, bf)) /\ Apart(tx)
        BY DEF Core, Stacks
      <4>2. x \in CallsOf(tx)
        BY <1>3
      <4> QED BY <2>1, <2>2, <4>1, <4>2 DEF Parents, Apart
    <3> QED BY <2>2, <2>7, <3>1, <3>2
  <2>10. Room(txn', top2, return_error', return_error2')
    <3>1. \A y \in Txn : txn'[y].from \in {NULL, tx[y].from}
      BY <1>5, <2>5 DEF NoTxn
    <3>2. \A w \in Thread : w # NULL /\ top[w] \in Txn \cup {NULL}
      BY Distinct, MemFields DEF Core
    <3>3. code # "OK"
      OBVIOUS
    <3>4. ASSUME NEW w \in Thread, w # u
          PROVE  /\ return_error2'[w] # "OK" => return_error'[w] # "OK"
                 /\ top2[w] # NULL /\ txn'[top2[w]].from = w => return_error2'[w] = "OK"
      BY <2>6, <2>7, <3>1, <3>2, <3>4 DEF Room
    <3>5. /\ return_error2'[u] # "OK" => return_error'[u] # "OK"
          /\ top2[u] # NULL /\ txn'[top2[u]].from = u => return_error2'[u] = "OK"
      BY <2>6, <2>9, <3>3
    <3> QED BY <3>4, <3>5 DEF Room
  <2> QED BY <1>5, <2>2, <2>3, <2>5, <2>6, <2>8, <2>10
<1> QED BY <1>6, <1>7

-----------------------------------------------------------------------------
(* Transactions and buffers after a step of BinderTransaction *)

\* A state, and the next one, given the theorems TypeCorrect and BuffersMatch.
Sound == TypeOK /\ BufferInv

\* What Sound says of this state ...
LEMMA Now ==
    ASSUME Sound
    PROVE  /\ MemType(txn, buf, Top)
           /\ \A w \in Thread : Top[w] = IF w = exiting THEN NULL ELSE stack[w]
           /\ todo \in [Thread -> Seq(Work)]
           /\ proc_todo \in [Proc -> Seq(Txn)] /\ async_todo \in [Proc -> Seq(Txn)]
BY DEF Sound, TypeOK, BufferInv, MemType, Top

\* ... and of the next one.
LEMMA Then ==
    ASSUME Sound'
    PROVE  /\ MemType(txn', buf', Top')
           /\ \A w \in Thread : Top'[w] = IF w = exiting' THEN NULL ELSE stack'[w]
           /\ todo' \in [Thread -> Seq(Work)]
           /\ proc_todo' \in [Proc -> Seq(Txn)] /\ async_todo' \in [Proc -> Seq(Txn)]
<1>1. \A w \in Thread : Top'[w] = IF w = exiting' THEN NULL ELSE stack'[w]
  BY DEF Top
<1>2. /\ txn' \in [Txn -> TxnRec] /\ buf' \in [Buf -> BufRec] /\ Linked(txn', buf')
      /\ stack' \in [Thread -> Txn \cup {NULL}]
      /\ todo' \in [Thread -> Seq(Work)]
      /\ proc_todo' \in [Proc -> Seq(Txn)] /\ async_todo' \in [Proc -> Seq(Txn)]
  BY DEF Sound, TypeOK, BufferInv, Linked
<1>3. Top' \in [Thread -> Txn \cup {NULL}]
  BY <1>2 DEF Top
<1> QED BY <1>1, <1>2, <1>3 DEF MemType

\* Who serves a call of th on p.
LEMMA Target ==
    ASSUME NEW th \in Thread, NEW p \in Proc, NEW u \in TargetThread(th, p)
    PROVE  /\ u = NULL => \A x \in Above(txn, stack[th]) : txn[x].from # NULL => ProcOf[txn[x].from] # p
           /\ u # NULL => ProcOf[u] = p /\ \E x \in Above(txn, stack[th]) : txn[x].from = u
<1> DEFINE waiting == {x \in Above(txn, stack[th]) : txn[x].from # NULL /\ ProcOf[txn[x].from] = p}
<1>1. /\ waiting = {} => u = NULL
      /\ waiting # {} => \E x \in waiting : u = txn[x].from
  BY DEF TargetThread, Above, Up
<1> QED BY <1>1

\* Transact makes a well-formed call.
LEMMA NewCall ==
    ASSUME MemInv, NEW th \in Thread, NEW t \in Txn, NEW b \in Buf, NEW p \in Proc,
           CanAllocate(th, t, b), NEW u \in Thread \cup {NULL}, u # NULL => ProcOf[u] = p,
           \A x \in Txn : x # t => txn'[x] = txn[x],
           txn'[t] = [kind |-> "call", from |-> th, from_parent |-> stack[th],
                      to_thread |-> u, to_parent |-> NULL, buffer |-> b],
           \A c \in Buf : c # b => buf'[c] = buf[c],
           buf'[b] = NewBuffer(p, t, p, FALSE)
    PROVE  Made(txn, buf, txn', buf', t, b, p)
<1>1. b # NULL /\ p # NULL
  BY Distinct
<1>2. t \in Und(txn', buf')
  BY <1>1 DEF Und, NewBuffer
<1>3. TxnOK(txn', buf', t)
  BY <1>1, <1>2 DEF TxnOK, NewBuffer
<1>4. BufOK(buf', b)
  BY DEF BufOK, NewBuffer
<1> QED BY <1>3, <1>4 DEF Made, CanAllocate, NewBuffer

\* A call keeps the shape of memory, and a thread it is sent to waits for one.
LEMMA TransactMem ==
    ASSUME Sound, Sound', MemInv, NEW th \in Thread, NEW p \in Proc, NEW t \in Txn, NEW b \in Buf,
           Transact(th, p, t, b)
    PROVE  /\ MemInv'
           /\ \E u \in TargetThread(th, p) : txn'[t].to_thread = u /\ (u # NULL => stack[u] # NULL)
<1>1. /\ exiting = NULL /\ exiting' = NULL /\ CanAllocate(th, t, b) /\ <<th, p>> \in Calls
      /\ stack[th] # NULL => txn[stack[th]].to_thread = th
      /\ stack' = [stack EXCEPT ![th] = t] /\ async_todo' = async_todo
      /\ buf' = [buf EXCEPT ![b] = NewBuffer(p, t, p, FALSE)]
  BY DEF Transact, CanTransact, CanWrite, Running, Unlocked, lockVars, BadCallStack
<1>2. PICK qd, u : /\ qd = [todo EXCEPT ![th] = Append(@, COMPLETE)] /\ u \in TargetThread(th, p)
                   /\ txn' = [txn EXCEPT ![t] =
                        [kind |-> "call", from |-> th, from_parent |-> stack[th],
                         to_thread |-> u, to_parent |-> NULL, buffer |-> b]]
                   /\ \/ u # NULL /\ todo' = [qd EXCEPT ![u] = Append(@, t)] /\ proc_todo' = proc_todo
                      \/ u = NULL /\ todo' = qd /\ proc_todo' = [proc_todo EXCEPT ![p] = Append(@, t)]
  BY DEF Transact
<1>3. ProcOf[th] # p
  BY <1>1, Programs
<1>4. u \in Thread \cup {NULL}
  BY <1>2, TargetThreadType DEF Sound
<1>5. PICK tx, bf, top, L, N : /\ tx = txn /\ bf = buf /\ top = Top /\ L = Lists
                               /\ N = ListOf(qd, proc_todo, async_todo)
  OBVIOUS
<1>6. PICK ty, bg, top2, M : ty = txn' /\ bg = buf' /\ top2 = Top' /\ M = Lists'
  OBVIOUS
<1>7. th # NULL /\ top[th] = stack[th] /\ \A w \in Thread : w # NULL /\ top[w] = stack[w]
  BY <1>1, <1>5, Now, Distinct
<1>8. top2[th] = t /\ \A w \in Thread : w # th => top2[w] = top[w]
  BY <1>1, <1>6, <1>7, Now, Then DEF Sound, TypeOK
<1>9. Core(tx, bf, top, NULL, L)
  BY <1>1, <1>5 DEF MemInv
<1>10. qd \in [Thread -> Seq(Work)] /\ COMPLETE \in Work
  BY <1>2, Now DEF Work
<1>11. Core(tx, bf, top, NULL, N)
  <2>1. qd[th] = Append(todo[th], COMPLETE) /\ \A v \in Thread : v # th => qd[v] = todo[v]
    BY <1>2, Now
  <2>2. \E k : k[1] = "thread" /\ k[2] = th /\ Grown(ListOf(todo, proc_todo, async_todo), ListOf(qd, proc_todo, async_todo), k, COMPLETE)
    BY <1>10, <2>1, Now, ThreadListGrows
  <2>3. PICK k : Grown(L, N, k, COMPLETE)
    BY <1>5, <2>2 DEF Lists
  <2> QED BY <1>9, <2>3, CompleteQueued
<1>12. PICK k : /\ Grown(N, M, k, t)
                /\ \/ k[1] = "thread" /\ k[2] = u /\ u # NULL
                   \/ k[1] = "proc" /\ k[2] = p /\ u = NULL
  <2>1. CASE u # NULL
    <3>1. todo'[u] = Append(qd[u], t) /\ (\A v \in Thread : v # u => todo'[v] = qd[v]) /\ u \in Thread
      BY <1>2, <1>4, <1>10, <2>1
    <3>2. \E k : k[1] = "thread" /\ k[2] = u /\ Grown(ListOf(qd, proc_todo, async_todo), ListOf(todo', proc_todo, async_todo), k, t)
      BY <1>10, <3>1, Now, Then, ThreadListGrows
    <3> QED BY <1>1, <1>2, <1>5, <1>6, <2>1, <3>2 DEF Lists
  <2>2. CASE u = NULL
    <3>1. proc_todo'[p] = Append(proc_todo[p], t) /\ (\A v \in Proc : v # p => proc_todo'[v] = proc_todo[v])
      BY <1>2, <2>2, Now
    <3>2. \E k : k[1] = "proc" /\ k[2] = p /\ Grown(ListOf(qd, proc_todo, async_todo), ListOf(qd, proc_todo', async_todo), k, t)
      BY <1>10, <3>1, Now, Then, ProcListGrows
    <3> QED BY <1>1, <1>2, <1>5, <1>6, <2>2, <3>2 DEF Lists
  <2> QED BY <2>1, <2>2
<1>13. /\ u = NULL => \A x \in Above(tx, top[th]) : tx[x].from # NULL => ProcOf[tx[x].from] # p
       /\ u # NULL => ProcOf[u] = p /\ \E x \in Above(tx, top[th]) : tx[x].from = u
  BY <1>2, <1>5, <1>7, Target
<1>14. /\ ty[t].kind = "call" /\ ty[t].from = th /\ ty[t].from_parent = top[th]
       /\ ty[t].to_thread = u /\ ty[t].to_parent = NULL
  BY <1>2, <1>6, <1>7 DEF Sound, TypeOK
<1>15. Made(tx, bf, ty, bg, t, b, p) /\ MemType(ty, bg, top2)
  <2>1. Made(txn, buf, txn', buf', t, b, p)
    BY <1>1, <1>2, <1>4, <1>13, NewCall DEF Sound, TypeOK
  <2> QED BY <1>5, <1>6, <2>1, Then
<1>16. FitsIn(ty, DestOf(ty, bg), k, t)
  <2>1. DestOf(ty, bg)[t] = p
    BY <1>9, <1>15, NewMemory DEF Core
  <2> QED BY <1>12, <1>13, <1>14, <2>1 DEF FitsIn
<1>17. Core(ty, bg, top2, NULL, M)
  <2>1. top[th] # NULL => tx[top[th]].to_thread = th
    BY <1>1, <1>5, <1>7
  <2> QED BY <1>3, <1>4, <1>8, <1>11, <1>12, <1>13, <1>14, <1>15, <1>16, <2>1, CallMade
<1>18. u # NULL => stack[u] # NULL
  <2>1. SUFFICES ASSUME u # NULL
                 PROVE  stack[u] # NULL
    OBVIOUS
  <2>2. PICK U, d : U = Und(tx, bf) /\ d = DestOf(tx, bf)
    OBVIOUS
  <2>3. Typed(tx, top, U) /\ Stacks(tx, top, U, d, NULL)
    BY <1>9, <2>2, MemTyped DEF Core
  <2>4. PICK x \in Above(tx, top[th]) : tx[x].from = u
    BY <1>13, <2>1
  <2>5. PICK s : s = top[th]
    OBVIOUS
  <2>6. s # NULL
    BY <2>4, <2>5, WalkNull DEF Above
  <2>7. tx[s].to_thread = th /\ s \in CallsOf(tx) /\ Leaf(tx, s)
    <3>1. tx[top[th]].to_thread = th
      BY <1>1, <1>5, <1>7, <2>5, <2>6
    <3>2. Leaf(tx, top[th])
      BY <2>3, <2>5, <2>6, <3>1, ServedLeaf
    <3>3. top[th] \in CallsOf(tx)
      BY <2>3, <2>5, <2>6, CallPointers
    <3> QED BY <2>5, <3>1, <3>2, <3>3
  <2>8. u # th /\ u \in Thread
    BY <1>3, <1>4, <1>13, <2>1
  <2>9. top[u] # NULL
    BY <2>3, <2>4, <2>5, <2>7, <2>8, WaitingTop
  <2> QED BY <1>7, <2>8, <2>9
<1> QED BY <1>1, <1>2, <1>6, <1>14, <1>17, <1>18 DEF MemInv
\* A one-way call keeps the shape of memory.
LEMMA OneWayMem ==
    ASSUME Sound, Sound', MemInv, NEW th \in Thread, NEW p \in Proc, NEW t \in Txn, NEW b \in Buf,
           TransactOneWay(th, p, t, b)
    PROVE  MemInv'
<1>1. /\ exiting = NULL /\ exiting' = NULL /\ CanAllocate(th, t, b)
      /\ stack' = stack
      /\ buf' = [buf EXCEPT ![b] = NewBuffer(p, t, p, TRUE)]
      /\ txn' = [txn EXCEPT ![t] = [NoTxn EXCEPT !.kind = "oneway", !.buffer = b]]
      /\ todo' = [todo EXCEPT ![th] = Append(@, COMPLETE)]
  BY DEF TransactOneWay, CanTransact, CanWrite, Running, Unlocked, lockVars
<1>2. \/ async_todo' = [async_todo EXCEPT ![p] = Append(@, t)] /\ proc_todo' = proc_todo
      \/ async_todo' = async_todo /\ proc_todo' = [proc_todo EXCEPT ![p] = Append(@, t)]
  BY DEF TransactOneWay
<1>3. PICK tx, bf, top, L, N : /\ tx = txn /\ bf = buf /\ top = Top /\ L = Lists
                               /\ N = ListOf(todo', proc_todo, async_todo)
  OBVIOUS
<1>4. PICK ty, bg, M : ty = txn' /\ bg = buf' /\ M = Lists'
  OBVIOUS
<1>5. Top' = top
  BY <1>1, <1>3 DEF Top
<1>6. Core(tx, bf, top, NULL, L)
  BY <1>1, <1>3 DEF MemInv
<1>7. COMPLETE \in Work
  BY DEF Work
<1>8. Core(tx, bf, top, NULL, N)
  <2>1. todo'[th] = Append(todo[th], COMPLETE) /\ \A v \in Thread : v # th => todo'[v] = todo[v]
    BY <1>1, Now
  <2>2. \E k : k[1] = "thread" /\ k[2] = th /\ Grown(ListOf(todo, proc_todo, async_todo), ListOf(todo', proc_todo, async_todo), k, COMPLETE)
    BY <2>1, Now, Then, ThreadListGrows
  <2>3. PICK k : Grown(L, N, k, COMPLETE)
    BY <1>3, <2>2 DEF Lists
  <2> QED BY <1>6, <2>3, CompleteQueued
<1>9. PICK k : Grown(N, M, k, t) /\ k[2] = p /\ k[1] \in {"proc", "node"}
  <2>1. CASE async_todo' = async_todo /\ proc_todo' = [proc_todo EXCEPT ![p] = Append(@, t)]
    <3>1. proc_todo'[p] = Append(proc_todo[p], t) /\ (\A v \in Proc : v # p => proc_todo'[v] = proc_todo[v])
      BY <2>1, Now
    <3>2. \E k : k[1] = "proc" /\ k[2] = p /\ Grown(ListOf(todo', proc_todo, async_todo), ListOf(todo', proc_todo', async_todo), k, t)
      BY <3>1, Now, Then, ProcListGrows
    <3> QED BY <1>3, <1>4, <2>1, <3>2 DEF Lists
  <2>2. CASE async_todo' = [async_todo EXCEPT ![p] = Append(@, t)] /\ proc_todo' = proc_todo
    <3>1. async_todo'[p] = Append(async_todo[p], t) /\ (\A v \in Proc : v # p => async_todo'[v] = async_todo[v])
      BY <2>2, Now
    <3>2. \E k : k[1] = "node" /\ k[2] = p /\ Grown(ListOf(todo', proc_todo, async_todo), ListOf(todo', proc_todo, async_todo'), k, t)
      BY <3>1, Now, Then, NodeListGrows
    <3> QED BY <1>3, <1>4, <2>2, <3>2 DEF Lists
  <2> QED BY <1>2, <2>1, <2>2
<1>10. /\ ty[t] = [NoTxn EXCEPT !.kind = "oneway", !.buffer = b] /\ bg[b] = NewBuffer(p, t, p, TRUE)
       /\ (\A x \in Txn : x # t => ty[x] = tx[x]) /\ (\A c \in Buf : c # b => bg[c] = bf[c])
  BY <1>1, <1>3, <1>4 DEF Sound, TypeOK
<1>11. ty[t].kind = "oneway" /\ ty[t].to_thread = NULL /\ ty[t].buffer = b /\ bg[b].allow_user_free = FALSE
  BY <1>10 DEF NoTxn, NewBuffer
<1>12. Made(tx, bf, ty, bg, t, b, p)
  <2>1. b # NULL /\ p # NULL
    BY Distinct
  <2>2. t \in Und(ty, bg)
    BY <1>11, <2>1 DEF Und
  <2>3. TxnOK(ty, bg, t)
    BY <1>10, <2>1, <2>2 DEF TxnOK, NewBuffer, NoTxn
  <2>4. BufOK(bg, b)
    BY <1>10, <2>1 DEF BufOK, NewBuffer
  <2>5. tx[t].kind = "none" /\ bf[b].proc = NULL
    BY <1>1, <1>3 DEF CanAllocate
  <2> QED BY <1>10, <2>3, <2>4, <2>5 DEF Made, NewBuffer, NoTxn
<1>13. MemType(ty, bg, top)
  BY <1>4, <1>5, Then
<1>14. FitsIn(ty, DestOf(ty, bg), k, t)
  <2>1. DestOf(ty, bg)[t] = p
    BY <1>6, <1>12, NewMemory DEF Core
  <2> QED BY <1>9, <1>11, <2>1 DEF FitsIn
<1>15. Core(ty, bg, top, NULL, M)
  BY <1>8, <1>9, <1>11, <1>12, <1>13, <1>14, OtherMade
<1> QED BY <1>1, <1>4, <1>5, <1>15 DEF MemInv

\* The transaction at the head of a list.
LEMMA HeadOfList ==
    ASSUME NEW tx, NEW bf, NEW top, NEW X, NEW L, Core(tx, bf, top, X, L), NEW M, NEW k, Shrunk(L, M, k),
           NEW t, t = Head(L[k]), t # COMPLETE
    PROVE  /\ t \in Txn /\ t \in Und(tx, bf) /\ FitsIn(tx, DestOf(tx, bf), k, t) /\ TxnOK(tx, bf, t)
           /\ tx[t].buffer \in Buf /\ bf[tx[t].buffer].transaction = t
           /\ tx[t].kind \in {"call", "oneway", "reply"}
           /\ t \notin Items(M[k])
           /\ tx[t].kind = "call" => t \in CallsOf(tx)
           /\ k \in ListKeys /\ \A l \in ListKeys : t \in Items(L[l]) => l = k
<1>1. OnLists(L, Und(tx, bf)) /\ Fit(tx, DestOf(tx, bf), L)
  BY DEF Core
<1>2. t \in Items(L[k]) /\ t \in Txn
  BY <1>1, ListShrinks DEF Work
<1>3. t \in Und(tx, bf) /\ FitsIn(tx, DestOf(tx, bf), k, t)
  BY <1>1, <1>2 DEF OnLists, Fit, Shrunk
<1>4. TxnOK(tx, bf, t)
  BY <1>2 DEF Core, MemOK
<1>5. tx[t].buffer \in Buf
  BY <1>2, <1>3, MemFields DEF Core, Und
<1>6. bf[tx[t].buffer].transaction = t
  BY <1>2, <1>5 DEF Core, MemType, Linked
<1>7. tx[t].kind \in {"call", "oneway", "reply"}
  <2>1. tx[t].kind \in {"none", "call", "oneway", "reply"}
    BY <1>2, MemFields DEF Core
  <2>2. tx[t].kind # "none"
    BY <1>3, <1>4 DEF TxnOK, Und
  <2> QED BY <2>1, <2>2
<1>8. t \notin Items(M[k])
  <2>1. OnLists(M, Und(tx, bf) \ {Head(L[k])}) /\ k \in ListKeys
    BY <1>1, ListShrinks DEF Shrunk
  <2> QED BY <1>2, <2>1 DEF OnLists
<1>9. k \in ListKeys /\ \A l \in ListKeys : t \in Items(L[l]) => l = k
  BY <1>1, <1>2 DEF OnLists, Shrunk
<1> QED BY <1>2, <1>3, <1>4, <1>5, <1>6, <1>7, <1>8, <1>9 DEF CallsOf

\* A call that nobody serves or waits to serve any more.
LEMMA LeaveMemory ==
    ASSUME NEW tx, NEW bf, NEW top, MemType(tx, bf, top), NEW top2 \in [Thread -> Txn \cup {NULL}],
           NEW t \in CallsOf(tx)
    PROVE  \E ty, bg : /\ MemType(ty, bg, top2) /\ Left(tx, bf, ty, bg, t)
                       /\ \A c \in Buf : SameBuf(bg, bf, c)
<1>1. t \in Txn /\ tx[t] \in TxnRec /\ tx[t].kind = "call" /\ NULL \notin Txn /\ NULL \notin Buf
  BY Distinct DEF CallsOf, MemType
<1>2. PICK r : /\ r = [tx[t] EXCEPT !.to_thread = NULL, !.to_parent = NULL, !.buffer = NULL]
  OBVIOUS
<1>3. /\ r \in TxnRec /\ r.kind = "call" /\ r.from = tx[t].from /\ r.from_parent = tx[t].from_parent
      /\ r.to_thread = NULL /\ r.to_parent = NULL /\ r.buffer = NULL
  BY <1>1, <1>2 DEF TxnRec
<1>4. PICK ty : ty = [tx EXCEPT ![t] = r]
  OBVIOUS
<1>5. PICK bg : bg = [c \in Buf |-> IF tx[t].buffer = c THEN [bf[c] EXCEPT !.transaction = NULL] ELSE bf[c]]
  OBVIOUS
<1>6. tx \in [Txn -> TxnRec] /\ bf \in [Buf -> BufRec] /\ Linked(tx, bf)
  BY DEF MemType
<1>7. ty \in [Txn -> TxnRec] /\ ty[t] = r /\ \A x \in Txn : x # t => ty[x] = tx[x]
  BY <1>1, <1>3, <1>4, <1>6
<1>8. bg \in [Buf -> BufRec] /\ \A c \in Buf : SameBuf(bg, bf, c) /\ SameBuf(bf, bg, c)
  <2>1. \A c \in Buf : bg[c] \in BufRec
    BY <1>5, <1>6 DEF BufRec
  <2>2. \A c \in Buf : SameBuf(bg, bf, c) /\ SameBuf(bf, bg, c)
    BY <1>5, <1>6 DEF SameBuf, BufRec
  <2> QED BY <1>5, <2>1, <2>2
<1>9. Linked(ty, bg)
  <2>1. \A c \in Buf : bg[c].transaction = IF tx[t].buffer = c THEN NULL ELSE bf[c].transaction
    BY <1>5, <1>6 DEF BufRec
  <2>2. ASSUME NEW x \in Txn, NEW c \in Buf
        PROVE  ty[x].buffer = c <=> bg[c].transaction = x
    <3>1. tx[x].buffer = c <=> bf[c].transaction = x
      BY <1>6 DEF Linked
    <3>2. tx[t].buffer = c <=> bf[c].transaction = t
      BY <1>1, <1>6 DEF Linked
    <3> QED BY <1>1, <1>3, <1>7, <2>1, <3>1, <3>2
  <2>3. \A x \in Txn : ty[x].kind = "none" => ty[x].buffer = NULL
    BY <1>3, <1>6, <1>7 DEF Linked
  <2>4. \A c \in Buf : bg[c].proc = NULL => bg[c].transaction = NULL
    BY <1>6, <1>8, <2>1 DEF Linked, SameBuf
  <2> QED BY <2>2, <2>3, <2>4 DEF Linked
<1>10. MemType(ty, bg, top2)
  BY <1>7, <1>8, <1>9 DEF MemType
<1>11. Left(tx, bf, ty, bg, t)
  BY <1>3, <1>7, <1>8 DEF Left
<1> QED BY <1>8, <1>10, <1>11

\* What no step of binder_send_failed_reply disturbs: the waits of the threads, the
\* threads of the transactions, and the buffers of one-way calls.
Undisturbed ==
    /\ \A w \in Thread : (stack'[w] = stack[w] /\ return_error'[w] = return_error[w]) \/ wait[w] # "proc"
    /\ \A x \in Txn : {txn'[x].from, txn'[x].to_thread} \subseteq {NULL, txn[x].from, txn[x].to_thread}
    /\ \A c \in Buf : SameBuf(buf, buf', c) /\ (buf[c].async => buf'[c].transaction = buf[c].transaction)

\* The buffers of calls are not those of one-way calls.
LEMMA CallBuffer ==
    ASSUME NEW tx, NEW bf, NEW top, NEW X, NEW L, Core(tx, bf, top, X, L),
           NEW c \in Buf, bf[c].async
    PROVE  \A x \in CallsOf(tx) : tx[x].buffer # c
<1> SUFFICES ASSUME NEW x \in CallsOf(tx), tx[x].buffer = c
             PROVE  FALSE
  OBVIOUS
<1>1. TxnOK(tx, bf, x) /\ tx[x].kind = "call" /\ c # NULL
  BY Distinct DEF Core, MemOK, CallsOf
<1> QED BY <1>1 DEF TxnOK

\* th leaves the call on top of its stack.
LEMMA ServedCall ==
    ASSUME Sound, MemInv, exiting = NULL, NEW th \in Thread, Serves(th), NEW r, r = stack[th]
    PROVE  /\ r \in CallsOf(txn)
           /\ \E ty, bg, top2 :
                 /\ Core(ty, bg, top2, NULL, Lists) /\ Leaf(ty, r) /\ r \in CallsOf(ty)
                 /\ Left(txn, buf, ty, bg, r)
                 /\ \A c \in Buf : SameBuf(bg, buf, c)
                 /\ \A w \in Thread : top2[w] = StackAfterReply(th)[w]
<1>1. PICK tx, bf, top, L : tx = txn /\ bf = buf /\ top = Top /\ L = Lists
  OBVIOUS
<1>2. Core(tx, bf, top, NULL, L) /\ MemType(tx, bf, top)
  BY <1>1 DEF MemInv, Core
<1>3. \A w \in Thread : top[w] = stack[w] /\ w # NULL
  BY <1>1, Now, Distinct
<1>4. r # NULL /\ tx[r].to_thread = th /\ top[th] = r
  BY <1>1, <1>3 DEF Serves
<1>5. r \in CallsOf(tx)
  <2>1. PICK U, d : U = Und(tx, bf) /\ d = DestOf(tx, bf)
    OBVIOUS
  <2>2. Typed(tx, top, U) /\ Stacks(tx, top, U, d, NULL)
    BY <1>2, <2>1, MemTyped DEF Core
  <2> QED BY <1>4, <2>2, CallPointers
<1>6. PICK top2 : top2 = StackAfterReply(th)
  OBVIOUS
<1>7. r \in Txn /\ tx[r].to_parent \in Txn \cup {NULL}
  BY <1>2, <1>5, MemFields DEF CallsOf
<1>8. /\ top2 \in [Thread -> Txn \cup {NULL}] /\ top2[th] = tx[r].to_parent
      /\ \A w \in Thread : w # th => top2[w] = top[w]
  BY <1>1, <1>3, <1>6, <1>7 DEF StackAfterReply, Sound, TypeOK
<1>9. PICK ty, bg : MemType(ty, bg, top2) /\ Left(tx, bf, ty, bg, r) /\ \A c \in Buf : SameBuf(bg, bf, c)
  BY <1>2, <1>5, <1>8, LeaveMemory
<1>10. Core(ty, bg, top2, NULL, L) /\ Leaf(ty, r) /\ r \in CallsOf(ty)
  BY <1>2, <1>4, <1>5, <1>8, <1>9, CallPopped
<1> QED BY <1>1, <1>5, <1>6, <1>9, <1>10

\* A failed reply keeps the shape of memory, and no assertion fails.
LEMMA ReplyErrorMem ==
    ASSUME Sound, Sound', MemInv, ErrorInv, NoStaleWait, NoBug, NEW th \in Thread, CanWrite(th), Serves(th),
           NEW code \in {"DEAD", "FAILED"}, ReplyError(th, code)
    PROVE  MemInv' /\ ErrorInv' /\ NoBug' /\ Undisturbed
<1>1. /\ exiting = NULL /\ exiting' = NULL /\ return_error[th] = "OK" /\ wait[th] = "no"
      /\ todo' = todo /\ proc_todo' = proc_todo /\ async_todo' = async_todo
      /\ bug = "none" /\ Lists' = Lists
  BY DEF CanWrite, Running, Unlocked, ReplyError, nodeVars, lockVars, NoBug, Lists
<1>2. PICK r, stk, re : r = stack[th] /\ stk = StackAfterReply(th) /\ re = [return_error EXCEPT ![th] = "COMPLETE"]
  OBVIOUS
<1>3. /\ r \in CallsOf(txn)
      /\ \E ty, bg, top2 :
            /\ Core(ty, bg, top2, NULL, Lists) /\ Leaf(ty, r) /\ r \in CallsOf(ty)
            /\ Left(txn, buf, ty, bg, r)
            /\ \A c \in Buf : SameBuf(bg, buf, c)
            /\ \A w \in Thread : top2[w] = StackAfterReply(th)[w]
  BY <1>1, <1>2, ServedCall
<1>4. PICK ty, bg, top2 :
            /\ Core(ty, bg, top2, NULL, Lists) /\ Leaf(ty, r) /\ r \in CallsOf(ty)
            /\ Left(txn, buf, ty, bg, r)
            /\ \A c \in Buf : SameBuf(bg, buf, c)
            /\ \A w \in Thread : top2[w] = stk[w]
  BY <1>2, <1>3
<1>5. /\ r \in Txn /\ txn[r].kind = "call"
      /\ txn[r].from = ty[r].from /\ txn[r].from_parent = ty[r].from_parent
      /\ ty[r].to_thread = NULL /\ ty[r].buffer = NULL
      /\ \A x \in Txn : x # r => txn[x] = ty[x]
  BY <1>3, <1>4 DEF Left, CallsOf
<1>6. /\ stk \in [Thread -> Txn \cup {NULL}] /\ re \in [Thread -> Errors] /\ return_error2 \in [Thread -> Errors]
      /\ \A c \in Buf : buf[c] \in BufRec
  <2>1. txn[r].to_parent \in Txn \cup {NULL}
    BY <1>5, Now, MemFields
  <2> QED BY <1>2, <2>1 DEF StackAfterReply, Sound, TypeOK, Errors
<1>7. \A w \in Thread : w # NULL /\ top2[w] = IF w = NULL THEN NULL ELSE stk[w]
  BY <1>4, Distinct
<1>8. Room(ty, top2, re, return_error2)
  <2>1. return_error2[th] = "OK"
    BY <1>1 DEF ErrorInv, Room
  <2>2. \A w \in Thread : w # th => re[w] = return_error[w] /\ top2[w] = Top[w]
    BY <1>1, <1>2, <1>4, <1>7, Now DEF StackAfterReply, Sound, TypeOK
  <2>3. \A x \in Txn : ty[x].from = txn[x].from
    BY <1>5
  <2>4. \A w \in Thread : top2[w] \in Txn \cup {NULL}
    BY <1>4, MemFields DEF Core
  <2> QED BY <2>1, <2>2, <2>3, <2>4 DEF ErrorInv, Room
<1>9. binder_send_failed_reply(r, code, txn, buf, stk, re) /\ code \in Errors \ {"OK"}
  BY <1>2 DEF ReplyError, Errors
<1>10. PICK top3 : top3 = Top'
  OBVIOUS
<1>11. MemType(txn', buf', top3) /\ \A w \in Thread : top3[w] = IF w = NULL THEN NULL ELSE stack'[w]
  BY <1>1, <1>10, Then
<1>12. /\ Core(txn', buf', top3, NULL, Lists)
       /\ Room(txn', top3, return_error', return_error2')
       /\ bug' = "none"
       /\ \A w \in Thread : (stack'[w] = stk[w] /\ return_error'[w] = re[w]) \/ top2[w] # NULL
       /\ \A x \in Txn : txn'[x] \in {NoTxn, ty[x]}
       /\ \A c \in Buf : /\ SameBuf(bg, buf', c)
                         /\ (\A x \in CallsOf(ty) : txn[x].buffer # c) =>
                               buf'[c].transaction = buf[c].transaction
  <2>1. PICK n, Li : n = NULL /\ Li = Lists
    OBVIOUS
  <2>2. Core(ty, bg, top2, n, Li) /\ \A w \in Thread : top2[w] = IF w = n THEN NULL ELSE stk[w]
    BY <1>4, <1>7, <2>1
  <2>3. \A w \in Thread : top3[w] = IF w = n THEN NULL ELSE stack'[w]
    BY <1>11, <2>1
  <2>4. ty[r].to_thread = NULL /\ ty[r].buffer = NULL /\ r \in CallsOf(ty) /\ Leaf(ty, r)
    BY <1>4, <1>5
  <2>5. \A c \in Buf : SameBuf(bg, buf, c) /\ buf[c] \in BufRec
    BY <1>4, <1>6
  <2>6. /\ Core(txn', buf', top3, n, Li)
        /\ Room(txn', top3, return_error', return_error2')
        /\ bug' = "none"
        /\ \A w \in Thread : (stack'[w] = stk[w] /\ return_error'[w] = re[w]) \/ top2[w] # NULL
        /\ \A x \in Txn : txn'[x] \in {NoTxn, ty[x]}
        /\ \A c \in Buf : /\ SameBuf(bg, buf', c)
                          /\ (\A x \in CallsOf(ty) : txn[x].buffer # c) =>
                                buf'[c].transaction = buf[c].transaction
    BY <1>1, <1>5, <1>6, <1>8, <1>9, <1>11, <2>2, <2>3, <2>4, <2>5, SendFailed
  <2> QED BY <2>1, <2>6
<1>13. MemInv' /\ ErrorInv' /\ NoBug'
  BY <1>1, <1>10, <1>12 DEF MemInv, ErrorInv, NoBug
<1>14. \A w \in Thread : (stack'[w] = stack[w] /\ return_error'[w] = return_error[w]) \/ wait[w] # "proc"
  <2>1. \A w \in Thread : w # th => re[w] = return_error[w] /\ top2[w] = stack[w] /\ stk[w] = stack[w]
    BY <1>2, <1>4, <1>7 DEF StackAfterReply, Sound, TypeOK
  <2> QED BY <1>1, <1>12, <2>1 DEF NoStaleWait
<1>15. \A x \in Txn : {txn'[x].from, txn'[x].to_thread} \subseteq {NULL, txn[x].from, txn[x].to_thread}
  <2>1. NoTxn.from = NULL /\ NoTxn.to_thread = NULL
    BY DEF NoTxn
  <2> QED BY <1>5, <1>12, <2>1
<1>16. \A c \in Buf : SameBuf(buf, buf', c) /\ (buf[c].async => buf'[c].transaction = buf[c].transaction)
  <2>1. CallsOf(ty) = CallsOf(txn)
    BY <1>4, <1>5 DEF CallsOf
  <2>2. \A c \in Buf : buf[c].async => \A x \in CallsOf(txn) : txn[x].buffer # c
    BY CallBuffer DEF MemInv
  <2>3. \A c \in Buf : SameBuf(buf, buf', c)
    BY <1>4, <1>12 DEF SameBuf
  <2> QED BY <1>12, <2>1, <2>2, <2>3
<1> QED BY <1>13, <1>14, <1>15, <1>16 DEF Undisturbed

\* The chain of a failed reply ends at once when the caller is there.
LEMMA AnsweredChain ==
    ASSUME NEW tx, NEW r \in Txn, tx[r].from # NULL, \A x \in Txn : tx[x].from_parent \in Txn \cup {NULL}
    PROVE  FailedChain(r, tx) = {r}
<1> DEFINE next == [x \in Txn |-> IF tx[x].from = NULL THEN tx[x].from_parent ELSE NULL]
<1>1. next \in Pointers /\ next[r] = NULL
  BY DEF Pointers
<1> HIDE DEF next
<1>2. Walk(r, next) = {r} \cup Walk(NULL, next)
  BY <1>1, WalkFirst
<1> QED BY <1>2, WalkNull DEF FailedChain, next

\* A reply keeps the shape of memory, its caller has the call on top, and nothing but
\* the two threads and the transaction it answers changes.
LEMMA ReplyMem ==
    ASSUME Sound, Sound', MemInv, ErrorInv, NoStaleWait, NoBug,
           NEW th \in Thread, NEW t \in Txn, NEW b \in Buf, Reply(th, t, b)
    PROVE  /\ MemInv' /\ ErrorInv' /\ NoBug'
           /\ \E r \in Txn, u \in Thread :
                 /\ u = txn[r].from /\ u # th /\ wait[u] # "proc"
                 /\ \A w \in Thread : w \notin {u, th} => stack'[w] = stack[w] /\ todo'[w] = todo[w]
                 /\ \A x \in Txn : x # t => txn'[x] \in {txn[x], NoTxn}
                 /\ txn'[t].from = NULL /\ txn'[t].to_thread = u
                 /\ return_error' = return_error
                 /\ \A c \in Buf : IF c = b THEN ~buf[c].async /\ ~buf'[c].async
                                   ELSE /\ SameBuf(buf, buf', c)
                                        /\ buf[c].async => buf'[c].transaction = buf[c].transaction
<1>1. PICK r, u : r = stack[th] /\ u = txn[r].from
  OBVIOUS
<1>2. /\ exiting = NULL /\ exiting' = NULL /\ return_error[th] = "OK" /\ wait[th] = "no"
      /\ Serves(th) /\ u # NULL /\ CanAllocate(th, t, b)
      /\ proc_todo' = proc_todo /\ async_todo' = async_todo /\ return_error2' = return_error2
  BY <1>1 DEF Reply, CanWrite, Running, Unlocked, nodeVars, lockVars
<1>3. PICK stk, tx, bf, top, L : stk = StackAfterReply(th) /\ tx = txn /\ bf = buf /\ top = Top /\ L = Lists
  OBVIOUS
<1>4. r \in CallsOf(tx) /\ Core(tx, bf, top, NULL, L) /\ MemType(tx, bf, top)
  BY <1>1, <1>2, <1>3, ServedCall DEF MemInv, Core
<1>5. PICK ty, bg, top1 :
            /\ Core(ty, bg, top1, NULL, L) /\ Leaf(ty, r) /\ r \in CallsOf(ty)
            /\ Left(tx, bf, ty, bg, r)
            /\ \A c \in Buf : SameBuf(bg, bf, c)
            /\ \A w \in Thread : top1[w] = stk[w]
  BY <1>1, <1>2, <1>3, ServedCall
<1>6. /\ r \in Txn /\ tx[r].kind = "call" /\ r # NULL /\ r # t
      /\ tx[r].from = ty[r].from /\ tx[r].from_parent = ty[r].from_parent
      /\ ty[r].to_thread = NULL /\ ty[r].buffer = NULL
      /\ \A x \in Txn : x # r => tx[x] = ty[x]
  BY <1>2, <1>3, <1>4, <1>5, Distinct DEF Left, CallsOf, CanAllocate
<1>7. /\ u \in Thread /\ u = tx[r].from /\ u = ty[r].from
      /\ tx[r].from_parent \in Txn \cup {NULL} /\ tx[r].to_parent \in Txn \cup {NULL}
      /\ \A x \in Txn : ty[x].from_parent \in Txn \cup {NULL}
  <2>1. u \in Thread /\ u = tx[r].from /\ u = ty[r].from
        /\ tx[r].from_parent \in Txn \cup {NULL} /\ tx[r].to_parent \in Txn \cup {NULL}
    BY <1>1, <1>2, <1>3, <1>4, <1>6, MemFields
  <2>2. \A x \in Txn : ty[x].from_parent \in Txn \cup {NULL}
    BY <1>5, MemFields DEF Core
  <2> QED BY <2>1, <2>2
<1>8. FailedChain(r, ty) = {r}
  BY <1>2, <1>6, <1>7, AnsweredChain
<1>9. stk[u] = r
  <2>1. PICK U, d : U = Und(ty, bg) /\ d = DestOf(ty, bg)
    OBVIOUS
  <2>2. Typed(ty, top1, U) /\ Stacks(ty, top1, U, d, NULL)
    BY <1>5, <2>1, MemTyped DEF Core
  <2>3. r \notin U
    BY <1>6, <2>1 DEF Und
  <2>4. top1[ty[r].from] = r
    BY <1>2, <1>5, <1>6, <1>7, <1>8, <2>2, <2>3, FailedChainShape
  <2> QED BY <1>5, <1>7, <2>4
<1>10. u # th /\ stack[u] = r /\ tx[r].to_thread = th
       /\ (tx[r].from_parent # NULL => tx[tx[r].from_parent].from # u)
  <2>1. Apart(tx) /\ Parents(tx, Und(tx, bf))
    BY <1>4 DEF Core, Stacks
  <2>2. tx[r].to_thread = th /\ th # NULL
    BY <1>1, <1>2, <1>3, Distinct DEF Serves
  <2>3. u # th
    BY <1>2, <1>4, <1>7, <2>1, <2>2 DEF Apart
  <2>4. stack[u] = r
    BY <1>3, <1>7, <1>9, <2>3 DEF StackAfterReply, Sound, TypeOK
  <2>5. tx[r].from_parent # NULL => tx[tx[r].from_parent].from # u
    <3>1. tx[r].from_parent # NULL => tx[r].from_parent \in CallsOf(tx) /\ tx[tx[r].from_parent].to_thread = u
      BY <1>4, <1>7, <2>1 DEF Parents
    <3> QED BY <1>2, <2>1, <3>1 DEF Apart
  <2> QED BY <2>2, <2>3, <2>4, <2>5
<1>11. /\ stack' = [stk EXCEPT ![u] = tx[r].from_parent]
       /\ txn' = [Kfree(tx, {r}) EXCEPT ![t] = [NoTxn EXCEPT !.kind = "reply", !.to_thread = u, !.buffer = b]]
       /\ buf' = [Detach(bf, tx, {r}) EXCEPT ![b] = NewBuffer(ProcOf[u], t, NULL, FALSE)]
       /\ todo' = [[todo EXCEPT ![u] = Append(@, t)] EXCEPT ![th] = Append(@, COMPLETE)]
       /\ return_error' = return_error /\ bug' = bug
  BY <1>1, <1>3, <1>9 DEF Reply, BugOn
<1>12. PICK tm, bm : tm = Kfree(tx, {r}) /\ bm = Detach(bf, tx, {r})
  OBVIOUS
<1>13. PICK top2 : top2 = Top'
  OBVIOUS
<1>14. /\ \A x \in Txn : tm[x] = IF x = r THEN NoTxn ELSE tx[x]
       /\ tm \in [Txn -> TxnRec] /\ bm \in [Buf -> BufRec] /\ Linked(tm, bm)
       /\ \A c \in Buf : SameBuf(bf, bm, c) /\ (tx[r].buffer # c => bm[c] = bf[c])
  <2>1. Linked(tm, bm)
    <3>1. {r} \in SUBSET Txn /\ tx \in [Txn -> TxnRec] /\ bf \in [Buf -> BufRec] /\ Linked(tx, bf)
      BY <1>4, <1>6 DEF MemType
    <3> QED BY <1>12, <3>1, FreeKeepsInverse
  <2>2. tm \in [Txn -> TxnRec] /\ bm \in [Buf -> BufRec]
    BY <1>4, <1>12, MemoryType DEF MemType
  <2>3. \A x \in Txn : tm[x] = IF x = r THEN NoTxn ELSE tx[x]
    BY <1>12 DEF Kfree
  <2>4. \A c \in Buf : SameBuf(bf, bm, c) /\ (tx[r].buffer # c => bm[c] = bf[c])
    <3>1. \A c \in Buf : bf[c] \in BufRec
      BY <1>4 DEF MemType
    <3> QED BY <1>12, <3>1 DEF Detach, SameBuf, BufRec
  <2> QED BY <2>1, <2>2, <2>3, <2>4
<1>15. /\ top2 \in [Thread -> Txn \cup {NULL}] /\ top2[u] = tx[r].from_parent
       /\ \A w \in Thread : w # u => top2[w] = top1[w]
       /\ top2[th] = tx[r].to_parent
       /\ \A w \in Thread : w # u /\ w # th => top2[w] = top[w] /\ stack'[w] = stack[w]
       /\ \A w \in Thread : top2[w] = stack'[w]
  <2>1. \A w \in Thread : top2[w] = stack'[w] /\ top[w] = stack[w]
    BY <1>2, <1>3, <1>13, Now, Then, Distinct
  <2>2. /\ stk \in [Thread -> Txn \cup {NULL}] /\ stk[th] = tx[r].to_parent
        /\ \A w \in Thread : w # th => stk[w] = stack[w]
    BY <1>1, <1>3, <1>7 DEF StackAfterReply, Sound, TypeOK
  <2>3. top2 \in [Thread -> Txn \cup {NULL}]
    BY <1>13, Then DEF MemType
  <2>4. stack'[u] = tx[r].from_parent /\ \A w \in Thread : w # u => stack'[w] = stk[w]
    BY <1>7, <1>11, <2>2
  <2>5. top2[u] = tx[r].from_parent /\ \A w \in Thread : w # u => top2[w] = top1[w]
    BY <1>5, <1>7, <2>1, <2>4
  <2>6. top2[th] = tx[r].to_parent
    BY <1>10, <2>1, <2>2, <2>4
  <2>7. \A w \in Thread : w # u /\ w # th => top2[w] = top[w] /\ stack'[w] = stack[w]
    BY <2>1, <2>2, <2>4
  <2> QED BY <2>1, <2>3, <2>5, <2>6, <2>7
<1>16. Core(tm, bm, top2, NULL, L)
  <2>1. MemType(tm, bm, top2)
    BY <1>14, <1>15 DEF MemType
  <2>2. PICK F : F = {r}
    OBVIOUS
  <2>3. Gone(ty, bg, tm, bm, F)
    <3>1. \A x \in Txn : tm[x] = IF x \in F THEN NoTxn ELSE ty[x]
      BY <1>6, <1>14, <2>2
    <3>2. \A c \in Buf : SameBuf(bg, bm, c)
      BY <1>5, <1>14 DEF SameBuf
    <3> QED BY <3>1, <3>2 DEF Gone, SameBuf
  <2>4. r \in F /\ ty[r].from = u /\ top2[u] = ty[r].from_parent
    BY <1>6, <1>7, <1>15, <2>2
  <2>5. F = FailedChain(r, ty)
    BY <1>8, <2>2
  <2> QED BY <1>2, <1>5, <1>6, <1>7, <1>15, <2>1, <2>3, <2>4, <2>5, CallFailed
<1>17. PICK tz, bz : tz = txn' /\ bz = buf'
  OBVIOUS
<1>18. /\ tz[t] = [NoTxn EXCEPT !.kind = "reply", !.to_thread = u, !.buffer = b]
       /\ \A x \in Txn : x # t => tz[x] = tm[x]
       /\ bz[b] = NewBuffer(ProcOf[u], t, NULL, FALSE)
       /\ \A c \in Buf : c # b => bz[c] = bm[c]
  BY <1>11, <1>12, <1>14, <1>17
<1>19. /\ tz[t].kind = "reply" /\ tz[t].to_thread = u /\ tz[t].buffer = b /\ tz[t].from = NULL
       /\ tz[t].from_parent = NULL /\ tz[t].to_parent = NULL
       /\ bz[b].proc = ProcOf[u] /\ bz[b].allow_user_free = FALSE /\ bz[b].target_node = NULL
       /\ bz[b].async = FALSE
  BY <1>18 DEF NoTxn, NewBuffer
<1>20. tx[t].kind = "none" /\ bf[b].proc = NULL /\ ProcOf[u] \in Proc /\ b # NULL /\ ProcOf[u] # NULL
  BY <1>2, <1>3, <1>7, ProcOfType, Distinct DEF CanAllocate
<1>21. Made(tm, bm, tz, bz, t, b, ProcOf[u])
  <2>1. t \in Und(tz, bz)
    BY <1>19, <1>20 DEF Und
  <2>2. TxnOK(tz, bz, t) /\ BufOK(bz, b)
    BY <1>2, <1>19, <1>20, <2>1 DEF TxnOK, BufOK
  <2>3. tm[t].kind = "none" /\ bm[b].proc = NULL
    BY <1>6, <1>14, <1>20 DEF SameBuf
  <2> QED BY <1>18, <1>19, <1>20, <2>2, <2>3 DEF Made
<1>22. PICK td : td = [todo EXCEPT ![u] = Append(@, t)]
  OBVIOUS
<1>23. PICK M, N : M = Lists' /\ N = ListOf(td, proc_todo, async_todo)
  OBVIOUS
<1>24. td \in [Thread -> Seq(Work)] /\ t \in Work /\ COMPLETE \in Work
  BY <1>7, <1>22, Now DEF Work
<1>25. PICK k : k[1] = "thread" /\ k[2] = u /\ Grown(L, N, k, t)
  <2>1. td[u] = Append(todo[u], t) /\ \A v \in Thread : v # u => td[v] = todo[v]
    BY <1>7, <1>22, Now
  <2>2. \E k : k[1] = "thread" /\ k[2] = u /\ Grown(ListOf(todo, proc_todo, async_todo), ListOf(td, proc_todo, async_todo), k, t)
    BY <1>7, <1>24, <2>1, Now, ThreadListGrows
  <2> QED BY <1>3, <1>23, <2>2 DEF Lists
<1>26. PICK l : Grown(N, M, l, COMPLETE)
  <2>1. todo'[th] = Append(td[th], COMPLETE) /\ \A v \in Thread : v # th => todo'[v] = td[v]
    BY <1>11, <1>22, <1>24
  <2>2. \E l : l[1] = "thread" /\ l[2] = th /\ Grown(ListOf(td, proc_todo, async_todo), ListOf(todo', proc_todo, async_todo), l, COMPLETE)
    BY <1>24, <2>1, Now, Then, ThreadListGrows
  <2> QED BY <1>2, <1>23, <2>2 DEF Lists
<1>27. Core(tz, bz, top2, NULL, N)
  <2>1. MemType(tz, bz, top2)
    BY <1>13, <1>17, Then
  <2>2. DestOf(tz, bz)[t] = ProcOf[u]
    BY <1>16, <1>21, NewMemory DEF Core
  <2>3. FitsIn(tz, DestOf(tz, bz), k, t)
    BY <1>19, <1>25, <2>2 DEF FitsIn
  <2> QED BY <1>16, <1>19, <1>21, <1>25, <2>1, <2>3, OtherMade
<1>28. MemInv'
  <2>1. Core(tz, bz, top2, NULL, M)
    BY <1>26, <1>27, CompleteQueued
  <2> QED BY <1>2, <1>13, <1>17, <1>23, <2>1 DEF MemInv
<1>29. \A x \in Txn : tz[x].from \in {NULL, tx[x].from}
  <2>1. NoTxn.from = NULL
    BY DEF NoTxn
  <2> QED BY <1>14, <1>18, <1>19, <2>1
<1>30. ErrorInv'
  <2>1. \A w \in Thread : w # NULL /\ top2[w] \in Txn \cup {NULL}
    BY <1>15, Distinct
  <2>2. return_error2[th] = "OK"
    BY <1>2 DEF ErrorInv, Room
  <2>3. ASSUME NEW w \in Thread, w # u, w # th
        PROVE  top2[w] # NULL /\ tz[top2[w]].from = w => return_error2[w] = "OK"
    BY <1>3, <1>15, <1>29, <2>1, <2>3 DEF ErrorInv, Room
  <2>4. top2[u] # NULL => tz[top2[u]].from # u
    BY <1>2, <1>7, <1>10, <1>15, <1>29, <2>1
  <2>5. \A w \in Thread : return_error2[w] # "OK" => return_error[w] # "OK"
    BY DEF ErrorInv, Room
  <2>6. Room(tz, top2, return_error, return_error2)
    BY <2>2, <2>3, <2>4, <2>5 DEF Room
  <2> QED BY <1>2, <1>11, <1>13, <1>17, <2>6 DEF ErrorInv
<1>31. \A c \in Buf : IF c = b THEN ~buf[c].async /\ ~buf'[c].async
                      ELSE /\ SameBuf(buf, buf', c)
                           /\ buf[c].async => buf'[c].transaction = buf[c].transaction
  <2>1. ~bf[b].async
    <3>1. BufOK(bf, b)
      BY <1>4 DEF Core, MemOK
    <3> QED BY <1>20, <3>1 DEF BufOK
  <2>2. \A c \in Buf : bf[c].async => tx[r].buffer # c
    BY <1>4, CallBuffer
  <2>3. ASSUME NEW c \in Buf, c # b
        PROVE  SameBuf(buf, buf', c) /\ (buf[c].async => buf'[c].transaction = buf[c].transaction)
    <3>1. bz[c] = bm[c] /\ SameBuf(bf, bm, c) /\ (bf[c].async => bm[c] = bf[c])
      BY <1>14, <1>18, <2>2, <2>3
    <3>2. SameBuf(bf, bz, c)
      BY <3>1 DEF SameBuf
    <3> QED BY <1>3, <1>17, <3>1, <3>2
  <2> QED BY <1>3, <1>17, <1>19, <2>1, <2>3
<1>32. \A w \in Thread : w \notin {u, th} => todo'[w] = todo[w]
  BY <1>11, Now
<1>33. wait[u] # "proc"
  BY <1>6, <1>7, <1>10 DEF NoStaleWait
<1>34. \A x \in Txn : x # t => txn'[x] \in {txn[x], NoTxn}
  BY <1>3, <1>14, <1>17, <1>18
<1>35. NoBug'
  BY <1>11 DEF NoBug
<1>36. u = txn[r].from /\ r \in Txn /\ u \in Thread
  BY <1>1, <1>6, <1>7
<1>37. /\ u = txn[r].from /\ u # th /\ wait[u] # "proc"
       /\ \A w \in Thread : w \notin {u, th} => stack'[w] = stack[w] /\ todo'[w] = todo[w]
       /\ \A x \in Txn : x # t => txn'[x] \in {txn[x], NoTxn}
       /\ txn'[t].from = NULL /\ txn'[t].to_thread = u
       /\ return_error' = return_error
  BY <1>10, <1>11, <1>15, <1>17, <1>19, <1>32, <1>33, <1>34, <1>36
<1> QED BY <1>28, <1>30, <1>31, <1>35, <1>36, <1>37

\* What a delivery may do to the transactions and buffers.
DeliveryOf(th, t) ==
    /\ \A w \in Thread : w # th => stack'[w] = stack[w]
    /\ \A x \in Txn : txn'[x].from \in {NULL, txn[x].from} /\ txn'[x].to_thread \in {NULL, txn[x].to_thread, th}
    /\ \A c \in Buf : /\ buf'[c].target_node = buf[c].target_node /\ buf'[c].async = buf[c].async
                      /\ \/ SameBuf(buf, buf', c) /\ buf'[c].transaction = buf[c].transaction
                         \/ ~buf[c].async
                         \/ buf[c].transaction = t /\ buf'[c].transaction = NULL /\ buf'[c].allow_user_free

\* The delivery of a transaction keeps the shape of memory, and finds its buffer.
LEMMA DeliverMem ==
    ASSUME Sound, Sound', MemInv, ErrorInv, NoBug, exiting = NULL, exiting' = NULL,
           NEW th \in Thread, NEW k, Shrunk(Lists, Lists', k),
           NEW t, t = Head(Lists[k]), t # COMPLETE,
           (k[1] = "thread" /\ k[2] = th) \/ (k[1] = "proc" /\ k[2] = ProcOf[th] /\ stack[th] = NULL),
           Deliver(th, t), return_error' = return_error, return_error2' = return_error2
    PROVE  MemInv' /\ ErrorInv' /\ NoBug' /\ DeliveryOf(th, t)
<1>1. PICK tx, bf, top, L, M : tx = txn /\ bf = buf /\ top = Top /\ L = Lists /\ M = Lists'
  OBVIOUS
<1>2. PICK ty, bg, top2 : ty = txn' /\ bg = buf' /\ top2 = Top'
  OBVIOUS
<1>3. Core(tx, bf, top, NULL, L) /\ Shrunk(L, M, k) /\ t = Head(L[k])
  BY <1>1 DEF MemInv
<1>4. /\ t \in Txn /\ t \in Und(tx, bf) /\ TxnOK(tx, bf, t)
      /\ tx[t].buffer \in Buf /\ bf[tx[t].buffer].transaction = t
      /\ tx[t].kind \in {"call", "oneway", "reply"}
      /\ tx[t].kind = "call" => t \in CallsOf(tx)
  BY <1>3, HeadOfList
<1>5. PICK b : b = tx[t].buffer
  OBVIOUS
<1>6. /\ b \in Buf /\ b # NULL /\ th # NULL
      /\ bf[b].target_node = NULL <=> tx[t].kind = "reply"
      /\ bf[b].async <=> tx[t].kind = "oneway"
  BY <1>4, <1>5, Distinct DEF TxnOK
<1>7. \A w \in Thread : top[w] = stack[w] /\ top2[w] = stack'[w] /\ w # NULL
  BY <1>1, <1>2, Now, Then, Distinct
<1>8. MemType(ty, bg, top2) /\ bf[b] \in BufRec /\ tx[t] \in TxnRec /\ tx \in [Txn -> TxnRec] /\ bf \in [Buf -> BufRec]
  BY <1>2, <1>3, <1>4, <1>6, Then DEF Core, MemType
<1>9. bug' = "none"
  BY <1>1, <1>5, <1>6 DEF Deliver, BugOn, NoBug
<1>10. CASE tx[t].kind = "call"
  <2>1. /\ bg = [bf EXCEPT ![b].allow_user_free = TRUE, ![b].transaction = @]
        /\ ty = [tx EXCEPT ![t].to_parent = stack[th], ![t].to_thread = th]
        /\ stack' = [stack EXCEPT ![th] = t]
    BY <1>1, <1>2, <1>5, <1>6, <1>10 DEF Deliver
  <2>2. /\ \A x \in Txn : x # t => ty[x] = tx[x]
        /\ ty[t].kind = "call" /\ ty[t].from = tx[t].from /\ ty[t].from_parent = tx[t].from_parent
        /\ ty[t].buffer = tx[t].buffer /\ ty[t].to_thread = th /\ ty[t].to_parent = top[th]
    BY <1>4, <1>7, <1>8, <1>10, <2>1 DEF TxnRec
  <2>3. /\ \A c \in Buf : c # b => SameBuf(bf, bg, c) /\ bg[c] = bf[c]
        /\ bg[b].proc = bf[b].proc /\ bg[b].target_node = bf[b].target_node
        /\ bg[b].async = bf[b].async /\ bg[b].allow_user_free = TRUE
    BY <1>6, <1>8, <2>1 DEF BufRec, SameBuf
  <2>4. top2[th] = t /\ \A v \in Thread : v # th => top2[v] = top[v] /\ stack'[v] = stack[v]
    BY <1>7, <2>1 DEF Sound, TypeOK
  <2>5. Core(ty, bg, top2, NULL, M)
    <3>1. (k[1] = "thread" /\ k[2] = th) \/ (k[1] = "proc" /\ k[2] = ProcOf[th] /\ top[th] = NULL)
      BY <1>7
    <3>2. Handed(tx, bf, ty, bg, t, b, th, top[th])
      BY <1>5, <2>2, <2>3 DEF Handed
    <3>3. t \in CallsOf(tx) /\ MemType(ty, bg, top2) /\ th # NULL
      BY <1>4, <1>6, <1>8, <1>10
    <3>4. top2[th] = t /\ \A v \in Thread : v # th => top2[v] = top[v]
      BY <2>4
    <3>5. PICK n : n = NULL
      OBVIOUS
    <3>6. Core(tx, bf, top, n, L) /\ Shrunk(L, M, k) /\ t = Head(L[k]) /\ th # n
      BY <1>3, <3>3, <3>5
    <3>7. Core(ty, bg, top2, n, M)
      BY <1>5, <3>1, <3>2, <3>3, <3>4, <3>6, CallDelivered
    <3> QED BY <3>5, <3>7
  <2>6. ty[t].from # th
    <3>1. Apart(ty) /\ t \in CallsOf(ty)
      BY <1>4, <2>2, <2>5 DEF Core, Stacks, CallsOf
    <3> QED BY <1>6, <2>2, <3>1 DEF Apart
  <2>7. Room(ty, top2, return_error, return_error2)
    <3>1. \A w \in Thread : top[w] \in Txn \cup {NULL}
      BY <1>3, MemFields DEF Core
    <3>2. \A x \in Txn : ty[x].from = tx[x].from
      BY <2>2
    <3> QED BY <1>1, <1>7, <2>4, <2>6, <3>1, <3>2 DEF ErrorInv, Room
  <2>8. \A x \in Txn : txn'[x].from \in {NULL, txn[x].from} /\ txn'[x].to_thread \in {NULL, txn[x].to_thread, th}
    BY <1>1, <1>2, <2>2
  <2>9. \A c \in Buf : /\ buf'[c].target_node = buf[c].target_node /\ buf'[c].async = buf[c].async
                       /\ (SameBuf(buf, buf', c) /\ buf'[c].transaction = buf[c].transaction) \/ ~buf[c].async
    BY <1>1, <1>2, <1>6, <1>10, <2>3
  <2> QED BY <1>1, <1>2, <1>9, <2>4, <2>5, <2>7, <2>8, <2>9 DEF MemInv, ErrorInv, NoBug, DeliveryOf
<1>11. CASE tx[t].kind # "call"
  <2>1. /\ bg = [bf EXCEPT ![b].allow_user_free = TRUE, ![b].transaction = NULL]
        /\ ty = Kfree(tx, {t}) /\ stack' = stack
    BY <1>1, <1>2, <1>4, <1>5, <1>6, <1>11 DEF Deliver
  <2>2. /\ \A x \in Txn : ty[x] = IF x \in {t} THEN NoTxn ELSE tx[x]
        /\ NoTxn.from = NULL /\ NoTxn.to_thread = NULL
    BY <2>1 DEF Kfree, NoTxn
  <2>3. /\ \A c \in Buf : c # b => bg[c] = bf[c]
        /\ bg[b].proc = bf[b].proc /\ bg[b].target_node = bf[b].target_node
        /\ bg[b].async = bf[b].async /\ bg[b].allow_user_free = TRUE /\ bg[b].transaction = NULL
    BY <1>6, <1>8, <2>1 DEF BufRec
  <2>4. top2 = top
    <3>1. Top' = Top
      BY <2>1 DEF Top
    <3> QED BY <1>1, <1>2, <3>1
  <2>5. Gone(tx, bf, ty, bg, {t})
    BY <1>5, <2>2, <2>3 DEF Gone
  <2>6. Core(ty, bg, top, NULL, M)
    BY <1>3, <1>4, <1>8, <1>11, <2>4, <2>5, OtherGone
  <2>7. \A x \in Txn : ty[x].from \in {NULL, tx[x].from} /\ ty[x].to_thread \in {NULL, tx[x].to_thread}
    BY <2>2
  <2>8. Room(ty, top, return_error, return_error2)
    <3>1. \A w \in Thread : top[w] \in Txn \cup {NULL}
      BY <1>3, MemFields DEF Core
    <3> QED BY <1>1, <1>7, <2>7, <3>1 DEF ErrorInv, Room
  <2>9. \A c \in Buf : c # b => SameBuf(buf, buf', c) /\ buf'[c].transaction = buf[c].transaction
                               /\ buf'[c].target_node = buf[c].target_node /\ buf'[c].async = buf[c].async
    BY <1>1, <1>2, <2>3 DEF SameBuf
  <2>10. /\ buf[b].transaction = t /\ buf'[b].transaction = NULL /\ buf'[b].allow_user_free
         /\ buf'[b].target_node = buf[b].target_node /\ buf'[b].async = buf[b].async
    BY <1>1, <1>2, <1>4, <1>5, <2>3
  <2>11. DeliveryOf(th, t)
    BY <1>1, <1>2, <2>1, <2>7, <2>9, <2>10 DEF DeliveryOf
  <2> QED BY <1>1, <1>2, <1>9, <2>4, <2>6, <2>8, <2>11 DEF MemInv, ErrorInv, NoBug
<1> QED BY <1>10, <1>11

-----------------------------------------------------------------------------
(* Threads and processes that go *)

\* The calls that the loop over the stack of th finds: those it serves and those it made.
LEMMA ActiveCalls ==
    ASSUME NEW tx, NEW bf, NEW top, NEW X, NEW L, Core(tx, bf, top, X, L), NEW th \in Thread,
           NEW A, A = Walk(top[th], Under(tx, th))
    PROVE  /\ {x \in A : tx[x].to_thread = th} = {c \in CallsOf(tx) : tx[c].to_thread = th /\ c \notin Und(tx, bf)}
           /\ {x \in A : tx[x].to_thread # th} = {c \in CallsOf(tx) : tx[c].from = th}
           /\ \A c \in CallsOf(tx) : tx[c].from = th => tx[c].to_thread # th
<1>1. PICK U, d : U = Und(tx, bf) /\ d = DestOf(tx, bf)
  OBVIOUS
<1>2. Typed(tx, top, U) /\ Stacks(tx, top, U, d, X)
  BY <1>1, MemTyped DEF Core
<1>3. A \subseteq On(tx, U, th)
  BY <1>2, StackAbove DEF Stacks
<1>4. A = On(tx, U, th)
  BY <1>2, <1>3 DEF Stacks, Reached
<1>5. \A c \in CallsOf(tx) : tx[c].from = th => tx[c].to_thread # th
  BY <1>2, Distinct DEF Stacks, Apart
<1> QED BY <1>1, <1>4, <1>5 DEF On

\* The transactions of A forget their thread, and those of in their buffer.
Abandons(tx, bf, ty, bg, ins, A) ==
    /\ \A x \in Txn : /\ ty[x] \in TxnRec /\ ty[x].kind = tx[x].kind
                      /\ ty[x].from_parent = tx[x].from_parent /\ ty[x].to_parent = tx[x].to_parent
                      /\ x \in ins => ty[x].from = tx[x].from /\ ty[x].to_thread = NULL /\ ty[x].buffer = NULL
                      /\ x \in A \ ins => /\ ty[x].from = NULL /\ ty[x].to_thread = tx[x].to_thread
                                         /\ ty[x].buffer = tx[x].buffer
                      /\ x \notin A => ty[x] = tx[x]
    /\ ty \in [Txn -> TxnRec] /\ bg \in [Buf -> BufRec]
    /\ \A c \in Buf : /\ SameBuf(bf, bg, c) /\ bg[c] \in BufRec
                      /\ (\E x \in ins : tx[x].buffer = c) => bg[c].transaction = NULL
                      /\ (\A x \in ins : tx[x].buffer # c) => bg[c].transaction = bf[c].transaction

\* The new transactions and buffers of binder_free_thread have the form Abandons ...
LEMMA AbandonForm ==
    ASSUME NEW tx, tx \in [Txn -> TxnRec], NEW bf, bf \in [Buf -> BufRec], NEW A, NEW ins, ins \subseteq A,
           NEW ty, ty = [x \in Txn |->
                            IF x \in ins THEN [tx[x] EXCEPT !.to_thread = NULL, !.buffer = NULL]
                            ELSE IF x \in A THEN [tx[x] EXCEPT !.from = NULL]
                            ELSE tx[x]],
           NEW bg, bg = Detach(bf, tx, ins)
    PROVE  Abandons(tx, bf, ty, bg, ins, A)
<1>1. ASSUME NEW x \in Txn
      PROVE  /\ ty[x] \in TxnRec /\ ty[x].kind = tx[x].kind
             /\ ty[x].from_parent = tx[x].from_parent /\ ty[x].to_parent = tx[x].to_parent
             /\ x \in ins => ty[x].from = tx[x].from /\ ty[x].to_thread = NULL /\ ty[x].buffer = NULL
             /\ x \in A \ ins => /\ ty[x].from = NULL /\ ty[x].to_thread = tx[x].to_thread
                                /\ ty[x].buffer = tx[x].buffer
             /\ x \notin A => ty[x] = tx[x]
  <2>1. tx[x] \in TxnRec
    OBVIOUS
  <2>2. CASE x \in ins
    <3>1. ty[x] = [tx[x] EXCEPT !.to_thread = NULL, !.buffer = NULL] /\ x \in A
      BY <2>2
    <3> QED BY <2>1, <2>2, <3>1 DEF TxnRec
  <2>3. CASE x \in A \ ins
    <3>1. ty[x] = [tx[x] EXCEPT !.from = NULL]
      BY <2>3
    <3> QED BY <2>1, <2>3, <3>1 DEF TxnRec
  <2>4. CASE x \notin A
    <3>1. ty[x] = tx[x]
      BY <2>4
    <3> QED BY <2>1, <2>4, <3>1 DEF TxnRec
  <2> QED BY <2>2, <2>3, <2>4
<1>2. ASSUME NEW c \in Buf
      PROVE  /\ SameBuf(bf, bg, c) /\ bg[c] \in BufRec
             /\ (\E x \in ins : tx[x].buffer = c) => bg[c].transaction = NULL
             /\ (\A x \in ins : tx[x].buffer # c) => bg[c].transaction = bf[c].transaction
  <2>1. bf[c] \in BufRec
    OBVIOUS
  <2> QED BY <2>1 DEF Detach, SameBuf, BufRec
<1>3. ty \in [Txn -> TxnRec] /\ bg \in [Buf -> BufRec]
  BY <1>1, <1>2 DEF Detach
<1> QED BY <1>1, <1>2, <1>3 DEF Abandons

\* ... which keeps transactions and buffers in step.
LEMMA AbandonLinked ==
    ASSUME NEW tx, NEW bf, NEW ty, NEW bg, NEW A \in SUBSET Txn, NEW ins \in SUBSET A,
           Linked(tx, bf), Abandons(tx, bf, ty, bg, ins, A)
    PROVE  Linked(ty, bg)
<1>1. NULL \notin Buf /\ NULL \notin Txn
  BY Distinct
<1>2. \A x, y \in Txn, c \in Buf : tx[x].buffer = c /\ tx[y].buffer = c => x = y
  BY DEF Linked
<1>3. \A x \in Txn : ty[x].kind = tx[x].kind /\ (x \in ins => ty[x].buffer = NULL) /\ (x \notin ins => ty[x].buffer = tx[x].buffer)
  BY DEF Abandons
<1>4. \A c \in Buf : /\ bg[c].proc = bf[c].proc
                     /\ (\E x \in ins : tx[x].buffer = c) => bg[c].transaction = NULL
                     /\ (\A x \in ins : tx[x].buffer # c) => bg[c].transaction = bf[c].transaction
  BY DEF Abandons, SameBuf
<1>5. ASSUME NEW t \in Txn, NEW b \in Buf
      PROVE ty[t].buffer = b <=> bg[b].transaction = t
  <2>1. tx[t].buffer = b <=> bf[b].transaction = t
    BY DEF Linked
  <2>2. CASE \E x \in ins : tx[x].buffer = b
    <3>1. PICK x \in ins : tx[x].buffer = b
      BY <2>2
    <3>2. bg[b].transaction = NULL
      BY <1>4, <2>2
    <3>3. ty[t].buffer # b
      BY <1>1, <1>2, <1>3, <3>1
    <3> QED BY <1>1, <3>2, <3>3
  <2>3. CASE \A x \in ins : tx[x].buffer # b
    <3>1. bg[b].transaction = bf[b].transaction
      BY <1>4, <2>3
    <3>2. CASE t \in ins
      BY <1>1, <1>3, <2>1, <2>3, <3>1, <3>2
    <3>3. CASE t \notin ins
      BY <1>3, <2>1, <3>1, <3>3
    <3> QED BY <3>2, <3>3
  <2> QED BY <2>2, <2>3
<1>6. \A t \in Txn : ty[t].kind = "none" => ty[t].buffer = NULL
  BY <1>3 DEF Linked
<1>7. \A b \in Buf : bg[b].proc = NULL => bg[b].transaction = NULL
  BY <1>4 DEF Linked
<1> QED BY <1>5, <1>6, <1>7 DEF Linked

\* Those of the calls A that th serves.
ServedOf(tx, A, th) == {x \in A : tx[x].to_thread = th}

\* The thread th leaves the calls A of its stack, and those of in to nobody.
Abandonment(tx, bf, top, L, th, A, ins, ty, bg, top2) ==
    /\ Core(tx, bf, top, NULL, L)
    /\ A = Walk(top[th], Under(tx, th))
    /\ ins = ServedOf(tx, A, th)
    /\ Abandons(tx, bf, ty, bg, ins, A)
    /\ top2 \in [Thread -> Txn \cup {NULL}] /\ top2[th] = NULL
    /\ \A v \in Thread : v # th => top2[v] = top[v]

\* What that leaves.
Forsaken(tx, bf, top, L, th, A, ins, ty, bg, top2) ==
    /\ Core(ty, bg, top2, th, L)
    /\ top[th] \in ins =>
          /\ top[th] \in CallsOf(ty) /\ Leaf(ty, top[th])
          /\ ty[top[th]].to_thread = NULL /\ ty[top[th]].buffer = NULL
    /\ \A x \in A \ ins : tx[x].from = th
    /\ \A x \in Txn : /\ ty[x].from \in {NULL, tx[x].from} /\ ty[x].to_thread \in {NULL, tx[x].to_thread}
                      /\ ty[x].buffer \in {NULL, tx[x].buffer} /\ ty[x].kind = tx[x].kind
    /\ \A c \in Buf : /\ SameBuf(bf, bg, c) /\ bg[c] \in BufRec
                      /\ bf[c].async => bg[c].transaction = bf[c].transaction

\* A thread that leaves its stack leaves the other stacks as they should be.
LEMMA Abandoned ==
    ASSUME NEW tx, NEW bf, NEW top, NEW L, NEW th \in Thread, NEW A, NEW ins, NEW ty, NEW bg, NEW top2,
           Abandonment(tx, bf, top, L, th, A, ins, ty, bg, top2)
    PROVE  Forsaken(tx, bf, top, L, th, A, ins, ty, bg, top2)
<1>a. /\ Core(tx, bf, top, NULL, L) /\ A = Walk(top[th], Under(tx, th)) /\ ins = ServedOf(tx, A, th)
      /\ Abandons(tx, bf, ty, bg, ins, A)
  BY DEF Abandonment
<1>b. /\ top2 \in [Thread -> Txn \cup {NULL}] /\ top2[th] = NULL
      /\ \A v \in Thread : v # th => top2[v] = top[v]
  BY DEF Abandonment
<1>1. /\ {x \in A : tx[x].to_thread = th} = {c \in CallsOf(tx) : tx[c].to_thread = th /\ c \notin Und(tx, bf)}
      /\ {x \in A : tx[x].to_thread # th} = {c \in CallsOf(tx) : tx[c].from = th}
      /\ \A c \in CallsOf(tx) : tx[c].from = th => tx[c].to_thread # th
  BY <1>a, ActiveCalls
<1>2. \A x : x \in ins <=> x \in CallsOf(tx) /\ tx[x].to_thread = th /\ x \notin Und(tx, bf)
  BY <1>a, <1>1 DEF ServedOf
<1>3. \A x : x \in A \ ins <=> x \in CallsOf(tx) /\ tx[x].from = th
  <2>1. \A x : x \in A \ ins <=> x \in {y \in A : tx[y].to_thread # th}
    BY <1>a DEF ServedOf
  <2> QED BY <1>1, <2>1
<1>4. CallsOf(tx) \subseteq Txn /\ (\A c \in CallsOf(tx) : tx[c].kind = "call") /\ ins \subseteq A /\ A \subseteq CallsOf(tx)
  <2>1. ins \subseteq A
    BY <1>a DEF ServedOf
  <2> QED BY <1>2, <1>3, <2>1 DEF CallsOf
<1>5. MemType(ty, bg, top2)
  <2>1. Linked(ty, bg)
    BY <1>a, <1>4, AbandonLinked DEF Core, MemType
  <2> QED BY <1>a, <1>b, <2>1 DEF MemType, Abandons
<1>6. \A c \in CallsOf(tx) : LeavesCall(tx, bf, ty, th, c)
  <2>1. ASSUME NEW c \in CallsOf(tx)
        PROVE  LeavesCall(tx, bf, ty, th, c)
    <3>1. /\ c \in Txn /\ ty[c].kind = "call"
          /\ ty[c].from_parent = tx[c].from_parent /\ ty[c].to_parent = tx[c].to_parent
      BY <1>a, <1>4 DEF Abandons
    <3>2. CASE c \in ins
      <4>1. ty[c].from = tx[c].from /\ ty[c].to_thread = NULL /\ ty[c].buffer = NULL
        BY <1>a, <3>1, <3>2 DEF Abandons
      <4>2. tx[c].to_thread = th /\ c \notin Und(tx, bf) /\ tx[c].from # th
        BY <1>1, <1>2, <3>2
      <4> QED BY <3>1, <4>1, <4>2 DEF LeavesCall
    <3>3. CASE c \in A \ ins
      <4>1. ty[c].from = NULL /\ ty[c].to_thread = tx[c].to_thread /\ ty[c].buffer = tx[c].buffer
        BY <1>a, <3>1, <3>3 DEF Abandons
      <4>2. tx[c].from = th /\ ~(tx[c].to_thread = th /\ c \notin Und(tx, bf))
        BY <1>2, <1>3, <3>3
      <4> QED BY <3>1, <4>1, <4>2 DEF LeavesCall
    <3>4. CASE c \notin A
      <4>1. ty[c] = tx[c]
        BY <1>a, <3>1, <3>4 DEF Abandons
      <4>2. tx[c].from # th /\ ~(tx[c].to_thread = th /\ c \notin Und(tx, bf))
        BY <1>2, <1>3, <1>4, <3>4
      <4> QED BY <3>1, <4>1, <4>2 DEF LeavesCall
    <3> QED BY <3>2, <3>3, <3>4
  <2> QED BY <2>1
<1>7. \A x \in Txn : x \notin CallsOf(tx) => ty[x] = tx[x]
  BY <1>a, <1>4 DEF Abandons
<1>8. \A c \in Buf : SameBuf(bf, bg, c) /\ bg[c] \in BufRec
  BY <1>a DEF Abandons
<1>9. /\ Core(ty, bg, top2, th, L)
      /\ top[th] # NULL /\ tx[top[th]].to_thread = th =>
            /\ top[th] \in CallsOf(ty) /\ Leaf(ty, top[th])
            /\ ty[top[th]].to_thread = NULL /\ ty[top[th]].buffer = NULL
  <2> QED BY <1>a, <1>b, <1>5, <1>6, <1>7, <1>8, ThreadLeft
<1>10. top[th] \in ins => top[th] # NULL /\ tx[top[th]].to_thread = th
  BY <1>2, <1>4, NullTxn
<1>11. \A x \in A \ ins : tx[x].from = th
  BY <1>3
<1>12. \A c \in Buf : bf[c].async => bg[c].transaction = bf[c].transaction
  <2>1. \A c \in Buf : bf[c].async => \A x \in ins : tx[x].buffer # c
    BY <1>a, <1>2, CallBuffer
  <2> QED BY <1>a, <2>1 DEF Abandons
<1>13. \A x \in Txn : /\ ty[x].from \in {NULL, tx[x].from} /\ ty[x].to_thread \in {NULL, tx[x].to_thread}
                       /\ ty[x].buffer \in {NULL, tx[x].buffer} /\ ty[x].kind = tx[x].kind
  BY <1>a, <1>4 DEF Abandons
<1> QED BY <1>8, <1>9, <1>10, <1>11, <1>12, <1>13 DEF Forsaken

\* binder_free_thread up to the release of the todo list.
LEMMA StartFreeMem ==
    ASSUME Sound, Sound', MemInv, ErrorInv, NoStaleWait, NoBug, exiting = NULL,
           NEW th \in Thread, StartFreeThread(th)
    PROVE  MemInv' /\ ErrorInv' /\ NoBug' /\ Undisturbed
<1>1. PICK tx, bf, top, L, n : tx = txn /\ bf = buf /\ top = Top /\ L = Lists /\ n = NULL
  OBVIOUS
<1>2. Core(tx, bf, top, n, L) /\ \A w \in Thread : top[w] = stack[w]
  <2>1. \A w \in Thread : w # NULL
    BY Distinct
  <2> QED BY <1>1, <2>1, Now DEF MemInv
<1>3. PICK A : A = ActiveTransactions(th)
  OBVIOUS
<1>4. A = Walk(top[th], Under(tx, th))
  BY <1>1, <1>2, <1>3 DEF ActiveTransactions, Under
<1>5. PICK ins : ins = {x \in A : tx[x].to_thread = th}
  OBVIOUS
<1>6. PICK ty : ty = [x \in Txn |->
                        IF x \in ins THEN [tx[x] EXCEPT !.to_thread = NULL, !.buffer = NULL]
                        ELSE IF x \in A THEN [tx[x] EXCEPT !.from = NULL]
                        ELSE tx[x]]
  OBVIOUS
<1>7. PICK bg : bg = Detach(bf, tx, ins)
  OBVIOUS
<1>8. Abandons(tx, bf, ty, bg, ins, A)
  <2>1. tx \in [Txn -> TxnRec] /\ bf \in [Buf -> BufRec]
    BY <1>2 DEF Core, MemType
  <2>2. ins \subseteq A
    BY <1>5
  <2> QED BY <1>6, <1>7, <2>1, <2>2, AbandonForm
<1>9. PICK top2 : top2 = [w \in Thread |-> IF w = th THEN NULL ELSE stack[w]]
  OBVIOUS
<1>10. /\ top2 \in [Thread -> Txn \cup {NULL}] /\ top2[th] = NULL
       /\ \A v \in Thread : v # th => top2[v] = top[v] /\ top2[v] = stack[v]
  BY <1>2, <1>9 DEF Sound, TypeOK
<1>11. /\ Core(ty, bg, top2, th, L)
       /\ top[th] \in ins =>
             /\ top[th] \in CallsOf(ty) /\ Leaf(ty, top[th])
             /\ ty[top[th]].to_thread = NULL /\ ty[top[th]].buffer = NULL
       /\ \A x \in A \ ins : tx[x].from = th
       /\ \A x \in Txn : /\ ty[x].from \in {NULL, tx[x].from} /\ ty[x].to_thread \in {NULL, tx[x].to_thread}
                         /\ ty[x].buffer \in {NULL, tx[x].buffer} /\ ty[x].kind = tx[x].kind
       /\ \A c \in Buf : /\ SameBuf(bf, bg, c) /\ bg[c] \in BufRec
                         /\ bf[c].async => bg[c].transaction = bf[c].transaction
  <2>1. n = NULL /\ Core(tx, bf, top, n, L)
    BY <1>1, <1>2
  <2>2. top2 \in [Thread -> Txn \cup {NULL}] /\ top2[th] = NULL
    BY <1>10
  <2>3. \A v \in Thread : v # th => top2[v] = top[v]
    BY <1>10
  <2>4. ins = ServedOf(tx, A, th)
    BY <1>5 DEF ServedOf
  <2>5. Abandonment(tx, bf, top, L, th, A, ins, ty, bg, top2)
    BY <1>4, <1>8, <2>1, <2>2, <2>3, <2>4 DEF Abandonment
  <2>6. Forsaken(tx, bf, top, L, th, A, ins, ty, bg, top2)
    BY <2>5, Abandoned
  <2> QED BY <2>6 DEF Forsaken
<1>12. /\ exiting' = th /\ Lists' = Lists
       /\ \/ stack[th] \in ins /\ binder_send_failed_reply(stack[th], "DEAD", ty, bg, stack, return_error)
          \/ /\ txn' = ty /\ buf' = bg /\ bug' = bug
             /\ stack' = stack /\ return_error' = return_error /\ return_error2' = return_error2
  <2>1. ~\E x \in A \ ins : txn[x].from # th
    BY <1>1, <1>11
  <2>2. /\ ins = {x \in A : txn[x].to_thread = th}
        /\ ty = [x \in Txn |->
                        IF x \in ins THEN [txn[x] EXCEPT !.to_thread = NULL, !.buffer = NULL]
                        ELSE IF x \in A THEN [txn[x] EXCEPT !.from = NULL]
                        ELSE txn[x]]
        /\ bg = Detach(buf, txn, ins)
    BY <1>1, <1>5, <1>6, <1>7
  <2>3. /\ exiting' = th /\ todo' = todo /\ proc_todo' = proc_todo /\ async_todo' = async_todo
    BY DEF StartFreeThread, nodeVars
  <2>4. \/ stack[th] \in ins /\ binder_send_failed_reply(stack[th], "DEAD", ty, bg, stack, return_error)
        \/ /\ txn' = ty /\ buf' = bg /\ bug' = bug
           /\ stack' = stack /\ return_error' = return_error /\ return_error2' = return_error2
    BY <1>3, <2>1, <2>2 DEF StartFreeThread
  <2> QED BY <2>3, <2>4 DEF Lists
<1>13. PICK top3 : top3 = Top'
  OBVIOUS
<1>14. MemType(txn', buf', top3) /\ \A w \in Thread : top3[w] = IF w = th THEN NULL ELSE stack'[w]
  BY <1>12, <1>13, Then
<1>15. Room(ty, top2, return_error, return_error2)
  <2>1. \A w \in Thread : top[w] \in Txn \cup {NULL} /\ w # NULL
    BY <1>2, Distinct, MemFields DEF Core
  <2> QED BY <1>1, <1>10, <1>11, <2>1 DEF ErrorInv, Room
<1>16. \A w \in Thread : wait[w] = "proc" => stack[w] = NULL
  BY DEF NoStaleWait
<1>17. \A c \in Buf : buf[c].async => \A x \in CallsOf(ty) : ty[x].buffer # c
  <2>1. \A c \in Buf : bf[c].async => \A x \in CallsOf(tx) : tx[x].buffer # c
    BY <1>2, CallBuffer
  <2>2. \A x \in CallsOf(ty) : x \in CallsOf(tx) /\ ty[x].buffer \in {NULL, tx[x].buffer}
    BY <1>11 DEF CallsOf
  <2>3. \A c \in Buf : c # NULL
    BY Distinct
  <2> QED BY <1>1, <2>1, <2>2, <2>3
<1>18. CASE /\ txn' = ty /\ buf' = bg /\ bug' = bug
            /\ stack' = stack /\ return_error' = return_error /\ return_error2' = return_error2
  <2>1. top3 = top2
    BY <1>9, <1>12, <1>13, <1>18 DEF Top
  <2>2. MemInv' /\ ErrorInv' /\ NoBug'
    BY <1>1, <1>11, <1>12, <1>13, <1>15, <1>18, <2>1 DEF MemInv, ErrorInv, NoBug
  <2>3. \A x \in Txn : {txn'[x].from, txn'[x].to_thread} \subseteq {NULL, txn[x].from, txn[x].to_thread}
    BY <1>1, <1>11, <1>18
  <2>4. \A c \in Buf : SameBuf(buf, buf', c) /\ (buf[c].async => buf'[c].transaction = buf[c].transaction)
    BY <1>1, <1>11, <1>18
  <2> QED BY <1>18, <2>2, <2>3, <2>4 DEF Undisturbed
<1>19. CASE stack[th] \in ins /\ binder_send_failed_reply(stack[th], "DEAD", ty, bg, stack, return_error)
  <2>1. PICK s, stk, re, code : s = stack[th] /\ stk = stack /\ re = return_error /\ code = "DEAD"
    OBVIOUS
  <2>2. /\ s \in CallsOf(ty) /\ Leaf(ty, s) /\ ty[s].to_thread = NULL /\ ty[s].buffer = NULL /\ ty[s].kind = "call"
        /\ s = top[th]
    <3>1. top[th] = stack[th]
      BY <1>2
    <3>2. top[th] \in ins
      BY <1>19, <3>1
    <3> QED BY <1>11, <2>1, <3>1, <3>2 DEF CallsOf
  <2>3. binder_send_failed_reply(s, code, ty, bg, stk, re) /\ code \in Errors \ {"OK"}
    BY <1>19, <2>1 DEF Errors
  <2>4. /\ stk \in [Thread -> Txn \cup {NULL}] /\ re \in [Thread -> Errors] /\ return_error2 \in [Thread -> Errors]
        /\ \A w \in Thread : top2[w] = IF w = th THEN NULL ELSE stk[w]
        /\ Room(ty, top2, re, return_error2) /\ bug = "none"
    BY <1>10, <1>15, <2>1 DEF Sound, TypeOK, NoBug
  <2>5. \A c \in Buf : SameBuf(bg, bg, c) /\ bg[c] \in BufRec
    BY <1>11 DEF SameBuf
  <2>6. /\ Core(txn', buf', top3, th, L)
        /\ Room(txn', top3, return_error', return_error2')
        /\ bug' = "none"
        /\ \A w \in Thread : (stack'[w] = stk[w] /\ return_error'[w] = re[w]) \/ top2[w] # NULL
        /\ \A x \in Txn : txn'[x] \in {NoTxn, ty[x]}
        /\ \A c \in Buf : /\ SameBuf(bg, buf', c)
                          /\ (\A x \in CallsOf(ty) : ty[x].buffer # c) =>
                                buf'[c].transaction = bg[c].transaction
    BY <1>11, <1>14, <2>2, <2>3, <2>4, <2>5, SendFailed
  <2>7. MemInv' /\ ErrorInv' /\ NoBug'
    BY <1>1, <1>12, <1>13, <2>6 DEF MemInv, ErrorInv, NoBug
  <2>8. \A w \in Thread : (stack'[w] = stack[w] /\ return_error'[w] = return_error[w]) \/ wait[w] # "proc"
    BY <1>10, <1>16, <2>1, <2>6
  <2>9. \A x \in Txn : {txn'[x].from, txn'[x].to_thread} \subseteq {NULL, txn[x].from, txn[x].to_thread}
    <3>1. NoTxn.from = NULL /\ NoTxn.to_thread = NULL
      BY DEF NoTxn
    <3> QED BY <1>1, <1>11, <2>6, <3>1
  <2>10. \A c \in Buf : SameBuf(buf, buf', c) /\ (buf[c].async => buf'[c].transaction = buf[c].transaction)
    <3>1. \A c \in Buf : SameBuf(buf, buf', c)
      BY <1>1, <1>11, <2>6 DEF SameBuf
    <3> QED BY <1>1, <1>11, <1>17, <2>6, <3>1
  <2> QED BY <2>7, <2>8, <2>9, <2>10 DEF Undisturbed
<1> QED BY <1>12, <1>18, <1>19

-----------------------------------------------------------------------------
(* binder_release_work *)

\* The process a list belongs to.
HomeOf(k) == IF k[1] = "thread" THEN ProcOf[k[2]] ELSE k[2]

\* What the release of the item w of list k does not disturb.
Spares(k, w) ==
    /\ \A v \in Thread : (stack'[v] = stack[v] /\ return_error'[v] = return_error[v]) \/ wait[v] # "proc"
    /\ \A x \in Txn : {txn'[x].from, txn'[x].to_thread} \subseteq {NULL, txn[x].from, txn[x].to_thread}
    /\ \A c \in Buf : /\ SameBuf(buf, buf', c)
                      /\ buf[c].async /\ buf'[c].transaction # buf[c].transaction =>
                            buf'[c].transaction = NULL /\ buf[c].transaction = w /\ buf[c].proc = HomeOf(k)

\* A call that is released from a list fails, and the shape of memory is kept.
LEMMA ReleaseCallMem ==
    ASSUME Sound, Sound', MemInv, ErrorInv, NoStaleWait, NoBug, exiting' = exiting,
           NEW k, Shrunk(Lists, Lists', k), NEW w, w = Head(Lists[k]), w # COMPLETE, txn[w].kind = "call",
           binder_send_failed_reply(w, "DEAD", txn, buf, stack, return_error)
    PROVE  MemInv' /\ ErrorInv' /\ NoBug' /\ Spares(k, w)
<1>1. PICK tx, bf, top, L, M, X : tx = txn /\ bf = buf /\ top = Top /\ L = Lists /\ M = Lists' /\ X = exiting
  OBVIOUS
<1>2. Core(tx, bf, top, X, L) /\ Shrunk(L, M, k) /\ w = Head(L[k])
  BY <1>1 DEF MemInv
<1>3. w \in Txn /\ w \in CallsOf(tx) /\ tx[w].kind = "call"
  <2>1. tx[w].kind = "call"
    BY <1>1
  <2> QED BY <1>2, <2>1, HeadOfList
<1>4. MemType(tx, bf, top) /\ top \in [Thread -> Txn \cup {NULL}]
  BY <1>2 DEF Core, MemType
<1>5. PICK ty, bg : MemType(ty, bg, top) /\ Left(tx, bf, ty, bg, w) /\ \A c \in Buf : SameBuf(bg, bf, c)
  BY <1>3, <1>4, LeaveMemory
<1>6. Core(ty, bg, top, X, M) /\ Leaf(ty, w) /\ w \in CallsOf(ty)
  BY <1>2, <1>3, <1>5, CallUnqueued
<1>7. /\ tx[w].from = ty[w].from /\ tx[w].from_parent = ty[w].from_parent
      /\ ty[w].to_thread = NULL /\ ty[w].buffer = NULL
      /\ \A x \in Txn : x # w => tx[x] = ty[x]
  BY <1>5 DEF Left
<1>8. PICK stk, re, code : stk = stack /\ re = return_error /\ code = "DEAD"
  OBVIOUS
<1>9. /\ stk \in [Thread -> Txn \cup {NULL}] /\ re \in [Thread -> Errors] /\ return_error2 \in [Thread -> Errors]
      /\ code \in Errors \ {"OK"} /\ bug = "none"
  BY <1>8 DEF Sound, TypeOK, Errors, NoBug
<1>10. \A v \in Thread : top[v] = IF v = X THEN NULL ELSE stk[v]
  BY <1>1, <1>8, Now
<1>11. Room(ty, top, re, return_error2)
  <2>1. \A x \in Txn : ty[x].from = tx[x].from
    BY <1>7
  <2>2. \A v \in Thread : top[v] \in Txn \cup {NULL}
    BY <1>4
  <2> QED BY <1>1, <1>8, <2>1, <2>2 DEF ErrorInv, Room
<1>12. binder_send_failed_reply(w, code, tx, bf, stk, re)
  BY <1>1, <1>8
<1>13. PICK top3 : top3 = Top'
  OBVIOUS
<1>14. MemType(txn', buf', top3) /\ \A v \in Thread : top3[v] = IF v = X THEN NULL ELSE stack'[v]
  BY <1>1, <1>13, Then
<1>15. \A c \in Buf : SameBuf(bg, bf, c) /\ bf[c] \in BufRec
  BY <1>4, <1>5 DEF MemType
<1>16. /\ Core(txn', buf', top3, X, M)
       /\ Room(txn', top3, return_error', return_error2')
       /\ bug' = "none"
       /\ \A v \in Thread : (stack'[v] = stk[v] /\ return_error'[v] = re[v]) \/ top[v] # NULL
       /\ \A x \in Txn : txn'[x] \in {NoTxn, ty[x]}
       /\ \A c \in Buf : /\ SameBuf(bg, buf', c)
                         /\ (\A x \in CallsOf(ty) : tx[x].buffer # c) =>
                               buf'[c].transaction = bf[c].transaction
  BY <1>3, <1>6, <1>7, <1>9, <1>10, <1>11, <1>12, <1>14, <1>15, SendFailed
<1>17. MemInv' /\ ErrorInv' /\ NoBug'
  BY <1>1, <1>13, <1>16 DEF MemInv, ErrorInv, NoBug
<1>18. \A v \in Thread : (stack'[v] = stack[v] /\ return_error'[v] = return_error[v]) \/ wait[v] # "proc"
  <2>1. \A v \in Thread : wait[v] = "proc" => stk[v] = NULL
    BY <1>8 DEF NoStaleWait
  <2> QED BY <1>8, <1>10, <1>16, <2>1
<1>19. \A x \in Txn : {txn'[x].from, txn'[x].to_thread} \subseteq {NULL, txn[x].from, txn[x].to_thread}
  <2>1. NoTxn.from = NULL /\ NoTxn.to_thread = NULL
    BY DEF NoTxn
  <2> QED BY <1>1, <1>7, <1>16, <2>1
<1>20. \A c \in Buf : SameBuf(buf, buf', c) /\ (buf[c].async => buf'[c].transaction = buf[c].transaction)
  <2>1. CallsOf(ty) = CallsOf(tx)
    BY <1>3, <1>6, <1>7 DEF CallsOf
  <2>2. \A c \in Buf : bf[c].async => \A x \in CallsOf(tx) : tx[x].buffer # c
    BY <1>2, CallBuffer
  <2>3. \A c \in Buf : SameBuf(bf, buf', c)
    BY <1>5, <1>16 DEF SameBuf
  <2> QED BY <1>1, <1>16, <2>1, <2>2, <2>3
<1> QED BY <1>17, <1>18, <1>19, <1>20 DEF Spares

\* A reply or one-way call that is released from a list is freed, likewise.
LEMMA ReleaseOtherMem ==
    ASSUME Sound, Sound', MemInv, ErrorInv, NoStaleWait, NoBug, exiting' = exiting,
           NEW k, Shrunk(Lists, Lists', k), NEW w, w = Head(Lists[k]), w # COMPLETE, txn[w].kind # "call",
           txn' = Kfree(txn, {w}), buf' = Detach(buf, txn, {w}), stack' = stack,
           return_error' = return_error, return_error2' = return_error2, bug' = bug
    PROVE  MemInv' /\ ErrorInv' /\ NoBug' /\ Spares(k, w)
<1>1. PICK tx, bf, top, L, M, X : tx = txn /\ bf = buf /\ top = Top /\ L = Lists /\ M = Lists' /\ X = exiting
  OBVIOUS
<1>2. PICK ty, bg, b : ty = txn' /\ bg = buf' /\ b = tx[w].buffer
  OBVIOUS
<1>3. Core(tx, bf, top, X, L) /\ Shrunk(L, M, k) /\ w = Head(L[k]) /\ tx[w].kind # "call"
  BY <1>1 DEF MemInv
<1>4. /\ w \in Txn /\ FitsIn(tx, DestOf(tx, bf), k, w) /\ b \in Buf /\ bf[b].transaction = w /\ k \in ListKeys
  BY <1>2, <1>3, HeadOfList
<1>5. /\ \A x \in Txn : ty[x] = IF x \in {w} THEN NoTxn ELSE tx[x]
      /\ NoTxn.from = NULL /\ NoTxn.to_thread = NULL
  BY <1>1, <1>2 DEF Kfree, NoTxn
<1>6. \A c \in Buf : /\ SameBuf(bf, bg, c)
                     /\ c # b => bg[c].transaction = bf[c].transaction
                     /\ c = b => bg[c].transaction = NULL
  <2>1. \A c \in Buf : bf[c] \in BufRec
    BY <1>3 DEF Core, MemType
  <2>2. \A c \in Buf : bg[c] = IF b = c THEN [bf[c] EXCEPT !.transaction = NULL] ELSE bf[c]
    BY <1>1, <1>2 DEF Detach
  <2> QED BY <2>1, <2>2 DEF SameBuf, BufRec
<1>7. Gone(tx, bf, ty, bg, {w})
  BY <1>5, <1>6 DEF Gone, SameBuf
<1>8. Top' = Top
  BY DEF Top
<1>9. MemType(ty, bg, top)
  BY <1>1, <1>2, <1>8, Then
<1>10. Core(ty, bg, top, X, M)
  BY <1>3, <1>4, <1>7, <1>9, OtherGone
<1>11. Room(ty, top, return_error, return_error2)
  <2>1. \A x \in Txn : ty[x].from \in {NULL, tx[x].from}
    BY <1>5
  <2>2. \A v \in Thread : top[v] \in Txn \cup {NULL} /\ v # NULL
    BY <1>3, Distinct DEF Core, MemType
  <2> QED BY <1>1, <2>1, <2>2 DEF ErrorInv, Room
<1>12. MemInv' /\ ErrorInv' /\ NoBug'
  BY <1>1, <1>2, <1>8, <1>10, <1>11 DEF MemInv, ErrorInv, NoBug
<1>13. bf[b].proc = HomeOf(k)
  <2>1. DestOf(tx, bf)[w] = bf[b].proc
    BY <1>2, <1>4, Distinct DEF DestOf
  <2>2. k[1] \in {"thread", "proc", "node"}
    BY <1>4 DEF ListKeys
  <2> QED BY <1>4, <2>1, <2>2 DEF FitsIn, HomeOf
<1>14. \A c \in Buf : /\ SameBuf(buf, buf', c)
                      /\ buf'[c].transaction # buf[c].transaction =>
                            buf'[c].transaction = NULL /\ buf[c].transaction = w /\ buf[c].proc = HomeOf(k)
  BY <1>1, <1>2, <1>4, <1>6, <1>13
<1>15. \A x \in Txn : {txn'[x].from, txn'[x].to_thread} \subseteq {NULL, txn[x].from, txn[x].to_thread}
  BY <1>1, <1>2, <1>5
<1> QED BY <1>12, <1>14, <1>15 DEF Spares

\* One item of binder_release_work keeps the shape of memory.
LEMMA ReleaseItemMem ==
    ASSUME Sound, Sound', MemInv, ErrorInv, NoStaleWait, NoBug, exiting' = exiting,
           NEW k, Shrunk(Lists, Lists', k), NEW w, w = Head(Lists[k]), ReleaseItem(w)
    PROVE  MemInv' /\ ErrorInv' /\ NoBug' /\ Spares(k, w)
<1>1. CASE w = COMPLETE
  <2>1. /\ txn' = txn /\ buf' = buf /\ stack' = stack /\ return_error' = return_error
        /\ return_error2' = return_error2 /\ bug' = bug
    BY <1>1 DEF ReleaseItem, memVars
  <2>2. Top' = Top
    BY <2>1 DEF Top
  <2>3. Core(txn, buf, Top, exiting, Lists')
    <3>1. PICK tx, bf, top, L, M, X : tx = txn /\ bf = buf /\ top = Top /\ L = Lists /\ M = Lists' /\ X = exiting
      OBVIOUS
    <3>2. Core(tx, bf, top, X, L) /\ Shrunk(L, M, k) /\ Head(L[k]) = COMPLETE
      BY <1>1, <3>1 DEF MemInv
    <3>3. Core(tx, bf, top, X, M)
      BY <3>2, CompleteRead
    <3> QED BY <3>1, <3>3
  <2>4. MemInv' /\ ErrorInv' /\ NoBug'
    BY <2>1, <2>2, <2>3 DEF MemInv, ErrorInv, NoBug
  <2>5. Spares(k, w)
    BY <2>1 DEF Spares, SameBuf
  <2> QED BY <2>4, <2>5
<1>2. CASE w # COMPLETE
  <2>1. /\ w \in Txn /\ TxnOK(txn, buf, w) /\ txn[w].buffer \in Buf /\ txn[w].buffer # NULL
        /\ txn[w].kind \in {"call", "oneway", "reply"}
    <3>1. PICK tx, bf, top, L, M, X : tx = txn /\ bf = buf /\ top = Top /\ L = Lists /\ M = Lists' /\ X = exiting
      OBVIOUS
    <3>2. Core(tx, bf, top, X, L) /\ Shrunk(L, M, k) /\ w = Head(L[k])
      BY <3>1 DEF MemInv
    <3>3. w \in Txn /\ TxnOK(tx, bf, w) /\ tx[w].buffer \in Buf /\ tx[w].kind \in {"call", "oneway", "reply"}
      BY <1>2, <3>2, HeadOfList
    <3> QED BY <3>1, <3>3, Distinct
  <2>2. buf[txn[w].buffer].target_node = NULL <=> txn[w].kind = "reply"
    BY <2>1 DEF TxnOK
  <2>3. CASE txn[w].kind = "call"
    <3>1. binder_send_failed_reply(w, "DEAD", txn, buf, stack, return_error)
      BY <1>2, <2>1, <2>2, <2>3 DEF ReleaseItem
    <3> QED BY <1>2, <2>3, <3>1, ReleaseCallMem
  <2>4. CASE txn[w].kind # "call"
    <3>1. /\ txn' = Kfree(txn, {w}) /\ buf' = Detach(buf, txn, {w}) /\ stack' = stack
          /\ return_error' = return_error /\ return_error2' = return_error2 /\ bug' = bug
      BY <1>2, <2>1, <2>2, <2>4 DEF ReleaseItem
    <3> QED BY <1>2, <2>4, <3>1, ReleaseOtherMem
  <2> QED BY <2>3, <2>4
<1> QED BY <1>1, <1>2

-----------------------------------------------------------------------------
(* One-way calls of a node *)

\* ActiveAsync and AsyncInv for the node of p, with the queue q and the flag h.
ActiveOf(bf, q, p) ==
    {b \in Buf : bf[b].async /\ bf[b].target_node = p /\ bf[b].transaction \notin Items(q)}

AsyncAt(bf, q, h, p) ==
    /\ h => \E b \in Buf : ActiveOf(bf, q, p) = {b}
    /\ ~h => ActiveOf(bf, q, p) = {} /\ q = <<>>
    /\ \A b \in ActiveOf(bf, q, p) :
          bf[b].transaction # NULL \/ bf[b].allow_user_free \/ Exits \cap ThreadsOf(p) # {}

\* AsyncInv speaks of each node on its own ...
LEMMA AsyncEach ==
    AsyncInv <=> \A p \in alive \ {closing} : AsyncAt(buf, async_todo[p], has_async[p], p)
<1>1. \A p : ActiveAsync(p) = ActiveOf(buf, async_todo[p], p)
  BY DEF ActiveAsync, ActiveOf
<1> QED BY <1>1 DEF AsyncInv, AsyncAt

\* A step does nothing to the one-way calls on p in the buffer c that matters.
Quiet(bf, bg, q, c, p) ==
    \/ ~(bf[c].async /\ bf[c].target_node = p) /\ ~(bg[c].async /\ bg[c].target_node = p)
    \/ /\ bg[c].async = bf[c].async /\ bg[c].target_node = bf[c].target_node
       /\ \/ bg[c].transaction = bf[c].transaction /\ bg[c].allow_user_free = bf[c].allow_user_free
          \/ /\ bf[c].transaction \notin Items(q) /\ bg[c].transaction \notin Items(q)
             /\ bg[c].allow_user_free \/ Exits \cap ThreadsOf(p) # {}

\* A step that is quiet in every buffer keeps AsyncInv for the node.
LEMMA AsyncKept ==
    ASSUME NEW bf, NEW bg, NEW q, NEW h, NEW p, AsyncAt(bf, q, h, p), \A c \in Buf : Quiet(bf, bg, q, c, p)
    PROVE  AsyncAt(bg, q, h, p)
<1>1. ActiveOf(bg, q, p) = ActiveOf(bf, q, p)
  BY DEF Quiet, ActiveOf
<1>2. ASSUME NEW b \in ActiveOf(bf, q, p)
      PROVE  bg[b].transaction # NULL \/ bg[b].allow_user_free \/ Exits \cap ThreadsOf(p) # {}
  <2>1. b \in Buf /\ bf[b].async /\ bf[b].target_node = p
    BY DEF ActiveOf
  <2>2. bf[b].transaction # NULL \/ bf[b].allow_user_free \/ Exits \cap ThreadsOf(p) # {}
    BY DEF AsyncAt
  <2> QED BY <2>1, <2>2 DEF Quiet
<1> QED BY <1>1, <1>2 DEF AsyncAt

\* ... in the next state too.
LEMMA AsyncLater ==
    ASSUME \A p \in alive' \ {closing'} : AsyncAt(buf', async_todo'[p], has_async'[p], p)
    PROVE  AsyncInv'
<1>1. \A p : ActiveAsync(p)' = ActiveOf(buf', async_todo'[p], p)
  BY DEF ActiveAsync, ActiveOf
<1> QED BY <1>1 DEF AsyncInv, AsyncAt

\* A step that is quiet in every buffer and leaves queues and flags keeps AsyncInv.
LEMMA AsyncFrame ==
    ASSUME AsyncInv, alive' \ {closing'} \subseteq alive \ {closing},
           \A p \in alive' \ {closing'} :
               /\ async_todo'[p] = async_todo[p] /\ has_async'[p] = has_async[p]
               /\ \A c \in Buf : Quiet(buf, buf', async_todo[p], c, p)
    PROVE  AsyncInv'
<1>1. \A p \in alive \ {closing} : AsyncAt(buf, async_todo[p], has_async[p], p)
  BY AsyncEach
<1>2. \A p \in alive' \ {closing'} : AsyncAt(buf', async_todo'[p], has_async'[p], p)
  BY <1>1, AsyncKept
<1> QED BY <1>2, AsyncLater

\* The one-way call t with the buffer b is new and at the end of the queue r.
QueuedLast(bf, q, bg, r, t, b) ==
    /\ Items(r) = Items(q) \cup {t}
    /\ ~bf[b].async /\ bg[b].transaction = t
    /\ \A c \in Buf : c # b => bg[c] = bf[c] /\ bf[c].transaction # t

\* A one-way call waits in the queue.
LEMMA AsyncSent ==
    ASSUME NEW bf, NEW q, NEW p, NEW h, h = TRUE, AsyncAt(bf, q, h, p),
           NEW t, NEW r, NEW b \in Buf, NEW bg, QueuedLast(bf, q, bg, r, t, b)
    PROVE  AsyncAt(bg, r, h, p)
<1>2. ActiveOf(bg, r, p) = ActiveOf(bf, q, p)
  BY DEF ActiveOf, QueuedLast
<1>3. \A c \in ActiveOf(bf, q, p) : bg[c] = bf[c]
  BY DEF ActiveOf, QueuedLast
<1> QED BY <1>2, <1>3 DEF AsyncAt

\* A one-way call is sent at once.
LEMMA AsyncStarted ==
    ASSUME NEW bf, NEW q, NEW p, NEW h, h = FALSE, AsyncAt(bf, q, h, p),
           NEW t \in Txn, NEW b \in Buf, NEW g, g = TRUE,
           NEW bg, bg[b].transaction = t, bg[b].async, bg[b].target_node = p,
           \A c \in Buf : c # b => bg[c] = bf[c]
    PROVE  AsyncAt(bg, q, g, p)
<1>1. Items(q) = {} /\ ActiveOf(bf, q, p) = {}
  BY DEF AsyncAt, Items
<1>2. ActiveOf(bg, q, p) = {b}
  <2>1. \A c \in Buf : c # b => ~(bg[c].async /\ bg[c].target_node = p)
    BY <1>1 DEF ActiveOf
  <2> QED BY <1>1, <2>1 DEF ActiveOf
<1> QED BY <1>2, NullTxn DEF AsyncAt

\* The last one-way call is over.
LEMMA AsyncDone ==
    ASSUME NEW bf, NEW q, NEW p, NEW h, AsyncAt(bf, q, h, p), q = <<>>, NEW b \in ActiveOf(bf, q, p),
           NEW g, g = FALSE, NEW bg, ~bg[b].async, \A c \in Buf : c # b => bg[c] = bf[c]
    PROVE  AsyncAt(bg, q, g, p)
<1>1. ActiveOf(bf, q, p) = {b}
  BY DEF AsyncAt
<1>2. ActiveOf(bg, q, p) = {}
  BY <1>1 DEF ActiveOf
<1> QED BY <1>2 DEF AsyncAt

\* The call of the buffer b is over; that of the buffer e leaves the queue q.
NextLeaves(bf, q, bg, b, e, p) ==
    /\ q \in Seq(Txn) /\ q # <<>> /\ NoDup(q)
    /\ ~bg[b].async /\ \A c \in Buf : c # b => bg[c] = bf[c]
    /\ e \in Buf /\ e # b /\ bf[e].async /\ bf[e].target_node = p
    /\ \A c \in Buf : bf[c].transaction = Head(q) <=> c = e

\* One call is over and the next one leaves the queue.
LEMMA AsyncNext ==
    ASSUME NEW bf, NEW q, NEW p, NEW h, AsyncAt(bf, q, h, p), NEW b \in ActiveOf(bf, q, p),
           NEW bg, NEW e, NextLeaves(bf, q, bg, b, e, p)
    PROVE  AsyncAt(bg, Tail(q), h, p)
<1> USE DEF NextLeaves
<1>1. PICK t : t = Head(q)
  OBVIOUS
<1>2. t \in Txn /\ t # COMPLETE /\ Items(q) = Items(Tail(q)) \cup {t} /\ t \notin Items(Tail(q))
  <2>1. q \in Seq(Work)
    BY DEF Work
  <2>2. t \in Txn /\ t # COMPLETE
    BY <1>1, Distinct
  <2>3. NoDup(Tail(q)) /\ (Head(q) # COMPLETE => Head(q) \notin Items(Tail(q)))
    BY <2>1, NoDupTail
  <2> QED BY <1>1, <2>1, <2>2, <2>3, ItemsOfTail
<1>3. ActiveOf(bf, q, p) = {b} /\ h
  BY DEF AsyncAt
<1>4. ActiveOf(bg, Tail(q), p) = {e}
  <2>1. \A c \in Buf : c # b /\ bf[c].async /\ bf[c].target_node = p => bf[c].transaction \in Items(q)
    BY <1>3 DEF ActiveOf
  <2>2. \A c \in Buf : c \in ActiveOf(bg, Tail(q), p) => c = e
    BY <1>1, <1>2, <2>1 DEF ActiveOf
  <2>3. e \in ActiveOf(bg, Tail(q), p)
    BY <1>1, <1>2 DEF ActiveOf
  <2>4. ActiveOf(bg, Tail(q), p) \subseteq Buf
    BY DEF ActiveOf
  <2> QED BY <2>2, <2>3, <2>4
<1>5. bg[e].transaction # NULL
  BY <1>1, <1>2, NullTxn
<1> QED BY <1>3, <1>4, <1>5 DEF AsyncAt

-----------------------------------------------------------------------------
(* The writes keep the invariant *)

\* A step that touches neither stacks nor lists nor memory keeps MemInv.
LEMMA SameMem ==
    ASSUME MemInv, txn' = txn, buf' = buf, stack' = stack, exiting' = exiting,
           todo' = todo, proc_todo' = proc_todo, async_todo' = async_todo
    PROVE  MemInv' /\ Top' = Top
<1>1. Top' = Top /\ Lists' = Lists
  BY DEF Top, Lists
<1> QED BY <1>1 DEF MemInv

\* A step that touches neither buffers nor queues nor flags keeps AsyncInv.
LEMMA SameAsync ==
    ASSUME AsyncInv, buf' = buf, async_todo' = async_todo, has_async' = has_async,
           alive' \ {closing'} \subseteq alive \ {closing}
    PROVE  AsyncInv'
<1>1. \A p, c : Quiet(buf, buf', async_todo[p], c, p)
  BY DEF Quiet
<1> QED BY <1>1, AsyncFrame

\* A step that leaves the buffers of one-way calls alone.
LEMMA UndisturbedAsync ==
    ASSUME AsyncInv, async_todo' = async_todo, has_async' = has_async, alive' = alive, closing' = closing,
           \A c \in Buf : \/ SameBuf(buf, buf', c) /\ (buf[c].async => buf'[c].transaction = buf[c].transaction)
                          \/ ~buf[c].async /\ ~buf'[c].async
    PROVE  AsyncInv'
<1>1. \A p : \A c \in Buf : Quiet(buf, buf', async_todo[p], c, p)
  BY DEF Quiet, SameBuf
<1> QED BY <1>1, AsyncFrame

\* Where a thread that writes is.
LEMMA Writing ==
    ASSUME NEW th \in Thread, CanWrite(th)
    PROVE  /\ exiting = NULL /\ closing = NULL /\ ProcOf[th] \in alive
           /\ wait[th] = "no" /\ return_error[th] = "OK"
BY DEF CanWrite, Running, Unlocked

\* The locks are free and the waits as before.
LEMMA ThreadsGrow ==
    ASSUME Sound, ThreadInv, NEW th \in Thread, threads' = threads \cup {th}, exiting = NULL, closing = NULL,
           exiting' = exiting, closing' = closing, \A v \in Thread : wait'[v] = wait[v] \/ v = th,
           \A t \in Txn : {txn'[t].from, txn'[t].to_thread} \subseteq threads \cup {NULL, th},
           \A v \in Thread : v # th => todo'[v] = todo[v] \/ v \in threads
    PROVE  ThreadInv'
<1>1. \A t \in Txn : {txn'[t].from, txn'[t].to_thread} \subseteq threads' \cup {NULL}
  OBVIOUS
<1>2. \A v \in Thread \ threads' : todo'[v] = <<>> /\ wait'[v] = "no"
  BY DEF ThreadInv
<1> QED BY <1>1, <1>2 DEF ThreadInv

\* A write that fails at once keeps the invariant.
LEMMA FailInv ==
    ASSUME Sound, Sound', Inv, NEW th \in Thread, TransactFail(th) \/ ReplyNoCall(th)
    PROVE  Inv'
<1>1. /\ exiting = NULL /\ closing = NULL /\ wait[th] = "no" /\ return_error[th] = "OK"
  BY Writing DEF TransactFail, ReplyNoCall
<1>2. /\ threads' = threads \cup {th} /\ alive' = alive /\ stack' = stack /\ todo' = todo
      /\ return_error2' = return_error2 /\ wait' = wait /\ bug' = bug
      /\ proc_todo' = proc_todo /\ has_async' = has_async /\ async_todo' = async_todo
      /\ txn' = txn /\ buf' = buf /\ exiting' = exiting /\ closing' = closing
  BY DEF TransactFail, ReplyNoCall, GetThread, nodeVars, memVars, lockVars
<1>3. \E code \in Errors \ {"OK"} : return_error' = [return_error EXCEPT ![th] = code]
  BY DEF TransactFail, ReplyNoCall, Errors
<1>4. return_error'[th] # "OK" /\ \A v \in Thread : v # th => return_error'[v] = return_error[v]
  BY <1>3 DEF Sound, TypeOK
<1>5. MemInv' /\ Top' = Top
  BY <1>2, SameMem DEF Inv
<1>6. ErrorInv'
  BY <1>2, <1>4, <1>5 DEF Inv, ErrorInv, Room
<1>7. ThreadInv'
  BY <1>1, <1>2, ThreadsGrow DEF Inv, ThreadInv
<1>8. NoStaleWait'
  BY <1>1, <1>2, <1>4 DEF Inv, NoStaleWait, binder_has_thread_work
<1>9. AsyncInv'
  BY <1>2, SameAsync DEF Inv
<1> QED BY <1>2, <1>5, <1>6, <1>7, <1>8, <1>9 DEF Inv, NoBug

\* A reply that fails keeps the invariant.
LEMMA ReplyErrorInv ==
    ASSUME Sound, Sound', Inv, NEW th \in Thread, ReplyCallerDead(th) \/ ReplyFail(th)
    PROVE  Inv'
<1>1. PICK code \in {"DEAD", "FAILED"} : ReplyError(th, code)
  BY DEF ReplyCallerDead, ReplyFail
<1>2. CanWrite(th) /\ Serves(th) /\ threads' = threads \cup {th}
  BY DEF ReplyCallerDead, ReplyFail, GetThread
<1>3. MemInv' /\ ErrorInv' /\ NoBug' /\ Undisturbed
  BY <1>1, <1>2, ReplyErrorMem DEF Inv
<1>4. /\ alive' = alive /\ todo' = todo /\ wait' = wait /\ has_async' = has_async
      /\ async_todo' = async_todo /\ exiting' = exiting /\ closing' = closing
  BY <1>1 DEF ReplyError, nodeVars, lockVars
<1>5. exiting = NULL /\ closing = NULL
  BY <1>2, Writing
<1>6. \A t \in Txn : {txn'[t].from, txn'[t].to_thread} \subseteq threads \cup {NULL, th}
  <2>1. \A t \in Txn : {txn[t].from, txn[t].to_thread} \subseteq threads \cup {NULL}
    BY DEF Inv, ThreadInv
  <2>2. \A t \in Txn : {txn'[t].from, txn'[t].to_thread} \subseteq {NULL, txn[t].from, txn[t].to_thread}
    BY <1>3 DEF Undisturbed
  <2> QED BY <2>1, <2>2
<1>7. ThreadInv'
  BY <1>2, <1>4, <1>5, <1>6, ThreadsGrow DEF Inv
<1>8. NoStaleWait'
  BY <1>3, <1>4 DEF Inv, NoStaleWait, binder_has_thread_work, Undisturbed
<1>9. AsyncInv'
  <2>1. \A c \in Buf : SameBuf(buf, buf', c) /\ (buf[c].async => buf'[c].transaction = buf[c].transaction)
    BY <1>3 DEF Undisturbed
  <2> QED BY <1>4, <2>1, UndisturbedAsync DEF Inv
<1> QED BY <1>3, <1>7, <1>8, <1>9 DEF Inv

\* A reply keeps the invariant.
LEMMA ReplyInv ==
    ASSUME Sound, Sound', Inv, NEW th \in Thread, NEW t \in Txn, NEW b \in Buf, Reply(th, t, b)
    PROVE  Inv'
<1>1. /\ CanWrite(th) /\ threads' = threads \cup {th} /\ alive' = alive /\ wait' = wait
      /\ has_async' = has_async /\ async_todo' = async_todo /\ exiting' = exiting /\ closing' = closing
  BY DEF Reply, GetThread, nodeVars, lockVars
<1>2. exiting = NULL /\ closing = NULL /\ wait[th] = "no"
  BY <1>1, Writing
<1>3. /\ MemInv' /\ ErrorInv' /\ NoBug'
      /\ \E r \in Txn, u \in Thread :
            /\ u = txn[r].from /\ u # th /\ wait[u] # "proc"
            /\ \A w \in Thread : w \notin {u, th} => stack'[w] = stack[w] /\ todo'[w] = todo[w]
            /\ \A x \in Txn : x # t => txn'[x] \in {txn[x], NoTxn}
            /\ txn'[t].from = NULL /\ txn'[t].to_thread = u
            /\ return_error' = return_error
            /\ \A c \in Buf : IF c = b THEN ~buf[c].async /\ ~buf'[c].async
                              ELSE /\ SameBuf(buf, buf', c)
                                   /\ buf[c].async => buf'[c].transaction = buf[c].transaction
  BY ReplyMem DEF Inv
<1>4. PICK r \in Txn, u \in Thread :
            /\ u = txn[r].from /\ u # th /\ wait[u] # "proc"
            /\ \A w \in Thread : w \notin {u, th} => stack'[w] = stack[w] /\ todo'[w] = todo[w]
            /\ \A x \in Txn : x # t => txn'[x] \in {txn[x], NoTxn}
            /\ txn'[t].from = NULL /\ txn'[t].to_thread = u
            /\ return_error' = return_error
            /\ \A c \in Buf : IF c = b THEN ~buf[c].async /\ ~buf'[c].async
                              ELSE /\ SameBuf(buf, buf', c)
                                   /\ buf[c].async => buf'[c].transaction = buf[c].transaction
  BY <1>3
<1>5. \A x \in Txn : {txn[x].from, txn[x].to_thread} \subseteq threads \cup {NULL}
  BY DEF Inv, ThreadInv
<1>6. u \in threads
  BY <1>4, <1>5, Distinct
<1>7. \A x \in Txn : {txn'[x].from, txn'[x].to_thread} \subseteq threads \cup {NULL, th}
  <2>1. NoTxn.from = NULL /\ NoTxn.to_thread = NULL
    BY DEF NoTxn
  <2>2. ASSUME NEW x \in Txn, x # t
        PROVE  {txn'[x].from, txn'[x].to_thread} \subseteq threads \cup {NULL, th}
    <3>1. txn'[x] = txn[x] \/ txn'[x] = NoTxn
      BY <1>4, <2>2
    <3>2. CASE txn'[x] = txn[x]
      BY <1>5, <3>2
    <3>3. CASE txn'[x] = NoTxn
      BY <2>1, <3>3
    <3> QED BY <3>1, <3>2, <3>3
  <2>3. {txn'[t].from, txn'[t].to_thread} \subseteq threads \cup {NULL, th}
    BY <1>4, <1>6
  <2> QED BY <2>2, <2>3
<1>8. ThreadInv'
  <2>1. \A v \in Thread : v # th => todo'[v] = todo[v] \/ v \in threads
    BY <1>4, <1>6
  <2> QED BY <1>1, <1>2, <1>7, <2>1, ThreadsGrow DEF Inv
<1>9. NoStaleWait'
  BY <1>1, <1>2, <1>4 DEF Inv, NoStaleWait, binder_has_thread_work
<1>10. AsyncInv'
  <2>1. \A c \in Buf : \/ SameBuf(buf, buf', c) /\ (buf[c].async => buf'[c].transaction = buf[c].transaction)
                       \/ ~buf[c].async /\ ~buf'[c].async
    BY <1>4
  <2> QED BY <1>1, <2>1, UndisturbedAsync DEF Inv
<1> QED BY <1>3, <1>8, <1>9, <1>10 DEF Inv
\* A call keeps the invariant.
LEMMA TransactInv ==
    ASSUME Sound, Sound', Inv, NEW th \in Thread, NEW p \in Proc, NEW t \in Txn, NEW b \in Buf,
           Transact(th, p, t, b)
    PROVE  Inv'
<1>1. /\ CanWrite(th) /\ threads' = threads \cup {th} /\ alive' = alive /\ wait' = wait
      /\ has_async' = has_async /\ async_todo' = async_todo /\ exiting' = exiting /\ closing' = closing
      /\ return_error' = return_error /\ return_error2' = return_error2 /\ bug' = bug
      /\ buf[b].proc = NULL
      /\ buf' = [buf EXCEPT ![b] = NewBuffer(p, t, p, FALSE)]
      /\ stack' = [stack EXCEPT ![th] = t]
  BY DEF Transact, GetThread, lockVars, CanTransact, CanAllocate
<1>2. exiting = NULL /\ closing = NULL /\ wait[th] = "no" /\ return_error[th] = "OK"
  BY <1>1, Writing
<1>3. /\ MemInv'
      /\ \E u \in TargetThread(th, p) : txn'[t].to_thread = u /\ (u # NULL => stack[u] # NULL)
  BY TransactMem DEF Inv
<1>4. PICK u \in TargetThread(th, p) :
          LET queued == [todo EXCEPT ![th] = Append(@, COMPLETE)]
          IN /\ txn' = [txn EXCEPT ![t] =
                    [kind |-> "call", from |-> th, from_parent |-> stack[th],
                     to_thread |-> u, to_parent |-> NULL, buffer |-> b]]
             /\ IF u # NULL
                THEN /\ todo' = [queued EXCEPT ![u] = Append(@, t)]
                     /\ asleep' = Woken(u)
                     /\ UNCHANGED proc_todo
                ELSE /\ todo' = queued
                     /\ proc_todo' = [proc_todo EXCEPT ![p] = Append(@, t)]
                     /\ WakeProc(p)
  BY DEF Transact
<1>5. /\ \A x \in Txn : x # t => txn'[x] = txn[x]
      /\ txn'[t].from = th /\ txn'[t].to_thread = u
  BY <1>4 DEF Sound, TypeOK
<1>6. u # NULL => stack[u] # NULL
  BY <1>3, <1>5
<1>7. \A v \in Thread : v # th /\ v # u => todo'[v] = todo[v]
  BY <1>4 DEF Sound, TypeOK
<1>8. \A x \in Txn : {txn[x].from, txn[x].to_thread} \subseteq threads \cup {NULL}
  BY DEF Inv, ThreadInv
<1>9. u \in threads \cup {NULL}
  <2>1. u # NULL => \E x \in Above(txn, stack[th]) : txn[x].from = u
    BY Target
  <2>2. Above(txn, stack[th]) \subseteq Txn
    BY WalkTxn DEF Above
  <2> QED BY <1>8, <2>1, <2>2
<1>10. ThreadInv'
  <2>1. \A x \in Txn : {txn'[x].from, txn'[x].to_thread} \subseteq threads \cup {NULL, th}
    BY <1>5, <1>8, <1>9
  <2>2. \A v \in Thread : v # th => todo'[v] = todo[v] \/ v \in threads
    BY <1>7, <1>9, Distinct
  <2> QED BY <1>1, <1>2, <2>1, <2>2, ThreadsGrow DEF Inv
<1>11. \A v \in Thread : v # th => stack'[v] = stack[v]
  BY <1>1 DEF Sound, TypeOK
<1>12. NoStaleWait'
  <2>1. \A v \in Thread : wait[v] = "proc" => v # th /\ v # u
    BY <1>2, <1>6, Distinct DEF Inv, NoStaleWait
  <2> QED BY <1>1, <1>7, <1>11, <2>1 DEF Inv, NoStaleWait, binder_has_thread_work
<1>13. ErrorInv'
  <2>1. return_error2[th] = "OK"
    BY <1>2 DEF Inv, ErrorInv, Room
  <2>2. \A v \in Thread : v # NULL /\ Top[v] = stack[v] /\ Top'[v] = stack'[v] /\ stack[v] \in Txn \cup {NULL}
    BY <1>1, <1>2, Now, Then, Distinct DEF Sound, TypeOK
  <2>3. ASSUME NEW v \in Thread, v # th, Top'[v] # NULL, txn'[Top'[v]].from = v
        PROVE  return_error2[v] = "OK"
    <3>1. Top[v] # NULL /\ Top[v] \in Txn /\ Top'[v] = Top[v] /\ Top[v] # t
      BY <1>5, <1>11, <2>2, <2>3
    <3> QED BY <1>5, <2>3, <3>1 DEF Inv, ErrorInv, Room
  <2>4. \A v \in Thread : return_error2[v] # "OK" => return_error[v] # "OK"
    BY DEF Inv, ErrorInv, Room
  <2> QED BY <1>1, <2>1, <2>3, <2>4 DEF ErrorInv, Room
<1>14. AsyncInv'
  <2>1. ~buf[b].async
    <3>1. BufOK(buf, b)
      BY DEF Inv, MemInv, Core, MemOK
    <3> QED BY <1>1, <3>1 DEF BufOK
  <2>2. ~buf'[b].async /\ \A c \in Buf : c # b => buf'[c] = buf[c]
    BY <1>1 DEF Sound, TypeOK, NewBuffer
  <2>3. \A c \in Buf : \/ SameBuf(buf, buf', c) /\ (buf[c].async => buf'[c].transaction = buf[c].transaction)
                       \/ ~buf[c].async /\ ~buf'[c].async
    BY <2>1, <2>2 DEF SameBuf
  <2> QED BY <1>1, <2>3, UndisturbedAsync DEF Inv
<1> QED BY <1>1, <1>3, <1>10, <1>12, <1>13, <1>14 DEF Inv, NoBug

\* A one-way call keeps the invariant.
LEMMA OneWayInv ==
    ASSUME Sound, Sound', Inv, NEW th \in Thread, NEW p \in Proc, NEW t \in Txn, NEW b \in Buf,
           TransactOneWay(th, p, t, b)
    PROVE  Inv'
<1>1. /\ CanWrite(th) /\ threads' = threads \cup {th} /\ alive' = alive /\ wait' = wait
      /\ exiting' = exiting /\ closing' = closing /\ stack' = stack
      /\ return_error' = return_error /\ return_error2' = return_error2 /\ bug' = bug
      /\ buf[b].proc = NULL /\ txn[t].kind = "none" /\ p \in alive
      /\ txn' = [txn EXCEPT ![t] = [NoTxn EXCEPT !.kind = "oneway", !.buffer = b]]
      /\ buf' = [buf EXCEPT ![b] = NewBuffer(p, t, p, TRUE)]
      /\ todo' = [todo EXCEPT ![th] = Append(@, COMPLETE)]
      /\ has_async' = [has_async EXCEPT ![p] = TRUE]
  BY DEF TransactOneWay, GetThread, lockVars, CanTransact, CanAllocate
<1>2. exiting = NULL /\ closing = NULL /\ wait[th] = "no" /\ return_error[th] = "OK"
  BY <1>1, Writing
<1>3. MemInv'
  BY OneWayMem DEF Inv
<1>4. /\ \A x \in Txn : x # t => txn'[x] = txn[x]
      /\ txn'[t].from = NULL /\ txn'[t].to_thread = NULL
      /\ \A v \in Thread : v # th => todo'[v] = todo[v]
  BY <1>1 DEF Sound, TypeOK, NoTxn
<1>5. ThreadInv'
  <2>1. \A x \in Txn : {txn[x].from, txn[x].to_thread} \subseteq threads \cup {NULL}
    BY DEF Inv, ThreadInv
  <2>2. \A x \in Txn : {txn'[x].from, txn'[x].to_thread} \subseteq threads \cup {NULL, th}
    BY <1>4, <2>1
  <2> QED BY <1>1, <1>2, <1>4, <2>2, ThreadsGrow DEF Inv
<1>6. NoStaleWait'
  BY <1>1, <1>2, <1>4 DEF Inv, NoStaleWait, binder_has_thread_work
<1>7. ErrorInv'
  <2>1. Top' = Top
    BY <1>1 DEF Top
  <2>2. \A v \in Thread : v # NULL /\ Top[v] \in Txn \cup {NULL}
    BY Now, MemFields, Distinct
  <2> QED BY <1>1, <1>4, <2>1, <2>2 DEF Inv, ErrorInv, Room
<1>8. /\ ~buf[b].async /\ \A c \in Buf : c # b => buf'[c] = buf[c] /\ buf[c].transaction # t
      /\ buf'[b].transaction = t /\ buf'[b].async /\ buf'[b].target_node = p
  <2>1. BufOK(buf, b)
    BY DEF Inv, MemInv, Core, MemOK
  <2>2. Linked(txn, buf) /\ t # NULL
    BY Distinct DEF Inv, MemInv, Core, MemType
  <2>3. ~buf[b].async
    BY <1>1, <2>1 DEF BufOK
  <2>4. \A c \in Buf : c # b => buf'[c] = buf[c]
    BY <1>1 DEF Sound, TypeOK
  <2>5. \A c \in Buf : buf[c].transaction # t
    BY <1>1, <2>2, Distinct DEF Linked
  <2>6. buf'[b] = NewBuffer(p, t, p, TRUE)
    BY <1>1 DEF Sound, TypeOK
  <2>7. buf'[b].transaction = t /\ buf'[b].async /\ buf'[b].target_node = p
    BY <2>6 DEF NewBuffer
  <2> QED BY <2>3, <2>4, <2>5, <2>7
<1>9. \A q \in alive \ {closing} : AsyncAt(buf, async_todo[q], has_async[q], q)
  BY AsyncEach DEF Inv
<1>10. ASSUME NEW q \in alive' \ {closing'}
       PROVE  AsyncAt(buf', async_todo'[q], has_async'[q], q)
  <2>1. q \in alive \ {closing} /\ q \in Proc
    BY <1>1 DEF Sound, TypeOK
  <2>2. CASE q # p
    <3>1. async_todo'[q] = async_todo[q] /\ has_async'[q] = has_async[q]
      BY <1>1, <2>1, <2>2 DEF TransactOneWay, Sound, TypeOK
    <3>2. \A c \in Buf : Quiet(buf, buf', async_todo[q], c, q)
      BY <1>8, <2>2 DEF Quiet
    <3> QED BY <1>9, <2>1, <3>1, <3>2, AsyncKept
  <2>3. CASE q = p /\ has_async[p]
    <3>1. PICK l, m, h : l = async_todo[p] /\ m = async_todo'[p] /\ h = has_async[p]
      OBVIOUS
    <3>2. l \in Seq(Txn) /\ m = Append(l, t) /\ h = TRUE /\ has_async'[p] = h
      BY <1>1, <2>3, <3>1 DEF TransactOneWay, Busy, Sound, TypeOK
    <3>3. AsyncAt(buf, l, h, p)
      BY <1>9, <2>1, <2>3, <3>1
    <3>4. AsyncAt(buf', m, h, p)
      <4>1. PICK bf, bg : bf = buf /\ bg = buf'
        OBVIOUS
      <4>2. AsyncAt(bf, l, h, p) /\ h = TRUE /\ Items(m) = Items(l) \cup {t}
        BY <3>2, <3>3, <4>1, ItemsOfAppend
      <4>3. ~bf[b].async /\ bg[b].transaction = t
        BY <1>8, <4>1
      <4>4. \A c \in Buf : c # b => bg[c] = bf[c] /\ bf[c].transaction # t
        BY <1>8, <4>1
      <4>5. AsyncAt(bg, m, h, p)
        <5>1. QueuedLast(bf, l, bg, m, t, b)
          BY <4>2, <4>3, <4>4 DEF QueuedLast
        <5> QED BY <4>2, <5>1, AsyncSent
      <4> QED BY <4>1, <4>5
    <3> QED BY <2>3, <3>1, <3>2, <3>4
  <2>4. CASE q = p /\ ~has_async[p]
    <3>1. PICK l, h, g : l = async_todo[p] /\ h = FALSE /\ g = TRUE
      OBVIOUS
    <3>2. async_todo'[p] = l /\ has_async'[p] = g /\ has_async[p] = h
      BY <1>1, <2>4, <3>1 DEF TransactOneWay, Busy, Sound, TypeOK
    <3>3. AsyncAt(buf, l, h, p)
      BY <1>9, <2>1, <2>4, <3>1, <3>2
    <3>4. AsyncAt(buf', l, g, p)
      <4>1. PICK bf, bg : bf = buf /\ bg = buf'
        OBVIOUS
      <4>2. AsyncAt(bf, l, h, p) /\ h = FALSE /\ g = TRUE
        BY <3>1, <3>3, <4>1
      <4>3. bg[b].transaction = t /\ bg[b].async /\ bg[b].target_node = p
        BY <1>8, <4>1
      <4>4. \A c \in Buf : c # b => bg[c] = bf[c]
        BY <1>8, <4>1
      <4>5. AsyncAt(bg, l, g, p)
        BY <4>2, <4>3, <4>4, AsyncStarted
      <4> QED BY <4>1, <4>5
    <3> QED BY <2>4, <3>2, <3>4
  <2> QED BY <2>2, <2>3, <2>4
<1>11. AsyncInv'
  BY <1>10, AsyncLater
<1> QED BY <1>1, <1>3, <1>5, <1>6, <1>7, <1>11 DEF Inv, NoBug

\* BC_FREE_BUFFER keeps the shape of memory, before the next one-way call moves.
LEMMA FreeBufferCore ==
    ASSUME Sound, Sound', Inv, NEW th \in Thread, NEW b \in Buf, FreeBuffer(th, b)
    PROVE  /\ Core(txn', buf', Top', NULL, Lists) /\ Top' = Top
           /\ buf'[b] = NoBuf /\ \A c \in Buf : c # b => buf'[c] = buf[c]
           /\ buf[b].async => buf[b].transaction = NULL /\ buf[b].target_node = ProcOf[th]
           /\ \A x \in Txn : txn'[x].from = txn[x].from /\ txn'[x].to_thread = txn[x].to_thread
<1>1. /\ CanWrite(th) /\ exiting' = exiting /\ stack' = stack
      /\ buf[b].allow_user_free /\ buf[b].proc = ProcOf[th]
      /\ txn' = IF buf[b].transaction = NULL THEN txn ELSE [txn EXCEPT ![buf[b].transaction].buffer = NULL]
      /\ buf' = [buf EXCEPT ![b] = NoBuf]
  BY DEF FreeBuffer, lockVars
<1>2. exiting = NULL
  BY <1>1, Writing
<1>3. Top' = Top
  BY <1>1 DEF Top
<1>4. PICK tx, bf, top, L, n, t : tx = txn /\ bf = buf /\ top = Top /\ L = Lists /\ n = NULL /\ t = bf[b].transaction
  OBVIOUS
<1>5. PICK ty, bg : ty = txn' /\ bg = buf'
  OBVIOUS
<1>6. Core(tx, bf, top, n, L) /\ MemType(ty, bg, top)
  BY <1>2, <1>3, <1>4, <1>5, Then DEF Inv, MemInv
<1>7. tx \in [Txn -> TxnRec] /\ bf \in [Buf -> BufRec] /\ t \in Txn \cup {NULL}
  BY <1>4, <1>6, MemFields DEF Core, MemType
<1>8. bg[b] = NoBuf /\ \A c \in Buf : c # b => bg[c] = bf[c]
  BY <1>1, <1>4, <1>5, <1>7
<1>9. /\ \A x \in Txn : x # t => ty[x] = tx[x]
      /\ t \in Txn => Agree(tx, ty, t) /\ ty[t].buffer = NULL
  <2>1. CASE t = NULL
    <3>1. ty = tx
      BY <1>1, <1>4, <1>5, <2>1
    <3> QED BY <2>1, <3>1, NullTxn
  <2>2. CASE t # NULL
    <3>1. ty = [tx EXCEPT ![t].buffer = NULL] /\ t \in Txn
      BY <1>1, <1>4, <1>5, <1>7, <2>2
    <3>2. tx[t] \in TxnRec /\ ty[t] = [tx[t] EXCEPT !.buffer = NULL] /\ \A x \in Txn : x # t => ty[x] = tx[x]
      BY <1>7, <3>1
    <3> QED BY <3>2 DEF Agree, TxnRec
  <2> QED BY <2>1, <2>2
<1>10. bf[b].allow_user_free = TRUE
  <2>1. bf[b].allow_user_free \in BOOLEAN
    BY <1>6, MemFields DEF Core
  <2> QED BY <1>1, <1>4, <2>1
<1>11. Core(ty, bg, top, n, L) /\ (bf[b].async => t = NULL)
  <2>1. t = bf[b].transaction
    BY <1>4
  <2>2. \A x \in Txn : x # t => ty[x] = tx[x]
    BY <1>9
  <2>3. t \in Txn => Agree(tx, ty, t) /\ ty[t].buffer = NULL
    BY <1>9
  <2>4. \A c \in Buf : c # b => bg[c] = bf[c]
    BY <1>8
  <2>5. bg[b] = NoBuf
    BY <1>8
  <2>6. Freed(tx, bf, ty, bg, b, t)
    BY <1>10, <2>1, <2>2, <2>3, <2>4, <2>5 DEF Freed
  <2> QED BY <1>6, <2>6, BufferFreed
<1>12. bf[b].async => bf[b].target_node = ProcOf[th]
  <2>1. BufOK(bf, b)
    BY <1>6 DEF Core, MemOK
  <2> QED BY <1>1, <1>4, <2>1 DEF BufOK
<1>13. \A x \in Txn : ty[x].from = tx[x].from /\ ty[x].to_thread = tx[x].to_thread
  BY <1>9 DEF Agree
<1> QED BY <1>3, <1>4, <1>5, <1>8, <1>11, <1>12, <1>13

\* BC_FREE_BUFFER keeps the invariant.
LEMMA FreeBufferInv ==
    ASSUME Sound, Sound', Inv, NEW th \in Thread, NEW b \in Buf, FreeBuffer(th, b)
    PROVE  Inv'
<1>1. /\ CanWrite(th) /\ threads' = threads \cup {th} /\ alive' = alive /\ wait' = wait
      /\ exiting' = exiting /\ closing' = closing /\ stack' = stack
      /\ return_error' = return_error /\ return_error2' = return_error2 /\ proc_todo' = proc_todo
  BY DEF FreeBuffer, GetThread, lockVars
<1>2. exiting = NULL /\ closing = NULL /\ wait[th] = "no" /\ return_error[th] = "OK" /\ ProcOf[th] \in alive
  BY <1>1, Writing
<1>3. PICK n : n = ProcOf[th]
  OBVIOUS
<1>4. /\ Core(txn', buf', Top', NULL, Lists) /\ Top' = Top
      /\ buf'[b] = NoBuf /\ \A c \in Buf : c # b => buf'[c] = buf[c]
      /\ buf[b].async => buf[b].transaction = NULL /\ buf[b].target_node = n
      /\ \A x \in Txn : txn'[x].from = txn[x].from /\ txn'[x].to_thread = txn[x].to_thread
  BY <1>3, FreeBufferCore
<1>5. n \in Proc /\ n # NULL /\ n \in alive \ {closing}
  BY <1>2, <1>3, ProcOfType, Distinct
<1>6. \A p \in alive \ {closing} : AsyncAt(buf, async_todo[p], has_async[p], p)
  BY AsyncEach DEF Inv
<1>7. buf[b].async => b \in ActiveOf(buf, async_todo[n], n) /\ has_async[n]
  <2>1. NULL \notin Items(async_todo[n])
    BY <1>5, Distinct DEF Sound, TypeOK, Items
  <2>2. AsyncAt(buf, async_todo[n], has_async[n], n)
    BY <1>5, <1>6
  <2> QED BY <1>4, <2>1, <2>2 DEF ActiveOf, AsyncAt
<1>8. NoBug'
  BY <1>4, <1>7 DEF FreeBuffer, BugOn, Inv, NoBug
<1>9. \A v \in Thread : v # th => todo'[v] = todo[v]
  BY DEF FreeBuffer, NextAsync, Sound, TypeOK
<1>10. ThreadInv'
  <2>1. \A x \in Txn : {txn[x].from, txn[x].to_thread} \subseteq threads \cup {NULL}
    BY DEF Inv, ThreadInv
  <2>2. \A x \in Txn : {txn'[x].from, txn'[x].to_thread} \subseteq threads \cup {NULL, th}
    BY <1>4, <2>1
  <2> QED BY <1>1, <1>2, <1>9, <2>2, ThreadsGrow DEF Inv
<1>11. NoStaleWait'
  BY <1>1, <1>2, <1>9 DEF Inv, NoStaleWait, binder_has_thread_work
<1>12. ErrorInv'
  <2>1. \A v \in Thread : Top[v] \in Txn \cup {NULL}
    BY Now, MemFields
  <2> QED BY <1>1, <1>4, <2>1 DEF Inv, ErrorInv, Room
<1>13. ~NoBuf.async
  BY DEF NoBuf
<1>14. CASE ~buf[b].async
  <2>1. has_async' = has_async /\ async_todo' = async_todo /\ todo' = todo
    BY <1>14 DEF FreeBuffer
  <2>2. Lists' = Lists
    BY <1>1, <2>1 DEF Lists
  <2>3. MemInv'
    BY <1>1, <1>2, <1>4, <2>2 DEF MemInv
  <2>4. AsyncInv'
    <3>1. \A c \in Buf : \/ SameBuf(buf, buf', c) /\ (buf[c].async => buf'[c].transaction = buf[c].transaction)
                         \/ ~buf[c].async /\ ~buf'[c].async
      BY <1>4, <1>13, <1>14 DEF SameBuf
    <3> QED BY <1>1, <2>1, <3>1, UndisturbedAsync DEF Inv
  <2> QED BY <1>8, <1>10, <1>11, <1>12, <2>3, <2>4 DEF Inv
<1>15. CASE buf[b].async
  <2>1. NextAsync(th, n)
    BY <1>4, <1>5, <1>15 DEF FreeBuffer
  <2>2. \A p \in Proc : p # n => async_todo'[p] = async_todo[p] /\ has_async'[p] = has_async[p]
    BY <2>1 DEF NextAsync, Sound, TypeOK
  <2>3. ASSUME NEW p \in alive' \ {closing'}, p # n
        PROVE  AsyncAt(buf', async_todo'[p], has_async'[p], p)
    <3>1. p \in alive \ {closing} /\ p \in Proc
      BY <1>1, <2>3 DEF Sound, TypeOK
    <3>2. \A c \in Buf : Quiet(buf, buf', async_todo[p], c, p)
      BY <1>4, <1>13, <1>15, <2>3 DEF Quiet
    <3> QED BY <1>6, <2>2, <2>3, <3>1, <3>2, AsyncKept
  <2>4. PICK bf, bg, q, h : bf = buf /\ bg = buf' /\ q = async_todo[n] /\ h = has_async[n]
    OBVIOUS
  <2>5. /\ AsyncAt(bf, q, h, n) /\ b \in ActiveOf(bf, q, n)
        /\ ~bg[b].async /\ \A c \in Buf : c # b => bg[c] = bf[c]
    BY <1>4, <1>5, <1>6, <1>7, <1>13, <1>15, <2>4
  <2>6. CASE q = <<>>
    <3>1. has_async' = [has_async EXCEPT ![n] = FALSE] /\ async_todo' = async_todo /\ todo' = todo
      BY <2>1, <2>4, <2>6 DEF NextAsync
    <3>2. Lists' = Lists
      BY <1>1, <3>1 DEF Lists
    <3>3. MemInv'
      BY <1>1, <1>2, <1>4, <3>2 DEF MemInv
    <3>4. PICK g : g = FALSE
      OBVIOUS
    <3>5. AsyncAt(bg, q, g, n)
      BY <2>5, <2>6, <3>4, AsyncDone
    <3>6. AsyncAt(buf', async_todo'[n], has_async'[n], n)
      BY <1>5, <2>4, <3>1, <3>4, <3>5 DEF Sound, TypeOK
    <3>7. AsyncInv'
      BY <2>3, <3>6, AsyncLater
    <3> QED BY <1>8, <1>10, <1>11, <1>12, <3>3, <3>7 DEF Inv
  <2>7. CASE q # <<>>
    <3>1. /\ async_todo' = [async_todo EXCEPT ![n] = Tail(@)] /\ has_async' = has_async
          /\ todo' = [todo EXCEPT ![th] = Append(@, Head(q))]
      BY <2>1, <2>4, <2>7 DEF NextAsync
    <3>2. PICK L, N, M, t : L = Lists /\ N = Lists' /\ M = ListOf(todo, proc_todo, async_todo') /\ t = Head(q)
      OBVIOUS
    <3>3. PICK k : k[1] = "node" /\ k[2] = n /\ Shrunk(L, M, k) /\ L[k] = q
      <4>1. /\ \A v \in Proc : v # n => async_todo'[v] = async_todo[v]
            /\ async_todo[n] # <<>> /\ async_todo'[n] = Tail(async_todo[n])
        BY <1>5, <2>4, <2>7, <3>1 DEF Sound, TypeOK
      <4>2. \E k : k[1] = "node" /\ k[2] = n
                    /\ Shrunk(ListOf(todo, proc_todo, async_todo), ListOf(todo, proc_todo, async_todo'), k)
                    /\ ListOf(todo, proc_todo, async_todo)[k] = async_todo[n]
        <5>1. PICK td, pt, at, au : td = todo /\ pt = proc_todo /\ at = async_todo /\ au = async_todo'
          OBVIOUS
        <5>2. /\ td \in [Thread -> Seq(Work)] /\ pt \in [Proc -> Seq(Txn)]
              /\ at \in [Proc -> Seq(Txn)] /\ au \in [Proc -> Seq(Txn)]
          BY <5>1, Now, Then
        <5>3. (\A v \in Proc : v # n => au[v] = at[v]) /\ at[n] # <<>> /\ au[n] = Tail(at[n])
          BY <4>1, <5>1
        <5>4. OneDrops(at, au, n, Proc)
          BY <1>5, <5>3 DEF OneDrops
        <5>5. Drops(ListOf(td, pt, at), ListOf(td, pt, au), "node", n, at[n])
          BY <5>2, <5>4, NodeListShrinks
        <5> QED BY <5>1, <5>5 DEF Drops
      <4> QED BY <2>4, <3>2, <4>2 DEF Lists
    <3>4. PICK l : l[1] = "thread" /\ l[2] = th /\ Grown(M, N, l, t)
      <4>1. \A v \in Thread : v # th => todo'[v] = todo[v]
        BY <1>9
      <4>2. todo'[th] = Append(todo[th], t)
        BY <3>1, <3>2 DEF Sound, TypeOK
      <4>3. \E l : l[1] = "thread" /\ l[2] = th
                    /\ Grown(ListOf(todo, proc_todo, async_todo'), ListOf(todo', proc_todo, async_todo'), l, t)
        BY <4>1, <4>2, Now, Then, ThreadListGrows
      <4>4. N = ListOf(todo', proc_todo, async_todo')
        BY <1>1, <3>2 DEF Lists
      <4> QED BY <3>2, <4>3, <4>4
    <3>5. PICK ty, top, X : ty = txn' /\ top = Top' /\ X = NULL
      OBVIOUS
    <3>6. Core(ty, bg, top, X, L)
      BY <1>4, <2>4, <3>2, <3>5
    <3>7. Core(ty, bg, top, X, N)
      <4>1. t = Head(L[k]) /\ k[2] = ProcOf[l[2]]
        BY <1>3, <3>2, <3>3, <3>4
      <4>2. Grown(M, N, l, Head(L[k]))
        BY <3>4, <4>1
      <4> QED BY <3>3, <3>4, <3>6, <4>1, <4>2, AsyncMoved
    <3>8. MemInv'
      BY <1>1, <1>2, <2>4, <3>2, <3>5, <3>7 DEF MemInv
    <3>9. q \in Seq(Txn) /\ t \in Txn /\ t # COMPLETE /\ t = Head(L[k])
      BY <1>5, <2>4, <2>7, <3>2, <3>3, Distinct DEF Sound, TypeOK
    <3>10. /\ t \in Und(ty, bg) /\ FitsIn(ty, DestOf(ty, bg), k, t) /\ TxnOK(ty, bg, t)
           /\ ty[t].buffer \in Buf /\ bg[ty[t].buffer].transaction = t
      BY <3>3, <3>6, <3>9, HeadOfList
    <3>11. PICK e : e = ty[t].buffer
      OBVIOUS
    <3>12. e \in Buf /\ e # NULL /\ bg[e].transaction = t /\ bg[e].async /\ bg[e].target_node = n
      <4>1. ty[t].kind = "oneway" /\ DestOf(ty, bg)[t] = n
        BY <3>3, <3>10 DEF FitsIn
      <4>2. e \in Buf /\ e # NULL /\ bg[e].transaction = t
        BY <3>10, <3>11, Distinct
      <4>3. bg[e].proc = n
        BY <3>9, <3>11, <4>1, <4>2 DEF DestOf
      <4>4. bg[e].async /\ bg[e].target_node # NULL
        BY <3>10, <3>11, <4>1, <4>2 DEF TxnOK
      <4>5. BufOK(bg, e)
        BY <3>6, <4>2 DEF Core, MemOK
      <4> QED BY <4>2, <4>3, <4>4, <4>5 DEF BufOK
    <3>13. e # b /\ bf[e].async /\ bf[e].target_node = n /\ bf[e].transaction = t
      BY <2>5, <3>12
    <3>14. \A c \in Buf : bf[c].transaction = t <=> c = e
      <4>1. Linked(txn, buf)
        BY DEF Inv, MemInv, Core, MemType
      <4>2. \A c \in Buf : bf[c].transaction = t <=> txn[t].buffer = c
        BY <2>4, <3>9, <4>1 DEF Linked
      <4> QED BY <3>12, <3>13, <4>2
    <3>15. NoDup(q)
      BY <3>3, <3>6 DEF Core, OnLists, Shrunk
    <3>16. AsyncAt(bg, Tail(q), h, n)
      <4>1. NextLeaves(bf, q, bg, b, e, n)
        BY <2>5, <2>7, <3>2, <3>9, <3>12, <3>13, <3>14, <3>15 DEF NextLeaves
      <4> QED BY <2>5, <4>1, AsyncNext
    <3>17. AsyncAt(buf', async_todo'[n], has_async'[n], n)
      BY <1>5, <2>4, <3>1, <3>16 DEF Sound, TypeOK
    <3>18. AsyncInv'
      BY <2>3, <3>17, AsyncLater
    <3> QED BY <1>8, <1>10, <1>11, <1>12, <3>8, <3>18 DEF Inv
  <2> QED BY <2>6, <2>7
<1> QED BY <1>14, <1>15

-----------------------------------------------------------------------------
(* The reads keep the invariant *)

\* A read adds no thread and nothing that needs one.
LEMMA ThreadsStay ==
    ASSUME Sound, ThreadInv, threads' = threads, exiting = NULL, closing = NULL,
           exiting' = exiting, closing' = closing, \A v \in Thread : wait'[v] \in {"no", wait[v]},
           \A t \in Txn : {txn'[t].from, txn'[t].to_thread} \subseteq threads \cup {NULL},
           \A v \in Thread : todo'[v] = todo[v] \/ v \in threads
    PROVE  ThreadInv'
<1>1. \A t \in Txn : {txn'[t].from, txn'[t].to_thread} \subseteq threads' \cup {NULL}
  OBVIOUS
<1>2. \A v \in Thread \ threads' : todo'[v] = <<>> /\ wait'[v] = "no"
  BY DEF ThreadInv
<1> QED BY <1>1, <1>2 DEF ThreadInv

\* Where a thread that reads is.
LEMMA Reading ==
    ASSUME Sound, Inv, NEW th \in Thread
    PROVE  /\ AtRetry(th) => exiting = NULL /\ closing = NULL
           /\ Awake(th) => exiting = NULL /\ closing = NULL /\ th \in threads
           /\ wait[th] # "no" => th \in threads
<1>1. wait[th] # "no" => th \in threads
  BY DEF Inv, ThreadInv
<1> QED BY <1>1 DEF AtRetry, Running, Awake, Unlocked

\* A read that returns ends the wait of its thread only.
LEMMA Returned ==
    ASSUME Sound, NEW th \in Thread, NEW rest, ReadReturn(th, rest)
    PROVE  wait'[th] = "no" /\ \A v \in Thread : v # th => wait'[v] = wait[v]
BY DEF ReadReturn, Sound, TypeOK

\* The start of a wait keeps the invariant.
LEMMA ReadWaitInv ==
    ASSUME Sound, Sound', Inv, NEW th \in Thread, ReadWait(th)
    PROVE  Inv'
<1>1. /\ AtRetry(th) /\ return_error[th] = "OK" /\ threads' = threads \cup {th} /\ alive' = alive
      /\ stack' = stack /\ todo' = todo /\ return_error' = return_error /\ return_error2' = return_error2
      /\ bug' = bug /\ proc_todo' = proc_todo /\ has_async' = has_async /\ async_todo' = async_todo
      /\ txn' = txn /\ buf' = buf /\ exiting' = exiting /\ closing' = closing
      /\ wait' = [wait EXCEPT ![th] = WaitQueue(th)]
  BY DEF ReadWait, GetThread, nodeVars, memVars, lockVars
<1>2. exiting = NULL /\ closing = NULL
  BY <1>1, Reading
<1>3. /\ \A v \in Thread : v # th => wait'[v] = wait[v]
      /\ wait'[th] = "proc" => stack[th] = NULL /\ todo[th] = <<>>
  BY <1>1 DEF WaitQueue, Sound, TypeOK
<1>4. MemInv' /\ Top' = Top
  BY <1>1, SameMem DEF Inv
<1>5. ErrorInv'
  BY <1>1, <1>4 DEF Inv, ErrorInv
<1>6. ThreadInv'
  <2>1. \A t \in Txn : {txn'[t].from, txn'[t].to_thread} \subseteq threads \cup {NULL, th}
    BY <1>1 DEF Inv, ThreadInv
  <2> QED BY <1>1, <1>2, <1>3, <2>1, ThreadsGrow DEF Inv
<1>7. NoStaleWait'
  BY <1>1, <1>3 DEF Inv, NoStaleWait, binder_has_thread_work
<1>8. AsyncInv'
  BY <1>1, SameAsync DEF Inv
<1> QED BY <1>1, <1>4, <1>5, <1>6, <1>7, <1>8 DEF Inv, NoBug

\* A read of an error keeps the invariant.
LEMMA ReadErrorInv ==
    ASSUME Sound, Sound', Inv, NEW th \in Thread, ReadError(th)
    PROVE  Inv'
<1>1. /\ AtRetry(th) /\ threads' = threads \cup {th} /\ alive' = alive
      /\ stack' = stack /\ todo' = todo
      /\ return_error' = [return_error EXCEPT ![th] = "OK"] /\ return_error2' = [return_error2 EXCEPT ![th] = "OK"]
      /\ bug' = bug /\ proc_todo' = proc_todo /\ has_async' = has_async /\ async_todo' = async_todo
      /\ txn' = txn /\ buf' = buf /\ exiting' = exiting /\ closing' = closing
      /\ ReadReturn(th, proc_todo[ProcOf[th]])
  BY DEF ReadError, GetThread, nodeVars, memVars, lockVars
<1>2. exiting = NULL /\ closing = NULL
  BY <1>1, Reading
<1>3. wait'[th] = "no" /\ \A v \in Thread : v # th => wait'[v] = wait[v]
  BY <1>1, Returned
<1>4. /\ return_error'[th] = "OK" /\ return_error2'[th] = "OK"
      /\ \A v \in Thread : v # th => return_error'[v] = return_error[v] /\ return_error2'[v] = return_error2[v]
  BY <1>1 DEF Sound, TypeOK
<1>5. MemInv' /\ Top' = Top
  BY <1>1, SameMem DEF Inv
<1>6. ErrorInv'
  BY <1>1, <1>4, <1>5 DEF Inv, ErrorInv, Room
<1>7. ThreadInv'
  <2>1. \A t \in Txn : {txn'[t].from, txn'[t].to_thread} \subseteq threads \cup {NULL, th}
    BY <1>1 DEF Inv, ThreadInv
  <2> QED BY <1>1, <1>2, <1>3, <2>1, ThreadsGrow DEF Inv
<1>8. NoStaleWait'
  BY <1>1, <1>3, <1>4 DEF Inv, NoStaleWait, binder_has_thread_work
<1>9. AsyncInv'
  BY <1>1, SameAsync DEF Inv
<1> QED BY <1>1, <1>5, <1>6, <1>7, <1>8, <1>9 DEF Inv, NoBug

\* A thread that goes to sleep or returns with nothing keeps the invariant.
LEMMA ReadNothingInv ==
    ASSUME Sound, Sound', Inv, NEW th \in Thread, ReadSleep(th) \/ ReadInterrupted(th)
    PROVE  Inv'
<1>1. /\ threads' = threads /\ alive' = alive /\ exiting = NULL /\ closing = NULL
      /\ stack' = stack /\ todo' = todo /\ return_error' = return_error /\ return_error2' = return_error2
      /\ bug' = bug /\ proc_todo' = proc_todo /\ has_async' = has_async /\ async_todo' = async_todo
      /\ txn' = txn /\ buf' = buf /\ exiting' = exiting /\ closing' = closing
  BY DEF ReadSleep, ReadInterrupted, Awake, Unlocked, nodeVars, memVars, lockVars
<1>2. \A v \in Thread : wait'[v] \in {"no", wait[v]}
  <2>1. CASE ReadSleep(th)
    BY <2>1 DEF ReadSleep
  <2>2. CASE ReadInterrupted(th)
    <3>1. ReadReturn(th, proc_todo[ProcOf[th]])
      BY <2>2 DEF ReadInterrupted
    <3> QED BY <3>1, Returned
  <2> QED BY <2>1, <2>2
<1>3. MemInv' /\ Top' = Top
  BY <1>1, SameMem DEF Inv
<1>4. ErrorInv'
  BY <1>1, <1>3 DEF Inv, ErrorInv
<1>5. ThreadInv'
  <2>1. \A t \in Txn : {txn'[t].from, txn'[t].to_thread} \subseteq threads \cup {NULL}
    BY <1>1 DEF Inv, ThreadInv
  <2> QED BY <1>1, <1>2, <2>1, ThreadsStay DEF Inv
<1>6. NoStaleWait'
  BY <1>1, <1>2 DEF Inv, NoStaleWait, binder_has_thread_work
<1>7. AsyncInv'
  BY <1>1, SameAsync DEF Inv
<1> QED BY <1>1, <1>3, <1>4, <1>5, <1>6, <1>7 DEF Inv, NoBug

\* The first item of a thread's list is taken off.
LEMMA ThreadTakes ==
    ASSUME Sound, Sound', NEW th \in Thread, todo[th] # <<>>, todo' = [todo EXCEPT ![th] = Tail(@)],
           proc_todo' = proc_todo, async_todo' = async_todo
    PROVE  /\ Drops(Lists, Lists', "thread", th, todo[th])
           /\ \A v \in Thread : v # th => todo'[v] = todo[v]
<1>1. PICK td, pt, at, te : td = todo /\ pt = proc_todo /\ at = async_todo /\ te = todo'
  OBVIOUS
<1>2. /\ td \in [Thread -> Seq(Work)] /\ pt \in [Proc -> Seq(Txn)]
      /\ at \in [Proc -> Seq(Txn)] /\ te \in [Thread -> Seq(Work)]
  BY <1>1, Now, Then
<1>3. OneDrops(td, te, th, Thread)
  BY <1>1, <1>2 DEF OneDrops
<1>4. Drops(ListOf(td, pt, at), ListOf(te, pt, at), "thread", th, td[th])
  BY <1>2, <1>3, ThreadListShrinks
<1>5. \A v \in Thread : v # th => todo'[v] = todo[v]
  BY <1>1, <1>2
<1> QED BY <1>1, <1>4, <1>5 DEF Lists

\* The first item of a process's list is taken off.
LEMMA ProcTakes ==
    ASSUME Sound, Sound', NEW p \in Proc, proc_todo[p] # <<>>, proc_todo' = [proc_todo EXCEPT ![p] = Tail(@)],
           todo' = todo, async_todo' = async_todo
    PROVE  Drops(Lists, Lists', "proc", p, proc_todo[p])
<1>1. PICK td, pt, at, pu : td = todo /\ pt = proc_todo /\ at = async_todo /\ pu = proc_todo'
  OBVIOUS
<1>2. /\ td \in [Thread -> Seq(Work)] /\ pt \in [Proc -> Seq(Txn)]
      /\ at \in [Proc -> Seq(Txn)] /\ pu \in [Proc -> Seq(Txn)]
  BY <1>1, Now, Then
<1>3. OneDrops(pt, pu, p, Proc)
  BY <1>1, <1>2 DEF OneDrops
<1>4. Drops(ListOf(td, pt, at), ListOf(td, pu, at), "proc", p, pt[p])
  BY <1>2, <1>3, ProcListShrinks
<1> QED BY <1>1, <1>4 DEF Lists

\* A read of BR_TRANSACTION_COMPLETE keeps the invariant.
LEMMA ReadCompleteInv ==
    ASSUME Sound, Sound', Inv, NEW th \in Thread, ReadComplete(th)
    PROVE  Inv'
<1>1. /\ Awake(th) /\ threads' = threads /\ alive' = alive
      /\ stack' = stack /\ return_error' = return_error /\ return_error2' = return_error2
      /\ bug' = bug /\ proc_todo' = proc_todo /\ has_async' = has_async /\ async_todo' = async_todo
      /\ txn' = txn /\ buf' = buf /\ exiting' = exiting /\ closing' = closing
      /\ todo[th] # <<>> /\ Head(todo[th]) = COMPLETE /\ todo' = [todo EXCEPT ![th] = Tail(@)]
      /\ ReadReturn(th, proc_todo[ProcOf[th]])
  BY DEF ReadComplete, nodeVars, memVars, lockVars
<1>2. exiting = NULL /\ closing = NULL /\ th \in threads
  BY <1>1, Reading
<1>3. wait'[th] = "no" /\ \A v \in Thread : v # th => wait'[v] = wait[v]
  BY <1>1, Returned
<1>4. /\ Drops(Lists, Lists', "thread", th, todo[th])
      /\ \A v \in Thread : v # th => todo'[v] = todo[v]
  BY <1>1, ThreadTakes
<1>5. Top' = Top
  BY <1>1 DEF Top
<1>6. MemInv'
  <2>1. PICK tx, bf, top, L, M, X : tx = txn /\ bf = buf /\ top = Top /\ L = Lists /\ M = Lists' /\ X = exiting
    OBVIOUS
  <2>2. PICK k : Shrunk(L, M, k) /\ Head(L[k]) = COMPLETE
    BY <1>1, <1>4, <2>1 DEF Drops
  <2>3. Core(tx, bf, top, X, L)
    BY <2>1 DEF Inv, MemInv
  <2>4. Core(tx, bf, top, X, M)
    BY <2>2, <2>3, CompleteRead
  <2> QED BY <1>1, <1>5, <2>1, <2>4 DEF MemInv
<1>7. ErrorInv'
  BY <1>1, <1>5 DEF Inv, ErrorInv
<1>8. ThreadInv'
  <2>1. \A t \in Txn : {txn'[t].from, txn'[t].to_thread} \subseteq threads \cup {NULL}
    BY <1>1 DEF Inv, ThreadInv
  <2>2. \A v \in Thread : wait'[v] \in {"no", wait[v]} /\ (todo'[v] = todo[v] \/ v \in threads)
    BY <1>2, <1>3, <1>4
  <2> QED BY <1>1, <1>2, <2>1, <2>2, ThreadsStay DEF Inv
<1>9. NoStaleWait'
  BY <1>1, <1>3, <1>4 DEF Inv, NoStaleWait, binder_has_thread_work
<1>10. AsyncInv'
  BY <1>1, SameAsync DEF Inv
<1> QED BY <1>1, <1>6, <1>7, <1>8, <1>9, <1>10 DEF Inv, NoBug

\* The buffers after a delivery to th of the item t of a list that is not a node's.
LEMMA DeliveredAsync ==
    ASSUME Sound, Sound', Inv, NEW th \in Thread, NEW t \in Txn, DeliveryOf(th, t),
           async_todo' = async_todo, has_async' = has_async, alive' = alive, closing' = closing,
           \A p \in Proc : t \notin Items(async_todo[p])
    PROVE  AsyncInv'
<1>1. ASSUME NEW p \in alive', NEW c \in Buf
      PROVE  Quiet(buf, buf', async_todo[p], c, p)
  <2>1. p \in Proc /\ NULL \notin Items(async_todo[p])
    BY Distinct DEF Sound, TypeOK, Items
  <2>2. /\ buf'[c].target_node = buf[c].target_node /\ buf'[c].async = buf[c].async
        /\ \/ SameBuf(buf, buf', c) /\ buf'[c].transaction = buf[c].transaction
           \/ ~buf[c].async
           \/ buf[c].transaction = t /\ buf'[c].transaction = NULL /\ buf'[c].allow_user_free
    BY DEF DeliveryOf
  <2> QED BY <2>1, <2>2 DEF Quiet, SameBuf
<1> QED BY <1>1, AsyncFrame DEF Inv

\* An item of another list is not in the queue of a node.
LEMMA NotInNode ==
    ASSUME Sound, Inv, NEW k \in ListKeys, k[1] # "node", NEW t \in Txn, t \in Items(Lists[k]), NEW p \in Proc
    PROVE  t \notin Items(async_todo[p])
<1>1. PICK l : l = <<"node", p>>
  OBVIOUS
<1>2. l \in ListKeys /\ l[1] = "node" /\ l[2] = p
  BY <1>1 DEF ListKeys
<1>3. Lists[l] = async_todo[p]
  BY <1>2 DEF Lists, ListOf
<1>4. OnLists(Lists, Und(txn, buf))
  BY DEF Inv, MemInv, Core
<1> QED BY <1>2, <1>3, <1>4 DEF OnLists

\* What the two reads that deliver have in common.
Delivers(th, k, t) ==
    /\ Awake(th) /\ threads' = threads /\ alive' = alive
    /\ return_error' = return_error /\ return_error2' = return_error2
    /\ has_async' = has_async /\ async_todo' = async_todo /\ exiting' = exiting /\ closing' = closing
    /\ \A v \in Thread : v # th => todo'[v] = todo[v]
    /\ wait'[th] = "no" /\ \A v \in Thread : v # th => wait'[v] = wait[v]
    /\ Shrunk(Lists, Lists', k) /\ t = Head(Lists[k]) /\ t # COMPLETE
    /\ (k[1] = "thread" /\ k[2] = th) \/ (k[1] = "proc" /\ k[2] = ProcOf[th] /\ stack[th] = NULL)
    /\ Deliver(th, t)

\* A delivery keeps the invariant.
LEMMA DeliverInv ==
    ASSUME Sound, Sound', Inv, NEW th \in Thread, NEW k, NEW t, Delivers(th, k, t)
    PROVE  Inv'
<1>1. /\ Awake(th) /\ threads' = threads /\ alive' = alive
      /\ return_error' = return_error /\ return_error2' = return_error2
      /\ has_async' = has_async /\ async_todo' = async_todo /\ exiting' = exiting /\ closing' = closing
      /\ \A v \in Thread : v # th => todo'[v] = todo[v]
      /\ wait'[th] = "no" /\ \A v \in Thread : v # th => wait'[v] = wait[v]
  BY DEF Delivers
<1>2. /\ Shrunk(Lists, Lists', k) /\ t = Head(Lists[k]) /\ t # COMPLETE /\ Deliver(th, t)
      /\ (k[1] = "thread" /\ k[2] = th) \/ (k[1] = "proc" /\ k[2] = ProcOf[th] /\ stack[th] = NULL)
  BY DEF Delivers
<1>3. exiting = NULL /\ closing = NULL /\ th \in threads
  BY <1>1, Reading
<1>4. MemInv' /\ ErrorInv' /\ NoBug' /\ DeliveryOf(th, t)
  BY <1>1, <1>2, <1>3, DeliverMem DEF Inv
<1>5. t \in Txn /\ \A p \in Proc : t \notin Items(async_todo[p])
  <2>1. OnLists(Lists, Und(txn, buf))
    BY DEF Inv, MemInv, Core
  <2>2. t \in Items(Lists[k]) /\ t \in Work /\ k \in ListKeys
    BY <1>2, <2>1, ListShrinks DEF Shrunk
  <2>3. t \in Txn /\ k[1] # "node"
    BY <1>2, <2>2 DEF Work
  <2> QED BY <2>2, <2>3, NotInNode
<1>6. AsyncInv'
  BY <1>1, <1>4, <1>5, DeliveredAsync
<1>7. ThreadInv'
  <2>1. \A x \in Txn : {txn[x].from, txn[x].to_thread} \subseteq threads \cup {NULL}
    BY DEF Inv, ThreadInv
  <2>2. \A x \in Txn : txn'[x].from \in {NULL, txn[x].from} /\ txn'[x].to_thread \in {NULL, txn[x].to_thread, th}
    BY <1>4 DEF DeliveryOf
  <2>3. \A x \in Txn : {txn'[x].from, txn'[x].to_thread} \subseteq threads \cup {NULL}
    BY <1>3, <2>1, <2>2
  <2>4. \A v \in Thread : wait'[v] \in {"no", wait[v]} /\ (todo'[v] = todo[v] \/ v \in threads)
    BY <1>1, <1>3
  <2> QED BY <1>1, <1>3, <2>3, <2>4, ThreadsStay DEF Inv
<1>8. NoStaleWait'
  <2>1. \A v \in Thread : v # th => stack'[v] = stack[v]
    BY <1>4 DEF DeliveryOf
  <2> QED BY <1>1, <2>1 DEF Inv, NoStaleWait, binder_has_thread_work
<1> QED BY <1>4, <1>6, <1>7, <1>8 DEF Inv

\* A read of the thread's own work keeps the invariant.
LEMMA ReadThreadWorkInv ==
    ASSUME Sound, Sound', Inv, NEW th \in Thread, ReadThreadWork(th)
    PROVE  Inv'
<1>1. /\ Awake(th) /\ threads' = threads /\ alive' = alive
      /\ return_error' = return_error /\ return_error2' = return_error2
      /\ proc_todo' = proc_todo /\ has_async' = has_async /\ async_todo' = async_todo
      /\ exiting' = exiting /\ closing' = closing
      /\ todo[th] # <<>> /\ Head(todo[th]) # COMPLETE /\ todo' = [todo EXCEPT ![th] = Tail(@)]
      /\ Deliver(th, Head(todo[th])) /\ ReadReturn(th, proc_todo[ProcOf[th]])
  BY DEF ReadThreadWork, nodeVars, lockVars
<1>2. wait'[th] = "no" /\ \A v \in Thread : v # th => wait'[v] = wait[v]
  BY <1>1, Returned
<1>3. /\ Drops(Lists, Lists', "thread", th, todo[th])
      /\ \A v \in Thread : v # th => todo'[v] = todo[v]
  BY <1>1, ThreadTakes
<1>4. PICK k : k[1] = "thread" /\ k[2] = th /\ Shrunk(Lists, Lists', k) /\ Lists[k] = todo[th]
  BY <1>3 DEF Drops
<1>5. Delivers(th, k, Head(todo[th]))
  BY <1>1, <1>2, <1>3, <1>4 DEF Delivers
<1> QED BY <1>5, DeliverInv

\* A read of work of the process keeps the invariant.
LEMMA ReadProcWorkInv ==
    ASSUME Sound, Sound', Inv, NEW th \in Thread, ReadProcWork(th)
    PROVE  Inv'
<1>1. PICK p : p = ProcOf[th]
  OBVIOUS
<1>2. /\ Awake(th) /\ threads' = threads /\ alive' = alive
      /\ return_error' = return_error /\ return_error2' = return_error2
      /\ todo' = todo /\ has_async' = has_async /\ async_todo' = async_todo
      /\ exiting' = exiting /\ closing' = closing /\ wait[th] = "proc"
      /\ proc_todo[p] # <<>> /\ proc_todo' = [proc_todo EXCEPT ![p] = Tail(@)]
      /\ Deliver(th, Head(proc_todo[p])) /\ ReadReturn(th, Tail(proc_todo[p]))
  BY <1>1 DEF ReadProcWork, lockVars
<1>3. wait'[th] = "no" /\ \A v \in Thread : v # th => wait'[v] = wait[v]
  BY <1>2, Returned
<1>4. p \in Proc
  BY <1>1, ProcOfType
<1>5. Drops(Lists, Lists', "proc", p, proc_todo[p])
  BY <1>2, <1>4, ProcTakes
<1>6. PICK k : k[1] = "proc" /\ k[2] = p /\ Shrunk(Lists, Lists', k) /\ Lists[k] = proc_todo[p]
  BY <1>5 DEF Drops
<1>7. stack[th] = NULL
  BY <1>2 DEF Inv, NoStaleWait
<1>8. Head(proc_todo[p]) # COMPLETE
  <2>1. proc_todo[p] \in Seq(Txn)
    BY <1>4 DEF Sound, TypeOK
  <2> QED BY <1>2, <2>1, Distinct
<1>9. Delivers(th, k, Head(proc_todo[p]))
  BY <1>1, <1>2, <1>3, <1>6, <1>7, <1>8 DEF Delivers
<1> QED BY <1>9, DeliverInv

-----------------------------------------------------------------------------
(* Threads and processes that go keep the invariant *)

\* The first part of binder_free_thread keeps the invariant.
LEMMA StartFreeInv ==
    ASSUME Sound, Sound', Inv, exiting = NULL, NEW th \in Thread, StartFreeThread(th),
           threads' \in {threads, threads \cup {th}}, wait[th] = "no",
           IF closing = NULL THEN th \in Exits ELSE ProcOf[th] = closing
    PROVE  Inv'
<1>1. /\ exiting' = th /\ alive' = alive /\ todo' = todo /\ wait' = wait /\ closing' = closing
      /\ proc_todo' = proc_todo /\ has_async' = has_async /\ async_todo' = async_todo
  BY DEF StartFreeThread, nodeVars
<1>2. MemInv' /\ ErrorInv' /\ NoBug' /\ Undisturbed
  BY StartFreeMem DEF Inv
<1>3. ThreadInv'
  <2>1. \A t \in Txn : {txn[t].from, txn[t].to_thread} \subseteq threads \cup {NULL}
    BY DEF Inv, ThreadInv
  <2>2. \A t \in Txn : {txn'[t].from, txn'[t].to_thread} \subseteq {NULL, txn[t].from, txn[t].to_thread}
    BY <1>2 DEF Undisturbed
  <2>3. \A t \in Txn : {txn'[t].from, txn'[t].to_thread} \subseteq threads' \cup {NULL}
    BY <2>1, <2>2
  <2>4. \A v \in Thread \ threads' : todo'[v] = <<>> /\ wait'[v] = "no"
    BY <1>1 DEF Inv, ThreadInv
  <2>5. closing # NULL => \A v \in ThreadsOf(closing) : wait[v] = "no"
    BY DEF Inv, ThreadInv
  <2> QED BY <1>1, <2>3, <2>4, <2>5 DEF ThreadInv
<1>4. NoStaleWait'
  BY <1>1, <1>2 DEF Inv, NoStaleWait, binder_has_thread_work, Undisturbed
<1>5. AsyncInv'
  <2>1. \A c \in Buf : SameBuf(buf, buf', c) /\ (buf[c].async => buf'[c].transaction = buf[c].transaction)
    BY <1>2 DEF Undisturbed
  <2> QED BY <1>1, <2>1, UndisturbedAsync DEF Inv
<1> QED BY <1>2, <1>3, <1>4, <1>5 DEF Inv

\* BINDER_THREAD_EXIT keeps the invariant.
LEMMA ThreadExitInv ==
    ASSUME Sound, Sound', Inv, NEW th \in Thread, ThreadExit(th)
    PROVE  Inv'
<1>1. /\ exiting = NULL /\ closing = NULL /\ th \in Exits /\ wait[th] = "no"
      /\ threads' = threads \cup {th} /\ StartFreeThread(th)
  BY DEF ThreadExit, Running, Unlocked, GetThread
<1> QED BY <1>1, StartFreeInv

\* The release of a thread of a process that closes keeps the invariant.
LEMMA ReleaseThreadInv ==
    ASSUME Sound, Sound', Inv, NEW p \in Proc, NEW th \in Thread, ReleaseThread(p, th)
    PROVE  Inv'
<1>1. /\ exiting = NULL /\ closing = p /\ p # NULL /\ th \in ThreadsOf(p) /\ ProcOf[th] = p
      /\ threads' = threads /\ StartFreeThread(th)
  BY Distinct DEF ReleaseThread, Closing, ThreadsOf
<1>2. wait[th] = "no"
  BY <1>1 DEF Inv, ThreadInv
<1> QED BY <1>1, <1>2, StartFreeInv

\* The release of the item w of the list k, in general.
Releases(k, w) ==
    /\ alive' = alive /\ threads' = threads /\ wait' = wait /\ exiting' = exiting /\ closing' = closing
    /\ has_async' = has_async
    /\ Shrunk(Lists, Lists', k) /\ w = Head(Lists[k]) /\ ReleaseItem(w)
    /\ \A v \in Thread : todo'[v] = todo[v] \/ (v \in threads /\ wait[v] = "no")
    /\ \A q \in alive \ {closing} : async_todo'[q] = async_todo[q]
    /\ k[1] # "node" \/ HomeOf(k) = closing
    /\ HomeOf(k) = closing \/ (Exits \cap ThreadsOf(HomeOf(k)) # {})

\* The release of one item keeps the invariant.
LEMMA ReleaseItemInv ==
    ASSUME Sound, Sound', Inv, NEW k, NEW w, Releases(k, w)
    PROVE  Inv'
<1>1. /\ alive' = alive /\ threads' = threads /\ wait' = wait /\ exiting' = exiting /\ closing' = closing
      /\ has_async' = has_async
  BY DEF Releases
<1>2. Shrunk(Lists, Lists', k) /\ w = Head(Lists[k]) /\ ReleaseItem(w)
  BY DEF Releases
<1>3. MemInv' /\ ErrorInv' /\ NoBug' /\ Spares(k, w)
  BY <1>1, <1>2, ReleaseItemMem DEF Inv
<1>4. ThreadInv'
  <2>1. \A t \in Txn : {txn[t].from, txn[t].to_thread} \subseteq threads \cup {NULL}
    BY DEF Inv, ThreadInv
  <2>2. \A t \in Txn : {txn'[t].from, txn'[t].to_thread} \subseteq {NULL, txn[t].from, txn[t].to_thread}
    BY <1>3 DEF Spares
  <2>3. \A t \in Txn : {txn'[t].from, txn'[t].to_thread} \subseteq threads \cup {NULL}
    BY <2>1, <2>2
  <2>4. \A v \in Thread \ threads : todo'[v] = <<>> /\ wait[v] = "no"
    BY DEF Inv, ThreadInv, Releases
  <2> QED BY <1>1, <2>3, <2>4 DEF Inv, ThreadInv
<1>5. NoStaleWait'
  <2>1. \A v \in Thread : wait[v] = "proc" => todo'[v] = todo[v]
    BY DEF Releases
  <2>2. \A v \in Thread : wait[v] = "proc" => stack'[v] = stack[v] /\ return_error'[v] = return_error[v]
    BY <1>3 DEF Spares
  <2> QED BY <1>1, <2>1, <2>2 DEF Inv, NoStaleWait, binder_has_thread_work
<1>6. ASSUME NEW p \in alive \ {closing}, NEW c \in Buf
      PROVE  Quiet(buf, buf', async_todo[p], c, p)
  <2>1. p \in Proc /\ p # NULL /\ NULL \notin Items(async_todo[p])
    BY Distinct DEF Sound, TypeOK, Items
  <2>2. /\ SameBuf(buf, buf', c)
        /\ buf[c].async /\ buf'[c].transaction # buf[c].transaction =>
              buf'[c].transaction = NULL /\ buf[c].transaction = w /\ buf[c].proc = HomeOf(k)
    BY <1>3 DEF Spares
  <2>3. CASE buf'[c].transaction = buf[c].transaction \/ ~buf[c].async \/ buf[c].target_node # p
    BY <2>2, <2>3 DEF Quiet, SameBuf
  <2>4. CASE buf'[c].transaction # buf[c].transaction /\ buf[c].async /\ buf[c].target_node = p
    <3>1. buf'[c].transaction = NULL /\ buf[c].transaction = w /\ buf[c].proc = HomeOf(k)
      BY <2>2, <2>4
    <3>2. buf[c].proc = p
      <4>1. BufOK(buf, c)
        BY DEF Inv, MemInv, Core, MemOK
      <4> QED BY <2>1, <2>4, <4>1 DEF BufOK
    <3>3. k[1] # "node" /\ Exits \cap ThreadsOf(p) # {}
      BY <3>1, <3>2 DEF Releases
    <3>4. w \in Txn
      <4>1. buf[c].transaction \in Txn \cup {NULL}
        BY Now, MemFields
      <4> QED BY <2>4, <3>1, <4>1
    <3>5. w \in Items(Lists[k]) /\ k \in ListKeys
      <4>1. OnLists(Lists, Und(txn, buf))
        BY DEF Inv, MemInv, Core
      <4> QED BY <1>2, <4>1, ListShrinks DEF Shrunk
    <3>6. w \notin Items(async_todo[p])
      BY <2>1, <3>3, <3>4, <3>5, NotInNode
    <3> QED BY <2>1, <2>2, <3>1, <3>3, <3>6 DEF Quiet, SameBuf
  <2> QED BY <2>3, <2>4
<1>7. AsyncInv'
  <2>1. \A p \in alive' \ {closing'} : async_todo'[p] = async_todo[p]
    BY <1>1 DEF Releases
  <2> QED BY <1>1, <1>6, <2>1, AsyncFrame DEF Inv
<1> QED BY <1>3, <1>4, <1>5, <1>7 DEF Inv

\* The release of an item of a thread's list keeps the invariant.
LEMMA ReleaseThreadWorkInv ==
    ASSUME Sound, Sound', Inv, NEW th \in Thread, ReleaseThreadWork(th)
    PROVE  Inv'
<1>1. /\ exiting = th /\ todo[th] # <<>> /\ ReleaseItem(Head(todo[th])) /\ todo' = [todo EXCEPT ![th] = Tail(@)]
      /\ alive' = alive /\ threads' = threads /\ wait' = wait /\ exiting' = exiting /\ closing' = closing
      /\ proc_todo' = proc_todo /\ has_async' = has_async /\ async_todo' = async_todo
  BY DEF ReleaseThreadWork, nodeVars, lockVars
<1>2. /\ th # NULL /\ wait[th] = "no" /\ th \in threads
      /\ IF closing = NULL THEN th \in Exits ELSE ProcOf[th] = closing
  BY <1>1, Distinct DEF Inv, ThreadInv
<1>3. /\ Drops(Lists, Lists', "thread", th, todo[th])
      /\ \A v \in Thread : v # th => todo'[v] = todo[v]
  BY <1>1, ThreadTakes
<1>4. PICK k : k[1] = "thread" /\ k[2] = th /\ Shrunk(Lists, Lists', k) /\ Lists[k] = todo[th]
  BY <1>3 DEF Drops
<1>5. HomeOf(k) = ProcOf[th]
  BY <1>4 DEF HomeOf
<1>6. HomeOf(k) = closing \/ Exits \cap ThreadsOf(HomeOf(k)) # {}
  BY <1>2, <1>5 DEF ThreadsOf
<1>7. Releases(k, Head(todo[th]))
  BY <1>1, <1>2, <1>3, <1>4, <1>6 DEF Releases
<1> QED BY <1>7, ReleaseItemInv

\* The release of an item of a node's queue keeps the invariant.
LEMMA ReleaseAsyncWorkInv ==
    ASSUME Sound, Sound', Inv, NEW p \in Proc, ReleaseAsyncWork(p)
    PROVE  Inv'
<1>1. /\ closing = p /\ async_todo[p] # <<>> /\ ReleaseItem(Head(async_todo[p]))
      /\ async_todo' = [async_todo EXCEPT ![p] = Tail(@)]
      /\ alive' = alive /\ threads' = threads /\ wait' = wait /\ exiting' = exiting /\ closing' = closing
      /\ proc_todo' = proc_todo /\ has_async' = has_async /\ todo' = todo
  BY DEF ReleaseAsyncWork, Closing, lockVars
<1>2. Drops(Lists, Lists', "node", p, async_todo[p]) /\ \A q \in Proc : q # p => async_todo'[q] = async_todo[q]
  <2>1. PICK td, pt, at, au : td = todo /\ pt = proc_todo /\ at = async_todo /\ au = async_todo'
    OBVIOUS
  <2>2. /\ td \in [Thread -> Seq(Work)] /\ pt \in [Proc -> Seq(Txn)]
        /\ at \in [Proc -> Seq(Txn)] /\ au \in [Proc -> Seq(Txn)]
    BY <2>1, Now, Then
  <2>3. OneDrops(at, au, p, Proc)
    BY <1>1, <2>1, <2>2 DEF OneDrops
  <2>4. Drops(ListOf(td, pt, at), ListOf(td, pt, au), "node", p, at[p])
    BY <2>2, <2>3, NodeListShrinks
  <2>5. \A q \in Proc : q # p => async_todo'[q] = async_todo[q]
    BY <2>1, <2>3 DEF OneDrops
  <2> QED BY <1>1, <2>1, <2>4, <2>5 DEF Lists
<1>3. PICK k : k[1] = "node" /\ k[2] = p /\ Shrunk(Lists, Lists', k) /\ Lists[k] = async_todo[p]
  BY <1>2 DEF Drops
<1>4. HomeOf(k) = closing
  BY <1>1, <1>3 DEF HomeOf
<1>5. \A q \in alive \ {closing} : async_todo'[q] = async_todo[q]
  BY <1>1, <1>2 DEF Sound, TypeOK
<1>6. Releases(k, Head(async_todo[p]))
  BY <1>1, <1>3, <1>4, <1>5 DEF Releases
<1> QED BY <1>6, ReleaseItemInv

\* The release of an item of a process's list keeps the invariant.
LEMMA ReleaseProcWorkInv ==
    ASSUME Sound, Sound', Inv, NEW p \in Proc, ReleaseProcWork(p)
    PROVE  Inv'
<1>1. /\ closing = p /\ proc_todo[p] # <<>> /\ ReleaseItem(Head(proc_todo[p]))
      /\ proc_todo' = [proc_todo EXCEPT ![p] = Tail(@)]
      /\ alive' = alive /\ threads' = threads /\ wait' = wait /\ exiting' = exiting /\ closing' = closing
      /\ async_todo' = async_todo /\ has_async' = has_async /\ todo' = todo
  BY DEF ReleaseProcWork, Closing, lockVars
<1>2. Drops(Lists, Lists', "proc", p, proc_todo[p])
  BY <1>1, ProcTakes
<1>3. PICK k : k[1] = "proc" /\ k[2] = p /\ Shrunk(Lists, Lists', k) /\ Lists[k] = proc_todo[p]
  BY <1>2 DEF Drops
<1>4. HomeOf(k) = closing
  BY <1>1, <1>3 DEF HomeOf
<1>5. Releases(k, Head(proc_todo[p]))
  BY <1>1, <1>3, <1>4 DEF Releases
<1> QED BY <1>5, ReleaseItemInv

\* The end of binder_free_thread keeps the invariant.
LEMMA FinishFreeInv ==
    ASSUME Sound, Sound', Inv, NEW th \in Thread, FinishFreeThread(th)
    PROVE  Inv'
<1>1. /\ exiting = th /\ todo[th] = <<>> /\ exiting' = NULL /\ threads' = threads \ {th}
      /\ stack' = [stack EXCEPT ![th] = NULL] /\ return_error' = [return_error EXCEPT ![th] = "OK"]
      /\ return_error2' = [return_error2 EXCEPT ![th] = "OK"]
      /\ alive' = alive /\ todo' = todo /\ wait' = wait /\ proc_todo' = proc_todo
      /\ has_async' = has_async /\ async_todo' = async_todo /\ txn' = txn /\ buf' = buf
      /\ closing' = closing /\ bug' = bug
  BY DEF FinishFreeThread, nodeVars, memVars
<1>2. /\ th # NULL /\ wait[th] = "no"
  BY <1>1, Distinct DEF Inv, ThreadInv
<1>3. /\ stack'[th] = NULL /\ return_error'[th] = "OK" /\ return_error2'[th] = "OK"
      /\ \A v \in Thread : v # th => /\ stack'[v] = stack[v] /\ return_error'[v] = return_error[v]
                                     /\ return_error2'[v] = return_error2[v]
  BY <1>1 DEF Sound, TypeOK
<1>4. Top' = Top /\ Lists' = Lists /\ Top[th] = NULL
  <2>1. \A v \in Thread : (IF v = exiting' THEN NULL ELSE stack'[v]) = (IF v = exiting THEN NULL ELSE stack[v])
    BY <1>1, <1>3, Distinct
  <2> QED BY <1>1, <2>1 DEF Top, Lists
<1>5. Core(txn, buf, Top, NULL, Lists) /\ \A t \in Txn : txn[t].from # th /\ txn[t].to_thread # th
  <2>1. PICK tx, bf, top, L, X : tx = txn /\ bf = buf /\ top = Top /\ L = Lists /\ X = exiting
    OBVIOUS
  <2>2. Core(tx, bf, top, X, L) /\ X = th /\ top[th] = NULL
    BY <1>1, <1>4, <2>1 DEF Inv, MemInv
  <2>3. L[<<"thread", th>>] = <<>>
    <3>1. PICK k : k = <<"thread", th>>
      OBVIOUS
    <3>2. k \in ListKeys /\ k[1] = "thread" /\ k[2] = th
      BY <3>1 DEF ListKeys
    <3>3. L[k] = todo[th]
      BY <2>1, <3>2 DEF Lists, ListOf
    <3> QED BY <1>1, <3>1, <3>3
  <2>4. Core(tx, bf, top, NULL, L) /\ \A t \in Txn : tx[t].from # th /\ tx[t].to_thread # th
    BY <2>2, <2>3, ThreadGone
  <2> QED BY <2>1, <2>4
<1>6. MemInv'
  BY <1>1, <1>4, <1>5 DEF MemInv
<1>7. ErrorInv'
  BY <1>1, <1>3, <1>4 DEF Inv, ErrorInv, Room
<1>8. ThreadInv'
  <2>1. \A t \in Txn : {txn[t].from, txn[t].to_thread} \subseteq threads \cup {NULL}
    BY DEF Inv, ThreadInv
  <2>2. \A t \in Txn : {txn'[t].from, txn'[t].to_thread} \subseteq threads' \cup {NULL}
    BY <1>1, <1>5, <2>1
  <2>3. \A v \in Thread \ threads' : todo'[v] = <<>> /\ wait'[v] = "no"
    BY <1>1, <1>2 DEF Inv, ThreadInv
  <2>4. closing # NULL => \A v \in ThreadsOf(closing) : wait[v] = "no"
    BY DEF Inv, ThreadInv
  <2> QED BY <1>1, <2>2, <2>3, <2>4 DEF ThreadInv
<1>9. NoStaleWait'
  BY <1>1, <1>2, <1>3 DEF Inv, NoStaleWait, binder_has_thread_work
<1>10. AsyncInv'
  BY <1>1, SameAsync DEF Inv
<1> QED BY <1>1, <1>6, <1>7, <1>8, <1>9, <1>10 DEF Inv, NoBug

\* The start of binder_deferred_release keeps the invariant.
LEMMA StartReleaseInv ==
    ASSUME Sound, Sound', Inv, NEW p \in Proc, StartRelease(p)
    PROVE  Inv'
<1>1. /\ exiting = NULL /\ closing = NULL /\ closing' = p /\ \A th \in ThreadsOf(p) : wait[th] = "no"
      /\ alive' = alive /\ threads' = threads /\ stack' = stack /\ todo' = todo
      /\ return_error' = return_error /\ return_error2' = return_error2 /\ wait' = wait
      /\ proc_todo' = proc_todo /\ has_async' = has_async /\ async_todo' = async_todo
      /\ txn' = txn /\ buf' = buf /\ exiting' = exiting /\ bug' = bug
  BY DEF StartRelease, Unlocked, threadVars, nodeVars, memVars
<1>2. MemInv' /\ Top' = Top
  BY <1>1, SameMem DEF Inv
<1>3. ErrorInv'
  BY <1>1, <1>2 DEF Inv, ErrorInv
<1>4. ThreadInv'
  BY <1>1 DEF Inv, ThreadInv
<1>5. NoStaleWait'
  BY <1>1 DEF Inv, NoStaleWait, binder_has_thread_work
<1>6. AsyncInv'
  <2>1. alive' \ {closing'} \subseteq alive \ {closing}
    BY <1>1, Distinct DEF Sound, TypeOK
  <2> QED BY <1>1, <2>1, SameAsync DEF Inv
<1> QED BY <1>1, <1>2, <1>3, <1>4, <1>5, <1>6 DEF Inv, NoBug

\* No transaction is left in the buffers of a process whose threads and lists are gone.
LEMMA NoneLeft ==
    ASSUME Sound, Inv, NEW p \in Proc, ThreadsOf(p) \cap threads = {}, async_todo[p] = <<>>, proc_todo[p] = <<>>,
           NEW t \in Txn, NEW b \in Buf, txn[t].buffer = b, buf[b].proc = p
    PROVE  FALSE
<1>1. TxnOK(txn, buf, t) /\ b # NULL
  BY Distinct DEF Inv, MemInv, Core, MemOK
<1>2. CASE t \in Und(txn, buf)
  <2>1. OnLists(Lists, Und(txn, buf)) /\ Fit(txn, DestOf(txn, buf), Lists)
    BY DEF Inv, MemInv, Core
  <2>2. PICK k \in ListKeys : t \in Items(Lists[k])
    BY <1>2, <2>1 DEF OnLists
  <2>3. FitsIn(txn, DestOf(txn, buf), k, t)
    BY <2>1, <2>2 DEF Fit
  <2>4. DestOf(txn, buf)[t] = p
    BY <1>1 DEF DestOf
  <2>5. Lists[k] # <<>>
    BY <2>2 DEF Items
  <2>6. CASE k[1] = "thread"
    <3>1. k[2] \in Thread /\ ProcOf[k[2]] = p
      BY <2>2, <2>3, <2>4, <2>6 DEF ListKeys, FitsIn
    <3>2. k[2] \notin threads
      BY <3>1 DEF ThreadsOf
    <3>3. Lists[k] = todo[k[2]]
      BY <2>2, <2>6 DEF Lists, ListOf
    <3> QED BY <2>5, <3>1, <3>2, <3>3 DEF Inv, ThreadInv
  <2>7. CASE k[1] = "proc"
    <3>1. k[2] = p
      BY <2>3, <2>4, <2>7 DEF FitsIn
    <3>2. Lists[k] = proc_todo[k[2]]
      BY <2>2, <2>7 DEF Lists, ListOf
    <3> QED BY <2>5, <3>1, <3>2
  <2>8. CASE k[1] = "node"
    <3>1. k[2] = p
      BY <2>3, <2>4, <2>8 DEF FitsIn
    <3>2. Lists[k] = async_todo[k[2]]
      BY <2>2, <2>8 DEF Lists, ListOf
    <3> QED BY <2>5, <3>1, <3>2
  <2> QED BY <2>2, <2>6, <2>7, <2>8 DEF ListKeys
<1>3. CASE t \notin Und(txn, buf)
  <2>1. txn[t].to_thread # NULL /\ ProcOf[txn[t].to_thread] = p
    BY <1>1, <1>3 DEF TxnOK
  <2>2. txn[t].to_thread \in threads
    BY <2>1 DEF Inv, ThreadInv
  <2>3. txn[t].to_thread \in Thread
    BY <2>2 DEF Sound, TypeOK
  <2> QED BY <2>1, <2>2, <2>3 DEF ThreadsOf
<1> QED BY <1>2, <1>3

\* The end of binder_deferred_release keeps the invariant.
LEMMA FinishReleaseInv ==
    ASSUME Sound, Sound', Inv, NEW p \in Proc, FinishRelease(p)
    PROVE  Inv'
<1>1. /\ closing = p /\ exiting = NULL /\ p # NULL /\ ThreadsOf(p) \cap threads = {}
      /\ async_todo[p] = <<>> /\ proc_todo[p] = <<>> /\ BuffersGone(p)
      /\ has_async' = [has_async EXCEPT ![p] = FALSE] /\ alive' = alive \ {p} /\ closing' = NULL
      /\ threads' = threads /\ stack' = stack /\ todo' = todo
      /\ return_error' = return_error /\ return_error2' = return_error2 /\ wait' = wait
      /\ proc_todo' = proc_todo /\ async_todo' = async_todo /\ exiting' = exiting
  BY Distinct DEF FinishRelease, Closing, threadVars
<1>2. PICK S \in SUBSET Buf : S = {b \in Buf : buf[b].proc = p}
  OBVIOUS
<1>3. \A t \in Txn : txn[t].buffer \notin S
  BY <1>1, <1>2, NoneLeft
<1>4. Linked(txn, buf)
  BY DEF Inv, MemInv, Core, MemType
<1>5. \A b \in S : b \in Buf /\ buf[b].transaction = NULL
  <2>1. \A b \in Buf : buf[b].transaction \in Txn \cup {NULL}
    BY Now, MemFields
  <2> QED BY <1>2, <1>3, <1>4, <2>1 DEF Linked
<1>6. txn' = txn /\ bug' = bug
  <2>1. ~\E b \in Buf : buf[b].proc = p /\ buf[b].transaction # NULL
    BY <1>2, <1>5
  <2>2. bug' = bug
    BY <1>1, <2>1 DEF BuffersGone, BugOn
  <2>3. \A x \in Txn : ~\E b \in Buf : buf[b].proc = p /\ buf[b].transaction = x
    BY <2>1, Distinct
  <2>4. txn' = [x \in Txn |-> txn[x]]
    BY <1>1, <2>3 DEF BuffersGone
  <2>5. txn = [x \in Txn |-> txn[x]]
    BY DEF Sound, TypeOK
  <2> QED BY <2>2, <2>4, <2>5
<1>7. \A c \in Buf : buf'[c] = IF c \in S THEN NoBuf ELSE buf[c]
  BY <1>1, <1>2 DEF BuffersGone
<1>8. Top' = Top /\ Lists' = Lists
  BY <1>1 DEF Top, Lists
<1>9. MemInv'
  <2>1. PICK tx, bf, top, L, n, bg : tx = txn /\ bf = buf /\ top = Top /\ L = Lists /\ n = NULL /\ bg = buf'
    OBVIOUS
  <2>2. Core(tx, bf, top, n, L) /\ MemType(tx, bg, top)
    BY <1>1, <1>6, <1>8, <2>1, Then DEF Inv, MemInv
  <2>3. (\A t \in Txn : tx[t].buffer \notin S) /\ \A c \in Buf : bg[c] = IF c \in S THEN NoBuf ELSE bf[c]
    BY <1>3, <1>7, <2>1
  <2>4. Core(tx, bg, top, n, L)
    BY <2>2, <2>3, BuffersFreed
  <2> QED BY <1>1, <1>6, <1>8, <2>1, <2>4 DEF MemInv
<1>10. ErrorInv'
  BY <1>1, <1>6, <1>8 DEF Inv, ErrorInv
<1>11. ThreadInv'
  BY <1>1, <1>6 DEF Inv, ThreadInv
<1>12. NoStaleWait'
  BY <1>1 DEF Inv, NoStaleWait, binder_has_thread_work
<1>13. AsyncInv'
  <2>1. ASSUME NEW q \in alive' \ {closing'}
        PROVE  /\ q \in alive \ {closing}
               /\ async_todo'[q] = async_todo[q] /\ has_async'[q] = has_async[q]
               /\ \A c \in Buf : Quiet(buf, buf', async_todo[q], c, q)
    <3>1. q \in alive \ {closing} /\ q \in Proc /\ q # p /\ q # NULL
      BY <1>1, Distinct DEF Sound, TypeOK
    <3>2. async_todo'[q] = async_todo[q] /\ has_async'[q] = has_async[q]
      BY <1>1, <3>1 DEF Sound, TypeOK
    <3>3. ASSUME NEW c \in Buf
          PROVE  Quiet(buf, buf', async_todo[q], c, q)
      <4>1. CASE c \in S
        <5>1. BufOK(buf, c)
          BY DEF Inv, MemInv, Core, MemOK
        <5>2. buf[c].target_node # q
          BY <1>2, <3>1, <4>1, <5>1 DEF BufOK
        <5>3. ~buf'[c].async
          BY <1>7, <4>1 DEF NoBuf
        <5> QED BY <5>2, <5>3 DEF Quiet
      <4>2. CASE c \notin S
        BY <1>7, <4>2 DEF Quiet
      <4> QED BY <4>1, <4>2
    <3> QED BY <3>1, <3>2, <3>3
  <2> QED BY <2>1, AsyncFrame DEF Inv
<1> QED BY <1>6, <1>9, <1>10, <1>11, <1>12, <1>13 DEF Inv, NoBug

-----------------------------------------------------------------------------
(* The invariant holds *)

\* The driver starts without threads, transactions and work.
LEMMA InitInv == Init => Sound /\ Inv
<1> SUFFICES ASSUME Init PROVE Sound /\ Inv
  OBVIOUS
<1>1. Sound
  <2>1. TypeOK
    BY DEF Init, TypeOK, NoTxn, NoBuf, TxnRec, BufRec, Errors, Bugs
  <2>2. BufferInv
    BY Distinct DEF Init, BufferInv, Linked, NoTxn, NoBuf
  <2> QED BY <2>1, <2>2 DEF Sound
<1>2. /\ \A t \in Txn : txn[t] = NoTxn
      /\ \A b \in Buf : buf[b] = NoBuf
      /\ \A w \in Thread : Top[w] = NULL
      /\ \A th \in Thread : todo[th] = <<>> /\ wait[th] = "no"
      /\ \A p \in Proc : proc_todo[p] = <<>> /\ async_todo[p] = <<>>
  BY DEF Init, Top
<1>3. CallsOf(txn) = {} /\ Und(txn, buf) = {}
  BY <1>2 DEF CallsOf, Und, NoTxn
<1>4. MemOK(txn, buf)
  BY <1>2 DEF MemOK, TxnOK, BufOK, NoTxn, NoBuf
<1>5. Stacks(txn, Top, Und(txn, buf), DestOf(txn, buf), exiting)
  <2>1. Parents(txn, Und(txn, buf)) /\ Nested(txn, Und(txn, buf)) /\ Apart(txn)
    BY <1>3 DEF Parents, Nested, Apart
  <2>2. \A w \in Thread : On(txn, Und(txn, buf), w) = {}
    BY <1>3 DEF On
  <2>3. Tops(txn, Top, Und(txn, buf)) /\ Reached(txn, Top, Und(txn, buf))
    BY <1>2, <1>3, <2>2 DEF Tops, Reached
  <2>4. OneServer(txn, Und(txn, buf), DestOf(txn, buf)) /\ Targets(txn, Top, Und(txn, buf), exiting)
    BY <1>3 DEF OneServer, Targets
  <2> QED BY <2>1, <2>3, <2>4 DEF Stacks
<1>6. \A k \in ListKeys : Lists[k] = <<>>
  BY <1>2 DEF ListKeys, Lists, ListOf
<1>7. \A k \in ListKeys : Items(Lists[k]) = {} /\ NoDup(Lists[k])
  BY <1>6 DEF Items, NoDup
<1>8. OnLists(Lists, Und(txn, buf)) /\ Fit(txn, DestOf(txn, buf), Lists)
  <2>1. Lists \in [ListKeys -> Seq(Work)]
    BY <1>1, Now, ListType DEF Lists
  <2> QED BY <2>1, <1>3, <1>7 DEF OnLists, Fit
<1>9. MemInv
  BY <1>1, <1>4, <1>5, <1>8, Now DEF MemInv, Core
<1>10. ThreadInv /\ ErrorInv /\ NoStaleWait /\ NoBug
  <2>1. ThreadInv
    BY <1>2 DEF ThreadInv, Init, NoTxn
  <2>2. ErrorInv
    BY <1>2 DEF ErrorInv, Room, Init
  <2>3. NoStaleWait /\ NoBug
    BY <1>2 DEF NoStaleWait, NoBug, Init
  <2> QED BY <2>1, <2>2, <2>3
<1>11. AsyncInv
  <2>1. \A p : ActiveAsync(p) = {}
    BY <1>2 DEF ActiveAsync, NoBuf
  <2> QED BY <1>2, <2>1 DEF AsyncInv, Init
<1> QED BY <1>1, <1>9, <1>10, <1>11 DEF Inv

\* No step of a thread that runs, waits or exits breaks the invariant ...
LEMMA ThreadStep ==
    ASSUME Sound, Sound', Inv, NEW th \in Thread,
           Write(th) \/ Read(th) \/ ThreadExit(th) \/ FreeThread(th)
    PROVE  Inv'
<1>1. CASE Write(th)
  <2>1. ASSUME NEW t \in Txn, NEW b \in Buf, NEW p \in Proc, Transact(th, p, t, b)
        PROVE  Inv'
    BY <2>1, TransactInv
  <2>2. ASSUME NEW t \in Txn, NEW b \in Buf, NEW p \in Proc, TransactOneWay(th, p, t, b)
        PROVE  Inv'
    BY <2>2, OneWayInv
  <2>3. ASSUME NEW t \in Txn, NEW b \in Buf, Reply(th, t, b)
        PROVE  Inv'
    BY <2>3, ReplyInv
  <2>4. ASSUME NEW b \in Buf, FreeBuffer(th, b)
        PROVE  Inv'
    BY <2>4, FreeBufferInv
  <2>5. CASE TransactFail(th) \/ ReplyNoCall(th)
    BY <2>5, FailInv
  <2>6. CASE ReplyCallerDead(th) \/ ReplyFail(th)
    BY <2>6, ReplyErrorInv
  <2> QED BY <1>1, <2>1, <2>2, <2>3, <2>4, <2>5, <2>6 DEF Write
<1>2. CASE Read(th)
  <2>1. CASE ReadWait(th)
    BY <2>1, ReadWaitInv
  <2>2. CASE ReadSleep(th) \/ ReadInterrupted(th)
    BY <2>2, ReadNothingInv
  <2>3. CASE ReadError(th)
    BY <2>3, ReadErrorInv
  <2>4. CASE ReadComplete(th)
    BY <2>4, ReadCompleteInv
  <2>5. CASE ReadThreadWork(th)
    BY <2>5, ReadThreadWorkInv
  <2>6. CASE ReadProcWork(th)
    BY <2>6, ReadProcWorkInv
  <2> QED BY <1>2, <2>1, <2>2, <2>3, <2>4, <2>5, <2>6 DEF Read
<1>3. CASE ThreadExit(th)
  BY <1>3, ThreadExitInv
<1>4. CASE FreeThread(th)
  <2>1. CASE ReleaseThreadWork(th)
    BY <2>1, ReleaseThreadWorkInv
  <2>2. CASE FinishFreeThread(th)
    BY <2>2, FinishFreeInv
  <2> QED BY <1>4, <2>1, <2>2 DEF FreeThread
<1> QED BY <1>1, <1>2, <1>3, <1>4

\* ... and none of the release of a process.
LEMMA ReleaseStep ==
    ASSUME Sound, Sound', Inv, NEW p \in Proc, Release(p)
    PROVE  Inv'
<1>1. CASE StartRelease(p)
  BY <1>1, StartReleaseInv
<1>2. ASSUME NEW th \in Thread, ReleaseThread(p, th)
      PROVE  Inv'
  BY <1>2, ReleaseThreadInv
<1>3. CASE ReleaseAsyncWork(p)
  BY <1>3, ReleaseAsyncWorkInv
<1>4. CASE ReleaseProcWork(p)
  BY <1>4, ReleaseProcWorkInv
<1>5. CASE FinishRelease(p)
  BY <1>5, FinishReleaseInv
<1> QED BY <1>1, <1>2, <1>3, <1>4, <1>5 DEF Release

\* A step that changes nothing of BinderTransaction keeps the invariant.
LEMMA StutterInv == Inv /\ UNCHANGED vars => Inv'
<1> SUFFICES ASSUME Inv, UNCHANGED vars PROVE Inv'
  OBVIOUS
<1>1. /\ UNCHANGED <<alive, threads, stack, todo, return_error, return_error2, wait, asleep>>
      /\ UNCHANGED <<proc_todo, has_async, async_todo, txn, buf, exiting, closing, bug>>
  BY DEF vars, threadVars, nodeVars, memVars, lockVars
<1>2. MemInv' /\ Top' = Top
  BY <1>1, SameMem DEF Inv
<1>3. AsyncInv'
  BY <1>1, SameAsync DEF Inv
<1>4. ThreadInv' /\ NoBug'
  BY <1>1 DEF Inv, ThreadInv, NoBug
<1>5. ErrorInv'
  BY <1>1, <1>2 DEF Inv, ErrorInv, Room
<1>6. NoStaleWait'
  BY <1>1 DEF Inv, NoStaleWait, binder_has_thread_work
<1> QED BY <1>2, <1>3, <1>4, <1>5, <1>6 DEF Inv

\* Stacks, lists, transactions and buffers always have the shape Inv says.
LEMMA InvCorrect == Spec => [](Sound /\ Inv)
<1>1. Sound /\ Inv /\ [Next]_vars => (Sound /\ Inv)'
  <2> SUFFICES ASSUME Sound, Inv, [Next]_vars PROVE Sound' /\ Inv'
    OBVIOUS
  <2>1. Sound'
    BY TypeStep, InverseStep DEF Sound
  <2>2. CASE Next
    BY <2>1, <2>2, ThreadStep, ReleaseStep DEF Next
  <2> QED BY <2>1, <2>2, StutterInv
<1> QED BY <1>1, InitInv, PTL DEF Spec

-----------------------------------------------------------------------------
(* Theorems *)

\* No assertion of the driver fails, in any order of calls, replies, exits and
\* deaths.
THEOREM AssertionsHold == Spec => []NoBug
<1>1. Inv => NoBug
  BY DEF Inv
<1> QED BY <1>1, InvCorrect, PTL

\* The decision to wait for work of the process, taken before the lock is dropped,
\* is still right whenever the thread looks at its lists again.
THEOREM WaitNeverStale == Spec => []NoStaleWait
<1>1. Inv => NoStaleWait
  BY DEF Inv
<1> QED BY <1>1, InvCorrect, PTL

\* One-way calls on a node are handled one at a time and its queue does not stall.
THEOREM OneWaysInTurn == Spec => []AsyncSerial
<1>1. ASSUME Sound, AsyncInv PROVE AsyncSerial
  <2> SUFFICES ASSUME NEW p \in alive \ {closing}
               PROVE  /\ Cardinality(ActiveAsync(p)) = IF has_async[p] THEN 1 ELSE 0
                      /\ async_todo[p] # <<>> => has_async[p]
                      /\ \A b \in ActiveAsync(p) :
                            \/ buf[b].transaction # NULL \/ buf[b].allow_user_free
                            \/ Exits \cap ThreadsOf(p) # {}
    BY DEF AsyncSerial
  <2>1. /\ has_async[p] => \E b \in Buf : ActiveAsync(p) = {b}
        /\ ~has_async[p] => ActiveAsync(p) = {} /\ async_todo[p] = <<>>
        /\ \A b \in ActiveAsync(p) :
              \/ buf[b].transaction # NULL \/ buf[b].allow_user_free
              \/ Exits \cap ThreadsOf(p) # {}
    BY <1>1 DEF AsyncInv
  <2>2. has_async[p] => Cardinality(ActiveAsync(p)) = 1
    BY <2>1, FS_Singleton
  <2>3. ~has_async[p] => Cardinality(ActiveAsync(p)) = 0
    BY <2>1, FS_EmptySet
  <2> QED BY <2>1, <2>2, <2>3
<1> QED BY <1>1, InvCorrect, PTL DEF Inv

\* A call into a process that takes part in the chain of calls is served by the
\* thread of that process that waits further up the chain.
THEOREM WaitingThreadServes == Spec => []ServedByWaitingThread
<1>1. ASSUME Sound, Inv PROVE ServedByWaitingThread
  <2>1. /\ MemType(txn, buf, Top) /\ MemOK(txn, buf) /\ Parents(txn, Und(txn, buf))
        /\ OneServer(txn, Und(txn, buf), DestOf(txn, buf))
        /\ OnLists(Lists, Und(txn, buf)) /\ Fit(txn, DestOf(txn, buf), Lists)
    BY <1>1 DEF Inv, MemInv, Core, Stacks
  <2>2. Typed(txn, Top, Und(txn, buf))
    BY <2>1, MemTyped
  <2>3. \A t : Callers(t) = Above(txn, t)
    BY DEF Callers, Above, Up
  <2>4. ASSUME NEW t \in CallsOf(txn), NEW x \in Callers(txn[t].from_parent)
        PROVE  x \in Above(txn, t)
    BY <2>2, <2>3, <2>4, AboveFirst DEF CallsOf
  <2>5. ASSUME NEW t \in Txn, txn[t].kind = "call", txn[t].to_thread # NULL,
               NEW x \in Callers(txn[t].from_parent), txn[x].from # NULL,
               ProcOf[txn[x].from] = ProcOf[txn[t].to_thread]
        PROVE  txn[x].from = txn[t].to_thread
    <3>1. t \in CallsOf(txn)
      BY <2>5 DEF CallsOf
    <3> QED BY <2>1, <2>4, <2>5, <3>1 DEF OneServer
  <2>6. ASSUME NEW p \in Proc, NEW t \in Items(proc_todo[p]),
               NEW x \in Callers(txn[t].from_parent), txn[x].from # NULL
        PROVE  ProcOf[txn[x].from] # p
    <3>1. PICK k : k = <<"proc", p>>
      OBVIOUS
    <3>2. k \in ListKeys /\ k[1] = "proc" /\ k[2] = p
      BY <3>1 DEF ListKeys
    <3>3. Lists[k] = proc_todo[p] /\ t \in Txn
      <4>1. Lists[k] = proc_todo[p]
        BY <3>2 DEF Lists, ListOf
      <4>2. t \in Txn
        BY <1>1, Now DEF Items
      <4> QED BY <4>1, <4>2
    <3>4. DestOf(txn, buf)[t] = p /\ txn[t].to_thread = NULL /\ t \in Und(txn, buf)
      BY <2>1, <3>2, <3>3 DEF Fit, FitsIn, OnLists
    <3>5. txn[t].kind = "call"
      <4> SUFFICES ASSUME txn[t].kind # "call" PROVE FALSE
        OBVIOUS
      <4>1. txn[t].from_parent = NULL
        BY <2>1, <3>3 DEF MemOK, TxnOK
      <4>2. Callers(txn[t].from_parent) = {}
        BY <4>1, WalkNull DEF Callers
      <4> QED BY <4>2
    <3>6. t \in CallsOf(txn)
      BY <3>3, <3>5 DEF CallsOf
    <3> QED BY <2>1, <2>4, <2>6, <3>4, <3>6 DEF OneServer
  <2> QED BY <2>5, <2>6 DEF ServedByWaitingThread, Allocated
<1> QED BY <1>1, InvCorrect, PTL
\* The places of a transaction are its positions in the lists.
LEMMA PlacesOf ==
    ASSUME NEW t \in Txn, NEW e
    PROVE  e \in Places(t) <=> \E k \in ListKeys : \E i \in DOMAIN Lists[k] :
                                   Lists[k][i] = t /\ e = <<k[1], k[2], i>>
<1>1. \A th \in Thread : <<"thread", th>> \in ListKeys /\ Lists[<<"thread", th>>] = todo[th]
  BY DEF ListKeys, Lists, ListOf
<1>2. \A p \in Proc : <<"proc", p>> \in ListKeys /\ Lists[<<"proc", p>>] = proc_todo[p]
  BY DEF ListKeys, Lists, ListOf
<1>3. \A p \in Proc : <<"node", p>> \in ListKeys /\ Lists[<<"node", p>>] = async_todo[p]
  BY DEF ListKeys, Lists, ListOf
<1>4. e \in Places(t) <=>
          \/ \E th \in Thread : \E i \in DOMAIN todo[th] : todo[th][i] = t /\ e = <<"thread", th, i>>
          \/ \E p \in Proc : \E i \in DOMAIN proc_todo[p] : proc_todo[p][i] = t /\ e = <<"proc", p, i>>
          \/ \E p \in Proc : \E i \in DOMAIN async_todo[p] : async_todo[p][i] = t /\ e = <<"node", p, i>>
  <2> DEFINE At(q) == {i \in DOMAIN q : q[i] = t}
  <2>1. e \in Places(t) <=>
            \/ \E th \in Thread : e \in {<<"thread", th, i>> : i \in At(todo[th])}
            \/ \E p \in Proc : e \in {<<"proc", p, i>> : i \in At(proc_todo[p])}
            \/ \E p \in Proc : e \in {<<"node", p, i>> : i \in At(async_todo[p])}
    BY DEF Places
  <2>2. \A q, i : i \in At(q) <=> i \in DOMAIN q /\ q[i] = t
    OBVIOUS
  <2>3. \A q, s, h : e \in {<<s, h, i>> : i \in At(q)} <=> \E i \in At(q) : e = <<s, h, i>>
    OBVIOUS
  <2> HIDE DEF At
  <2>4. \A q, s, h : e \in {<<s, h, i>> : i \in At(q)} <=>
                       \E i \in DOMAIN q : q[i] = t /\ e = <<s, h, i>>
    BY <2>2, <2>3
  <2> QED BY <2>1, <2>4
<1>5. ASSUME e \in Places(t)
      PROVE  \E k \in ListKeys : \E i \in DOMAIN Lists[k] : Lists[k][i] = t /\ e = <<k[1], k[2], i>>
  <2>1. ASSUME NEW th \in Thread, NEW i \in DOMAIN todo[th], todo[th][i] = t, e = <<"thread", th, i>>
        PROVE  \E k \in ListKeys : \E j \in DOMAIN Lists[k] : Lists[k][j] = t /\ e = <<k[1], k[2], j>>
    <3>1. PICK k \in ListKeys : k[1] = "thread" /\ k[2] = th /\ Lists[k] = todo[th]
      BY <1>1
    <3> QED BY <2>1, <3>1
  <2>2. ASSUME NEW p \in Proc, NEW i \in DOMAIN proc_todo[p], proc_todo[p][i] = t, e = <<"proc", p, i>>
        PROVE  \E k \in ListKeys : \E j \in DOMAIN Lists[k] : Lists[k][j] = t /\ e = <<k[1], k[2], j>>
    <3>1. PICK k \in ListKeys : k[1] = "proc" /\ k[2] = p /\ Lists[k] = proc_todo[p]
      BY <1>2
    <3> QED BY <2>2, <3>1
  <2>3. ASSUME NEW p \in Proc, NEW i \in DOMAIN async_todo[p], async_todo[p][i] = t, e = <<"node", p, i>>
        PROVE  \E k \in ListKeys : \E j \in DOMAIN Lists[k] : Lists[k][j] = t /\ e = <<k[1], k[2], j>>
    <3>1. PICK k \in ListKeys : k[1] = "node" /\ k[2] = p /\ Lists[k] = async_todo[p]
      BY <1>3
    <3> QED BY <2>3, <3>1
  <2> QED BY <1>4, <1>5, <2>1, <2>2, <2>3
<1>6. ASSUME NEW k \in ListKeys, NEW i \in DOMAIN Lists[k], Lists[k][i] = t, e = <<k[1], k[2], i>>
      PROVE  e \in Places(t)
  <2>1. CASE k[1] = "thread"
    <3>1. k[2] \in Thread /\ Lists[k] = todo[k[2]]
      BY <2>1 DEF ListKeys, Lists, ListOf
    <3> QED BY <1>4, <1>6, <2>1, <3>1
  <2>2. CASE k[1] = "proc"
    <3>1. k[2] \in Proc /\ Lists[k] = proc_todo[k[2]]
      BY <2>2 DEF ListKeys, Lists, ListOf
    <3> QED BY <1>4, <1>6, <2>2, <3>1
  <2>3. CASE k[1] = "node"
    <3>1. k[2] \in Proc /\ Lists[k] = async_todo[k[2]]
      BY <2>3 DEF ListKeys, Lists, ListOf
    <3> QED BY <1>4, <1>6, <2>3, <3>1
  <2> QED BY <2>1, <2>2, <2>3 DEF ListKeys
<1> QED BY <1>5, <1>6

\* An undelivered transaction has one place, any other none.
LEMMA OnePlace ==
    ASSUME NEW t \in Txn, NEW U, OnLists(Lists, U)
    PROVE  Cardinality(Places(t)) = IF t \in U THEN 1 ELSE 0
<1>1. CASE t \in U
  <2>1. PICK k \in ListKeys : t \in Items(Lists[k])
    BY <1>1 DEF OnLists
  <2>2. PICK i \in DOMAIN Lists[k] : Lists[k][i] = t
    BY <2>1 DEF Items
  <2>3. PICK e : e = <<k[1], k[2], i>>
    OBVIOUS
  <2>4. ASSUME NEW l \in ListKeys, NEW j \in DOMAIN Lists[l], Lists[l][j] = t
        PROVE  l = k /\ j = i
    <3>1. t \in Items(Lists[l])
      BY <2>4 DEF Items
    <3>2. l = k /\ NoDup(Lists[k])
      BY <2>1, <3>1 DEF OnLists
    <3>3. t # COMPLETE
      BY Distinct
    <3> QED BY <2>2, <2>4, <3>2, <3>3 DEF NoDup
  <2>5. e \in Places(t)
    BY <2>2, <2>3, PlacesOf
  <2>6. ASSUME NEW f \in Places(t)
        PROVE  f = e
    <3>1. PICK l \in ListKeys : \E j \in DOMAIN Lists[l] : Lists[l][j] = t /\ f = <<l[1], l[2], j>>
      BY PlacesOf
    <3>2. PICK j \in DOMAIN Lists[l] : Lists[l][j] = t /\ f = <<l[1], l[2], j>>
      BY <3>1
    <3>3. l = k /\ j = i
      BY <2>4, <3>2
    <3> QED BY <2>3, <3>2, <3>3
  <2>7. Places(t) = {e}
    BY <2>5, <2>6
  <2> QED BY <1>1, <2>7, FS_Singleton
<1>2. CASE t \notin U
  <2>1. ASSUME NEW f \in Places(t)
        PROVE  FALSE
    <3>1. PICK l \in ListKeys : \E j \in DOMAIN Lists[l] : Lists[l][j] = t
      BY PlacesOf
    <3>2. t \in Items(Lists[l])
      BY <3>1 DEF Items
    <3> QED BY <1>2, <3>2 DEF OnLists
  <2>2. Places(t) = {}
    BY <2>1
  <2> QED BY <1>2, <2>2, FS_EmptySet
<1> QED BY <1>1, <1>2

\* What a stack, a list or a transaction points to has not been freed, and work is
\* neither lost nor doubled, whoever takes it and whoever goes meanwhile.
THEOREM WorkNeverLost == Spec => []NoDangling
<1>1. ASSUME Sound, Inv PROVE NoDangling
  <2>1. /\ MemType(txn, buf, Top) /\ MemOK(txn, buf) /\ Parents(txn, Und(txn, buf))
        /\ Nested(txn, Und(txn, buf)) /\ Tops(txn, Top, Und(txn, buf))
        /\ OnLists(Lists, Und(txn, buf))
    BY <1>1 DEF Inv, MemInv, Core, Stacks
  <2>2. ASSUME NEW t \in Txn, txn[t].kind = "none"
        PROVE  t \notin Und(txn, buf)
    BY <2>1, <2>2 DEF MemOK, TxnOK, Und
  <2>3. CallsOf(txn) \subseteq Allocated /\ Und(txn, buf) \subseteq Allocated
    BY <2>2 DEF CallsOf, Allocated, Und
  <2>4. ASSUME NEW th \in Thread, th # exiting
        PROVE  stack[th] \in Allocated \cup {NULL}
    <3>1. Top[th] = stack[th]
      BY <1>1, <2>4, Now
    <3>2. stack[th] # NULL => stack[th] \in CallsOf(txn)
      BY <2>1, <3>1 DEF Tops, On
    <3> QED BY <2>3, <3>2
  <2>5. ASSUME NEW k \in ListKeys
        PROVE  Items(Lists[k]) \subseteq Allocated \cup {COMPLETE}
    <3>1. ASSUME NEW x \in Items(Lists[k]), x # COMPLETE
          PROVE  x \in Allocated
      <4>1. x \in Txn
        BY <2>1, <3>1 DEF OnLists, Items, Work
      <4> QED BY <2>1, <2>3, <4>1 DEF OnLists
    <3> QED BY <3>1
  <2>6. ASSUME NEW th \in Thread
        PROVE  Items(todo[th]) \subseteq Allocated \cup {COMPLETE}
    <3>1. PICK k : k = <<"thread", th>>
      OBVIOUS
    <3>2. k \in ListKeys /\ k[1] = "thread" /\ k[2] = th
      BY <3>1 DEF ListKeys
    <3>3. Lists[k] = todo[th]
      BY <3>2 DEF Lists, ListOf
    <3> QED BY <2>5, <3>2, <3>3
  <2>7. ASSUME NEW p \in Proc
        PROVE  Items(proc_todo[p]) \cup Items(async_todo[p]) \subseteq Allocated
    <3>1. PICK k : k = <<"proc", p>>
      OBVIOUS
    <3>2. PICK l : l = <<"node", p>>
      OBVIOUS
    <3>3. k \in ListKeys /\ k[1] = "proc" /\ k[2] = p
      BY <3>1 DEF ListKeys
    <3>4. l \in ListKeys /\ l[1] = "node" /\ l[2] = p
      BY <3>2 DEF ListKeys
    <3>5. Lists[k] = proc_todo[p] /\ Lists[l] = async_todo[p]
      BY <3>3, <3>4 DEF Lists, ListOf
    <3>6. Items(proc_todo[p]) \subseteq Txn /\ Items(async_todo[p]) \subseteq Txn
      BY <1>1, Now DEF Items
    <3>7. COMPLETE \notin Txn
      BY Distinct
    <3> QED BY <2>5, <3>3, <3>4, <3>5, <3>6, <3>7
  <2>8. ASSUME NEW t \in Allocated
        PROVE  {txn[t].from_parent, txn[t].to_parent} \subseteq Allocated \cup {NULL}
    <3>1. t \in Txn
      BY DEF Allocated
    <3>2. txn[t].from_parent # NULL => txn[t].from_parent \in CallsOf(txn)
      BY <2>1, <3>1 DEF Parents, MemOK, TxnOK, CallsOf
    <3>3. txn[t].to_parent # NULL => txn[t].to_parent \in CallsOf(txn)
      BY <2>1, <3>1 DEF Nested, MemOK, TxnOK, CallsOf
    <3> QED BY <2>3, <3>2, <3>3
  <2>9. ASSUME NEW t \in Allocated
        PROVE  {txn[t].from, txn[t].to_thread} \subseteq threads \cup {NULL}
    BY <1>1 DEF Inv, ThreadInv, Allocated
  <2>10. ASSUME NEW t \in Allocated
         PROVE  LET undelivered == txn[t].buffer # NULL /\ ~buf[txn[t].buffer].allow_user_free
                IN  Cardinality(Places(t)) = IF undelivered THEN 1 ELSE 0
    <3>1. t \in Txn
      BY DEF Allocated
    <3>2. Cardinality(Places(t)) = IF t \in Und(txn, buf) THEN 1 ELSE 0
      BY <2>1, <3>1, OnePlace
    <3>3. t \in Und(txn, buf) <=> txn[t].buffer # NULL /\ ~buf[txn[t].buffer].allow_user_free
      BY <3>1 DEF Und
    <3> QED BY <3>2, <3>3
  <2>11. threads \subseteq Thread
    BY <1>1 DEF Sound, TypeOK
  <2> QED BY <2>4, <2>6, <2>7, <2>8, <2>9, <2>10, <2>11 DEF NoDangling
<1> QED BY <1>1, InvCorrect, PTL
=============================================================================
