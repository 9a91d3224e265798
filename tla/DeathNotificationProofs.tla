---------------------- MODULE DeathNotificationProofs ----------------------
(***************************************************************************)
(* Theorems about death notifications, for any number of references,       *)
(* notifications, proxies, recipients and threads: first those about the   *)
(* driver alone (BinderDeath), for programs that write any commands, then  *)
(* those about BpBinder, IPCThreadState and the driver together, which     *)
(* rest on the invariant of the driver.                                    *)
(***************************************************************************)
EXTENDS DeathNotification, FiniteSetTheorems, TLAPS

-----------------------------------------------------------------------------
(* The driver (BinderDeath): the inductive invariant *)

Distinct(q) == \A i, j \in DOMAIN q : q[i] = q[j] => i = j

\* A notification has one work.entry: it is on one list, and there once.
Once ==
    /\ Distinct(proc_todo) /\ Distinct(delivered_death)
    /\ \A th \in Thread : Distinct(todo[th])
    /\ \A d \in Items(proc_todo) : d \notin Items(delivered_death)
    /\ \A th \in Thread : \A d \in Items(todo[th]) :
          d \notin Items(proc_todo) /\ d \notin Items(delivered_death)
    /\ \A th, u \in Thread : th # u => \A d \in Items(todo[th]) : d \notin Items(todo[u])

Cleared(d) == death[d].type \in {"DEAD_BINDER_AND_CLEAR", "CLEAR_DEATH_NOTIFICATION"}

Waiting(d) == d \in Items(proc_todo) \/ \E th \in Thread : d \in Items(todo[th])
Delivered(d) == d \in Items(delivered_death)

\* OneOwner, without the cardinality.
Owned ==
    /\ \A h \in Handle : ref_death[h] # NULL => h \in refs /\ death[ref_death[h]].type # "free"
    /\ \A h, k \in Handle : ref_death[h] # NULL /\ ref_death[h] = ref_death[k] => h = k
    /\ \A d \in Death : Waiting(d) \/ Delivered(d) => death[d].type # "free"
    /\ \A d \in Death : Cleared(d) =>
          (Waiting(d) \/ Delivered(d)) /\ \A h \in Handle : ref_death[h] # d
    /\ \A d \in Death : death[d].type # "free" /\ ~Cleared(d) =>
          \E h \in Handle : ref_death[h] = d

\* The notification of a reference: on a list only after the death, and never forgotten.
ToldOf(h) ==
    LET d == ref_death[h]
    IN /\ Waiting(d) \/ Delivered(d) => dead[h] /\ death[d].type = "DEAD_BINDER"
       /\ dead[h] => Waiting(d) \/ Delivered(d) \/ death[d].told \/ death[d].lost
       /\ death[d].told => dead[h]

\* ToldOnce, with two facts about what was told: it is of a dead node, and a notification
\* that is delivered was told and is not a confirmation.
Told ==
    /\ ~bug
    /\ \A h \in Handle : ref_death[h] # NULL => ToldOf(h)
    /\ \A d \in Death : Waiting(d) =>
          ~death[d].told \/ death[d].type = "CLEAR_DEATH_NOTIFICATION"
    /\ \A d \in Death : Delivered(d) =>
          death[d].told /\ death[d].type # "CLEAR_DEATH_NOTIFICATION"

DeathInv == DeathTypeOK /\ Once /\ Owned /\ Told

-----------------------------------------------------------------------------
(* Lists *)

\* list_add_tail
LEMMA ItemsAppend ==
    ASSUME NEW S, NEW STATE q, q \in Seq(S), NEW STATE d, d \in S
    PROVE  /\ Append(q, d) \in Seq(S)
           /\ Items(Append(q, d)) = Items(q) \cup {d}
           /\ Distinct(q) /\ d \notin Items(q) => Distinct(Append(q, d))
<1>1. /\ Append(q, d) \in Seq(S)
      /\ DOMAIN q = 1 .. Len(q) /\ Len(q) \in Nat
      /\ DOMAIN Append(q, d) = 1 .. Len(q) + 1
      /\ \A i \in 1 .. Len(q) : Append(q, d)[i] = q[i]
      /\ Append(q, d)[Len(q) + 1] = d
  OBVIOUS
<1>2. Items(Append(q, d)) = Items(q) \cup {d}
  <2>1. Items(Append(q, d)) \subseteq Items(q) \cup {d}
    BY <1>1 DEF Items
  <2>2. Items(q) \subseteq Items(Append(q, d))
    BY <1>1 DEF Items
  <2>3. d \in Items(Append(q, d))
    BY <1>1 DEF Items
  <2> QED BY <2>1, <2>2, <2>3
<1>3. Distinct(q) /\ d \notin Items(q) => Distinct(Append(q, d))
  BY <1>1 DEF Items, Distinct
<1> QED BY <1>1, <1>2, <1>3

\* list_add
LEMMA ItemsCons ==
    ASSUME NEW S, NEW STATE q, q \in Seq(S), NEW STATE d, d \in S
    PROVE  /\ <<d>> \o q \in Seq(S)
           /\ Items(<<d>> \o q) = Items(q) \cup {d}
           /\ Distinct(q) /\ d \notin Items(q) => Distinct(<<d>> \o q)
<1> DEFINE r == <<d>> \o q
<1>1. /\ r \in Seq(S)
      /\ DOMAIN q = 1 .. Len(q) /\ Len(q) \in Nat
      /\ DOMAIN r = 1 .. Len(q) + 1
      /\ r[1] = d
      /\ \A i \in 2 .. Len(q) + 1 : r[i] = q[i - 1]
  OBVIOUS
<1> HIDE DEF r
<1>5. ASSUME NEW i \in DOMAIN r, i # 1
      PROVE  i - 1 \in DOMAIN q /\ r[i] = q[i - 1]
  BY <1>1, <1>5
<1>2. Items(r) = Items(q) \cup {d}
  <2>1. ASSUME NEW i \in DOMAIN r
        PROVE r[i] \in Items(q) \cup {d}
    <3>1. CASE i = 1
      BY <1>1, <3>1
    <3>2. CASE i # 1
      BY <1>5, <3>2 DEF Items
    <3> QED BY <3>1, <3>2
  <2>2. ASSUME NEW i \in DOMAIN q
        PROVE q[i] \in Items(r)
    <3>1. i + 1 \in 2 .. Len(q) + 1 /\ i + 1 \in DOMAIN r
      BY <1>1
    <3>2. r[i + 1] = q[i]
      BY <1>1, <3>1
    <3> QED BY <3>1, <3>2 DEF Items
  <2>3. d \in Items(r)
    BY <1>1 DEF Items
  <2> QED BY <2>1, <2>2, <2>3 DEF Items
<1>3. ASSUME Distinct(q), d \notin Items(q)
      PROVE  Distinct(r)
  <2>1. SUFFICES ASSUME NEW i \in DOMAIN r, NEW j \in DOMAIN r, r[i] = r[j]
                 PROVE  i = j
    BY DEF Distinct
  <2>4. \A m \in DOMAIN r : m # 1 => r[m] # d
    BY <1>3, <1>5 DEF Items
  <2>2. CASE i = 1 \/ j = 1
    BY <1>1, <2>1, <2>2, <2>4
  <2>3. CASE i # 1 /\ j # 1
    <3>1. i - 1 \in DOMAIN q /\ j - 1 \in DOMAIN q /\ i \in Nat /\ j \in Nat
      BY <1>1, <2>1, <2>3
    <3>2. q[i - 1] = q[j - 1]
      BY <1>1, <2>1, <2>3
    <3>3. i - 1 = j - 1
      BY <1>3, <3>1, <3>2 DEF Distinct
    <3> QED BY <3>1, <3>3
  <2> QED BY <2>2, <2>3
<1> QED BY <1>1, <1>2, <1>3 DEF r

\* Taking the first item.
LEMMA ItemsTail ==
    ASSUME NEW S, NEW STATE q, q \in Seq(S), q # <<>>, Distinct(q)
    PROVE  /\ Head(q) \in S /\ Tail(q) \in Seq(S)
           /\ Head(q) \in Items(q)
           /\ Items(Tail(q)) = Items(q) \ {Head(q)}
           /\ Distinct(Tail(q))
<1> DEFINE r == Tail(q)
<1>1. /\ r \in Seq(S) /\ Head(q) = q[1] /\ q[1] \in S
      /\ DOMAIN q = 1 .. Len(q) /\ Len(q) \in Nat /\ Len(q) > 0
      /\ DOMAIN r = 1 .. Len(q) - 1
      /\ \A i \in 1 .. Len(q) - 1 : r[i] = q[i + 1]
  OBVIOUS
<1> HIDE DEF r
<1>2. Items(r) \subseteq Items(q) \ {Head(q)}
  <2>1. SUFFICES ASSUME NEW i \in DOMAIN r
                 PROVE  r[i] \in Items(q) /\ r[i] # q[1]
    BY <1>1 DEF Items
  <2>2. i + 1 \in DOMAIN q /\ 1 \in DOMAIN q /\ i + 1 # 1 /\ r[i] = q[i + 1]
    BY <1>1
  <2> QED BY <2>2 DEF Items, Distinct
<1>3. Items(q) \ {Head(q)} \subseteq Items(r)
  <2>1. SUFFICES ASSUME NEW i \in DOMAIN q, q[i] # q[1]
                 PROVE  q[i] \in Items(r)
    BY <1>1 DEF Items
  <2>2. i - 1 \in DOMAIN r /\ r[i - 1] = q[i]
    BY <1>1, <2>1
  <2> QED BY <2>2 DEF Items
<1>4. Distinct(r)
  <2>1. SUFFICES ASSUME NEW i \in DOMAIN r, NEW j \in DOMAIN r, r[i] = r[j]
                 PROVE  i = j
    BY DEF Distinct
  <2>2. i + 1 \in DOMAIN q /\ j + 1 \in DOMAIN q /\ i \in Nat /\ j \in Nat /\ q[i + 1] = q[j + 1]
    BY <1>1, <2>1
  <2>3. i + 1 = j + 1
    BY <2>2 DEF Distinct
  <2> QED BY <2>2, <2>3
<1>5. Head(q) \in Items(q)
  BY <1>1 DEF Items
<1> QED BY <1>1, <1>2, <1>3, <1>4, <1>5 DEF r

\* list_del
LEMMA ItemsWithout ==
    ASSUME NEW S, NEW STATE q, q \in Seq(S), NEW STATE d, Distinct(q)
    PROVE  /\ Without(q, d) \in Seq(S)
           /\ Items(Without(q, d)) = Items(q) \ {d}
           /\ Distinct(Without(q, d))
<1>1. CASE d \notin Items(q)
  BY <1>1 DEF Without
<1>2. CASE d \in Items(q)
  <2> DEFINE k == CHOOSE i \in DOMAIN q : q[i] = d
             n == Len(q)
             r == [i \in 1 .. n - 1 |-> IF i < k THEN q[i] ELSE q[i + 1]]
  <2>1. Without(q, d) = r
    BY <1>2 DEF Without
  <2>2. k \in DOMAIN q /\ q[k] = d
    BY <1>2 DEF Items
  <2>3. DOMAIN q = 1 .. n /\ n \in Nat /\ \A i \in 1 .. n : q[i] \in S
    OBVIOUS
  <2> HIDE DEF k, n
  <2>4. DOMAIN r = 1 .. n - 1 /\ n - 1 \in Nat /\ k \in 1 .. n
    BY <2>2, <2>3
  <2>5. \A i \in 1 .. n - 1 : r[i] \in S
    BY <2>3, <2>4
  <2>6. r \in Seq(S)
    BY <2>4, <2>5 DEF Seq
  <2>7. \A i \in 1 .. n - 1 : r[i] = q[IF i < k THEN i ELSE i + 1]
    BY <2>4
  <2> HIDE DEF r
  <2>8. Items(r) \subseteq Items(q) \ {d}
    <3>1. SUFFICES ASSUME NEW i \in 1 .. n - 1
                   PROVE  r[i] \in Items(q) /\ r[i] # d
      BY <2>4 DEF Items
    <3> DEFINE m == IF i < k THEN i ELSE i + 1
    <3>2. m \in DOMAIN q /\ m # k /\ r[i] = q[m]
      BY <2>3, <2>4, <2>7
    <3> QED BY <2>2, <3>2 DEF Items, Distinct
  <2>9. Items(q) \ {d} \subseteq Items(r)
    <3>1. SUFFICES ASSUME NEW i \in DOMAIN q, q[i] # d
                   PROVE  q[i] \in Items(r)
      BY DEF Items
    <3> DEFINE m == IF i < k THEN i ELSE i - 1
    <3>2. m \in 1 .. n - 1 /\ r[m] = q[i]
      BY <2>2, <2>3, <2>4, <2>7, <3>1
    <3> QED BY <2>4, <3>2 DEF Items
  <2>10. Distinct(r)
    <3>1. SUFFICES ASSUME NEW i \in 1 .. n - 1, NEW j \in 1 .. n - 1, r[i] = r[j]
                   PROVE  i = j
      BY <2>4 DEF Distinct
    <3> DEFINE a == IF i < k THEN i ELSE i + 1
               b == IF j < k THEN j ELSE j + 1
    <3>2. a \in DOMAIN q /\ b \in DOMAIN q /\ q[a] = q[b]
      BY <2>3, <2>4, <2>7, <3>1
    <3>3. a = b
      BY <3>2 DEF Distinct
    <3> QED BY <2>4, <3>3
  <2> QED BY <2>1, <2>6, <2>8, <2>9, <2>10
<1> QED BY <1>1, <1>2

-----------------------------------------------------------------------------
(* What the operations do to the lists *)

\* A notification that is on no todo list is queued.
LEMMA QueueLists ==
    ASSUME DeathTypeOK, Once, NEW th \in Thread, NEW STATE d, d \in Death, ~Waiting(d),
           Queue(th, d),
           delivered_death' \in Seq(Death), Distinct(delivered_death'),
           Items(delivered_death') = Items(delivered_death) \ {d}
    PROVE  /\ todo' \in [Thread -> Seq(Death)] /\ proc_todo' \in Seq(Death)
           /\ Once'
           /\ \A e \in Death : Waiting(e)' <=> Waiting(e) \/ e = d
<1>1. CASE th \in Loopers
  <2>1. todo' = [todo EXCEPT ![th] = Append(@, d)] /\ proc_todo' = proc_todo
    BY <1>1 DEF Queue
  <2>2. todo[th] \in Seq(Death) /\ Distinct(todo[th]) /\ d \notin Items(todo[th])
    BY DEF DeathTypeOK, Once, Waiting
  <2>3. /\ Append(todo[th], d) \in Seq(Death)
        /\ Items(Append(todo[th], d)) = Items(todo[th]) \cup {d}
        /\ Distinct(Append(todo[th], d))
    BY <2>2, ItemsAppend
  <2>4. todo' \in [Thread -> Seq(Death)] /\ proc_todo' \in Seq(Death)
    BY <2>1, <2>3 DEF DeathTypeOK
  <2>5. /\ todo'[th] = Append(todo[th], d)
        /\ \A u \in Thread : u # th => todo'[u] = todo[u]
    BY <2>1 DEF DeathTypeOK
  <2>6. \A e \in Death : Waiting(e)' <=> Waiting(e) \/ e = d
    BY <2>1, <2>3, <2>5 DEF Waiting
  <2>7. Once'
    <3>1. Distinct(proc_todo') /\ Distinct(delivered_death')
      BY <2>1 DEF Once
    <3>2. \A u \in Thread : Distinct(todo'[u])
      BY <2>3, <2>5 DEF Once
    <3>3. Items(todo'[th]) = Items(todo[th]) \cup {d}
      BY <2>3, <2>5
    <3>4. \A e \in Items(proc_todo') : e \notin Items(delivered_death')
      BY <2>1 DEF Once
    <3>5. ASSUME NEW u \in Thread, NEW e \in Items(todo'[u])
          PROVE e \notin Items(proc_todo') /\ e \notin Items(delivered_death')
      BY <3>3, <2>1, <2>5 DEF Once, Waiting
    <3>6. ASSUME NEW u \in Thread, NEW v \in Thread, u # v, NEW e \in Items(todo'[u])
          PROVE e \notin Items(todo'[v])
      <4>1. \A w \in Thread : d \notin Items(todo[w])
        BY DEF Waiting
      <4>2. \A x, w \in Thread : x # w => \A f \in Items(todo[x]) : f \notin Items(todo[w])
        BY DEF Once
      <4>3. CASE u = th
        BY <3>3, <3>6, <2>5, <4>1, <4>2, <4>3
      <4>4. CASE u # th /\ v = th
        BY <3>3, <3>6, <2>5, <4>1, <4>2, <4>4
      <4>5. CASE u # th /\ v # th
        BY <3>6, <2>5, <4>2, <4>5
      <4> QED BY <4>3, <4>4, <4>5
    <3> QED BY <3>1, <3>2, <3>4, <3>5, <3>6 DEF Once
  <2> QED BY <2>4, <2>6, <2>7
<1>2. CASE th \notin Loopers
  <2>1. proc_todo' = Append(proc_todo, d) /\ todo' = todo
    BY <1>2 DEF Queue
  <2>2. proc_todo \in Seq(Death) /\ Distinct(proc_todo) /\ d \notin Items(proc_todo)
    BY DEF DeathTypeOK, Once, Waiting
  <2>3. /\ proc_todo' \in Seq(Death)
        /\ Items(proc_todo') = Items(proc_todo) \cup {d}
        /\ Distinct(proc_todo')
    BY <2>1, <2>2, ItemsAppend
  <2>4. todo' \in [Thread -> Seq(Death)] /\ proc_todo' \in Seq(Death)
    BY <2>1, <2>3 DEF DeathTypeOK
  <2>5. \A e \in Death : Waiting(e)' <=> Waiting(e) \/ e = d
    BY <2>1, <2>3 DEF Waiting
  <2>6. Once'
    BY <2>1, <2>3 DEF Once, Waiting
  <2> QED BY <2>4, <2>5, <2>6
<1> QED BY <1>1, <1>2

\* The first item of a todo list moves to delivered_death, or goes.
LEMMA DeliverLists ==
    ASSUME DeathTypeOK, Once, NEW STATE d, d \in Death, Waiting(d), Deliver(d)
    PROVE  /\ delivered_death' \in Seq(Death)
           /\ Distinct(delivered_death')
           /\ Items(delivered_death') =
                 IF death[d].type = "CLEAR_DEATH_NOTIFICATION" THEN Items(delivered_death)
                 ELSE Items(delivered_death) \cup {d}
<1>1. delivered_death \in Seq(Death) /\ Distinct(delivered_death) /\ d \notin Items(delivered_death)
  BY DEF DeathTypeOK, Once, Waiting
<1>2. CASE death[d].type = "CLEAR_DEATH_NOTIFICATION"
  BY <1>1, <1>2 DEF Deliver
<1>3. CASE death[d].type # "CLEAR_DEATH_NOTIFICATION"
  <2>1. delivered_death' = <<d>> \o delivered_death
    BY <1>3 DEF Deliver
  <2> QED BY <1>1, <1>3, <2>1, ItemsCons
<1> QED BY <1>2, <1>3

LEMMA ReadThreadLists ==
    ASSUME DeathTypeOK, Once, NEW th \in Thread, ReadThreadWork(th)
    PROVE  LET d == Head(todo[th])
           IN /\ d \in Death /\ Waiting(d)
              /\ todo' \in [Thread -> Seq(Death)] /\ proc_todo' \in Seq(Death)
              /\ Once'
              /\ \A e \in Death : Waiting(e)' <=> Waiting(e) /\ e # d
<1> DEFINE d == Head(todo[th])
<1>1. todo[th] \in Seq(Death) /\ Distinct(todo[th]) /\ todo[th] # <<>>
  BY DEF DeathTypeOK, Once, ReadThreadWork
<1>2. /\ d \in Death /\ Tail(todo[th]) \in Seq(Death) /\ d \in Items(todo[th])
      /\ Items(Tail(todo[th])) = Items(todo[th]) \ {d}
      /\ Distinct(Tail(todo[th]))
  BY <1>1, ItemsTail
<1>3. Deliver(d) /\ todo' = [todo EXCEPT ![th] = Tail(@)] /\ proc_todo' = proc_todo
  BY DEF ReadThreadWork
<1> HIDE DEF d
<1>4. Waiting(d)
  BY <1>2 DEF Waiting
<1>5. /\ Distinct(delivered_death')
      /\ Items(delivered_death') \subseteq Items(delivered_death) \cup {d}
  BY <1>2, <1>3, <1>4, DeliverLists
<1>6. /\ todo' \in [Thread -> Seq(Death)]
      /\ todo'[th] = Tail(todo[th])
      /\ \A u \in Thread : u # th => todo'[u] = todo[u]
  BY <1>2, <1>3 DEF DeathTypeOK
<1>7. Once'
  BY <1>2, <1>3, <1>5, <1>6 DEF Once
<1>8. \A e \in Death : Waiting(e)' <=> Waiting(e) /\ e # d
  BY <1>2, <1>3, <1>6 DEF Waiting, Once
<1>9. proc_todo' \in Seq(Death)
  BY <1>3 DEF DeathTypeOK
<1> QED BY <1>2, <1>4, <1>6, <1>7, <1>8, <1>9 DEF d

LEMMA ReadProcLists ==
    ASSUME DeathTypeOK, Once, NEW th \in Thread, ReadProcWork(th)
    PROVE  LET d == Head(proc_todo)
           IN /\ d \in Death /\ Waiting(d)
              /\ todo' \in [Thread -> Seq(Death)] /\ proc_todo' \in Seq(Death)
              /\ Once'
              /\ \A e \in Death : Waiting(e)' <=> Waiting(e) /\ e # d
<1> DEFINE d == Head(proc_todo)
<1>1. proc_todo \in Seq(Death) /\ Distinct(proc_todo) /\ proc_todo # <<>>
  BY DEF DeathTypeOK, Once, ReadProcWork
<1>2. /\ d \in Death /\ Tail(proc_todo) \in Seq(Death) /\ d \in Items(proc_todo)
      /\ Items(Tail(proc_todo)) = Items(proc_todo) \ {d}
      /\ Distinct(Tail(proc_todo))
  BY <1>1, ItemsTail
<1>3. Deliver(d) /\ proc_todo' = Tail(proc_todo) /\ todo' = todo
  BY DEF ReadProcWork
<1> HIDE DEF d
<1>4. Waiting(d)
  BY <1>2 DEF Waiting
<1>5. /\ Distinct(delivered_death')
      /\ Items(delivered_death') \subseteq Items(delivered_death) \cup {d}
  BY <1>2, <1>3, <1>4, DeliverLists
<1>6. Once'
  BY <1>2, <1>3, <1>5 DEF Once
<1>7. \A e \in Death : Waiting(e)' <=> Waiting(e) /\ e # d
  BY <1>2, <1>3 DEF Waiting, Once
<1>8. todo' \in [Thread -> Seq(Death)]
  BY <1>3 DEF DeathTypeOK
<1> QED BY <1>2, <1>3, <1>4, <1>6, <1>7, <1>8 DEF d

-----------------------------------------------------------------------------
(* Every operation keeps the invariant *)

\* Lists that do not change.
LEMMA SameLists ==
    ASSUME Once, UNCHANGED lists
    PROVE  /\ Once'
           /\ \A d : Waiting(d)' <=> Waiting(d)
           /\ \A d : Delivered(d)' <=> Delivered(d)
BY DEF Once, Waiting, Delivered, lists

LEMMA GetRefKeeps ==
    ASSUME DeathInv, NEW h \in Handle, GetRef(h)
    PROVE  DeathInv'
<1>1. Once' /\ (\A d : Waiting(d)' <=> Waiting(d)) /\ (\A d : Delivered(d)' <=> Delivered(d))
  BY SameLists DEF DeathInv, GetRef
<1>2. ref_death[h] = NULL
  BY DEF DeathInv, Owned, GetRef
<1>3. DeathTypeOK'
  BY DEF DeathInv, DeathTypeOK, GetRef, lists
<1>4. Owned'
  BY <1>1 DEF DeathInv, Owned, GetRef, Cleared
<1>5. \A k \in Handle : k # h => dead'[k] = dead[k]
  BY DEF DeathInv, DeathTypeOK, GetRef
<1>6. Told'
  BY <1>1, <1>2, <1>5 DEF DeathInv, Told, ToldOf, GetRef
<1> QED BY <1>1, <1>3, <1>4, <1>6 DEF DeathInv

LEMMA DeleteRefKeeps ==
    ASSUME DeathInv, NEW h \in Handle, DeleteRef(h)
    PROVE  DeathInv'
<1> DEFINE d == ref_death[h]
<1>1. /\ refs' = refs \ {h}
      /\ ref_death' = [ref_death EXCEPT ![h] = NULL]
      /\ death' = [e \in Death |-> IF e = d THEN Free ELSE death[e]]
      /\ todo' = [th \in Thread |-> Without(todo[th], d)]
      /\ proc_todo' = Without(proc_todo, d)
      /\ delivered_death' = Without(delivered_death, d)
      /\ UNCHANGED <<dead, return_error, released, bug>>
  BY DEF DeleteRef
<1> HIDE DEF d
<1>2. /\ proc_todo' \in Seq(Death) /\ Distinct(proc_todo')
      /\ Items(proc_todo') = Items(proc_todo) \ {d}
  BY <1>1, ItemsWithout DEF DeathInv, DeathTypeOK, Once
<1>3. /\ delivered_death' \in Seq(Death) /\ Distinct(delivered_death')
      /\ Items(delivered_death') = Items(delivered_death) \ {d}
  BY <1>1, ItemsWithout DEF DeathInv, DeathTypeOK, Once
<1>4. ASSUME NEW th \in Thread
      PROVE  /\ todo'[th] \in Seq(Death) /\ Distinct(todo'[th])
             /\ Items(todo'[th]) = Items(todo[th]) \ {d}
  BY <1>1, ItemsWithout DEF DeathInv, DeathTypeOK, Once
<1>5. Once'
  BY <1>2, <1>3, <1>4 DEF DeathInv, Once
<1>6. \A e : Waiting(e)' <=> Waiting(e) /\ e # d
  BY <1>2, <1>4 DEF Waiting
<1>7. \A e : Delivered(e)' <=> Delivered(e) /\ e # d
  BY <1>3 DEF Delivered
<1>8. DeathTypeOK'
  <2>1. Free \in DeathRec
    BY DEF Free, DeathRec
  <2>2. death' \in [Death -> DeathRec]
    BY <1>1, <2>1 DEF DeathInv, DeathTypeOK
  <2>3. todo' \in [Thread -> Seq(Death)]
    BY <1>1, <1>4
  <2> QED BY <1>1, <1>2, <1>3, <2>2, <2>3 DEF DeathInv, DeathTypeOK
<1>9. /\ \A k \in Handle : k # h => ref_death'[k] = ref_death[k]
      /\ ref_death'[h] = NULL
      /\ \A e \in Death : e # d => death'[e] = death[e]
      /\ d \in Death => death'[d].type = "free"
      /\ d = ref_death[h] /\ NULL \notin Death
      /\ \A k \in Handle : ref_death[k] # NULL => ref_death[k] \in Death
  BY <1>1, DeathAssumption DEF DeathInv, DeathTypeOK, Free, d
<1>10. Owned'
  BY <1>1, <1>6, <1>7, <1>9 DEF DeathInv, Owned, Cleared
<1>11. Told'
  BY <1>1, <1>6, <1>7, <1>9 DEF DeathInv, Told, ToldOf, Owned
<1> QED BY <1>5, <1>8, <1>10, <1>11 DEF DeathInv

LEMMA NodeReleaseKeeps ==
    ASSUME DeathInv, NEW h \in Handle, NodeRelease(h)
    PROVE  DeathInv'
<1> DEFINE d == ref_death[h]
<1>1. /\ ~dead[h]
      /\ dead' = [dead EXCEPT ![h] = TRUE]
      /\ UNCHANGED <<refs, ref_death, todo, delivered_death, return_error, released>>
  BY DEF NodeRelease
<1>2. /\ \A k \in Handle : k # h => dead'[k] = dead[k]
      /\ dead'[h] = TRUE /\ dead' \in [Handle -> BOOLEAN]
  BY <1>1 DEF DeathInv, DeathTypeOK
<1>3. CASE d = NULL
  <2>1. UNCHANGED <<death, proc_todo, bug>>
    BY <1>3 DEF NodeRelease
  <2>2. Once' /\ (\A e : Waiting(e)' <=> Waiting(e)) /\ (\A e : Delivered(e)' <=> Delivered(e))
    BY <1>1, <2>1, SameLists DEF DeathInv, lists
  <2>3. DeathTypeOK'
    BY <1>1, <1>2, <2>1 DEF DeathInv, DeathTypeOK
  <2>4. Owned'
    BY <1>1, <2>1, <2>2 DEF DeathInv, Owned, Cleared
  <2>5. Told'
    BY <1>1, <1>2, <1>3, <2>1, <2>2 DEF DeathInv, Told, ToldOf
  <2> QED BY <2>2, <2>3, <2>4, <2>5 DEF DeathInv
<1>4. CASE d # NULL
  <2>1. ~Waiting(d) /\ ~Delivered(d) /\ d \in Death
    BY <1>1, <1>4 DEF DeathInv, Told, ToldOf, DeathTypeOK
  <2>2. ~OnList(d)
    BY <2>1 DEF OnList, Waiting, Delivered
  <2>3. /\ death' = [death EXCEPT ![d].type = "DEAD_BINDER"]
        /\ proc_todo' = Append(proc_todo, d)
        /\ bug' = bug
    BY <1>4, <2>2 DEF NodeRelease
  <2>4. /\ proc_todo' \in Seq(Death) /\ Distinct(proc_todo')
        /\ Items(proc_todo') = Items(proc_todo) \cup {d}
    BY <2>1, <2>3, ItemsAppend DEF DeathInv, DeathTypeOK, Once, Waiting
  <2>5. Once'
    BY <1>1, <2>1, <2>4 DEF DeathInv, Once, Waiting, Delivered
  <2>6. /\ \A e : Waiting(e)' <=> Waiting(e) \/ e = d
        /\ \A e : Delivered(e)' <=> Delivered(e)
    BY <1>1, <2>4 DEF Waiting, Delivered
  <2>7. /\ death' \in [Death -> DeathRec]
        /\ \A e \in Death : e # d => death'[e] = death[e]
        /\ death'[d].type = "DEAD_BINDER"
        /\ death'[d].told = death[d].told
    BY <2>1, <2>3 DEF DeathInv, DeathTypeOK, DeathRec, Types
  <2>8. DeathTypeOK'
    BY <1>1, <1>2, <2>3, <2>4, <2>7 DEF DeathInv, DeathTypeOK
  <2>9. death[d].type # "free" /\ ~Cleared(d) /\ ~death[d].told
    BY <1>1, <1>4, <2>1 DEF DeathInv, Owned, Told, ToldOf
  <2>10. \A k \in Handle : ref_death[k] # NULL => ref_death[k] \in Death
    BY DEF DeathInv, DeathTypeOK
  <2>11. Owned'
    BY <1>1, <1>4, <2>1, <2>6, <2>7, <2>9, <2>10 DEF DeathInv, Owned, Cleared
  <2>12. \A k \in Handle : ref_death[k] = d => k = h
    BY <1>4 DEF DeathInv, Owned
  <2>13. Told'
    BY <1>1, <1>2, <1>4, <2>3, <2>1, <2>6, <2>7, <2>9, <2>10, <2>12 DEF DeathInv, Told, ToldOf
  <2> QED BY <2>5, <2>8, <2>11, <2>13 DEF DeathInv
<1> QED BY <1>3, <1>4

LEMMA RequestDeathKeeps ==
    ASSUME DeathInv, NEW th \in Thread, NEW h \in Handle, NEW c \in Cookie, NEW d \in Death,
           RequestDeath(th, h, c, d)
    PROVE  DeathInv'
<1> DEFINE type == IF dead[h] THEN "DEAD_BINDER" ELSE "none"
           rec == [Free EXCEPT !.type = type, !.cookie = c]
<1>1. /\ h \in refs /\ ref_death[h] = NULL /\ death[d].type = "free"
      /\ ref_death' = [ref_death EXCEPT ![h] = d]
      /\ death' = [death EXCEPT ![d] = rec]
      /\ UNCHANGED <<refs, dead, delivered_death, return_error, released, bug>>
  BY DEF RequestDeath
<1>2. ~Waiting(d) /\ ~Delivered(d) /\ \A k \in Handle : ref_death[k] # d
  <2>1. d # NULL
    BY DeathAssumption
  <2> QED BY <1>1, <2>1 DEF DeathInv, Owned
<1>3. /\ todo' \in [Thread -> Seq(Death)] /\ proc_todo' \in Seq(Death)
      /\ Once'
      /\ \A e \in Death : Waiting(e)' <=> Waiting(e) \/ (dead[h] /\ e = d)
  <2>1. CASE dead[h]
    <3>1. Queue(th, d)
      BY <2>1 DEF RequestDeath
    <3>2. /\ delivered_death' \in Seq(Death) /\ Distinct(delivered_death')
          /\ Items(delivered_death') = Items(delivered_death) \ {d}
      BY <1>1, <1>2 DEF DeathInv, DeathTypeOK, Once, Delivered
    <3> QED BY <1>2, <2>1, <3>1, <3>2, QueueLists DEF DeathInv
  <2>2. CASE ~dead[h]
    <3>1. UNCHANGED lists
      BY <1>1, <2>2 DEF RequestDeath, lists
    <3> QED BY <2>2, <3>1, SameLists DEF DeathInv, DeathTypeOK, lists
  <2> QED BY <2>1, <2>2
<1>4. \A e : Delivered(e)' <=> Delivered(e)
  BY <1>1 DEF Delivered
<1>5. /\ rec \in DeathRec /\ rec.type = type /\ rec.told = FALSE /\ rec.lost = FALSE
  BY DEF Free, DeathRec, Types
<1> HIDE DEF rec
<1>6. /\ death' \in [Death -> DeathRec]
      /\ \A e \in Death : e # d => death'[e] = death[e]
      /\ death'[d] = rec
  BY <1>1, <1>5 DEF DeathInv, DeathTypeOK
<1>7. /\ ref_death' \in [Handle -> Death \cup {NULL}]
      /\ \A k \in Handle : k # h => ref_death'[k] = ref_death[k]
      /\ ref_death'[h] = d /\ d # NULL
      /\ \A k \in Handle : ref_death[k] # NULL => ref_death[k] \in Death
  BY <1>1, DeathAssumption DEF DeathInv, DeathTypeOK
<1>8. DeathTypeOK'
  BY <1>1, <1>3, <1>6, <1>7 DEF DeathInv, DeathTypeOK
<1>9. Owned'
  <2>1. \A k \in Handle : ref_death'[k] # NULL => k \in refs' /\ death'[ref_death'[k]].type # "free"
    BY <1>1, <1>2, <1>3, <1>4, <1>5, <1>6, <1>7 DEF DeathInv, Owned
  <2>2. \A k, m \in Handle : ref_death'[k] # NULL /\ ref_death'[k] = ref_death'[m] => k = m
    BY <1>1, <1>2, <1>3, <1>4, <1>5, <1>6, <1>7 DEF DeathInv, Owned
  <2>3. \A e \in Death : Waiting(e)' \/ Delivered(e)' => death'[e].type # "free"
    BY <1>1, <1>2, <1>3, <1>4, <1>5, <1>6, <1>7 DEF DeathInv, Owned
  <2>4. \A e \in Death : Cleared(e)' =>
          (Waiting(e)' \/ Delivered(e)') /\ \A k \in Handle : ref_death'[k] # e
    BY <1>1, <1>2, <1>3, <1>4, <1>5, <1>6, <1>7 DEF DeathInv, Owned, Cleared
  <2>5. \A e \in Death : death'[e].type # "free" /\ ~Cleared(e)' =>
          \E k \in Handle : ref_death'[k] = e
    BY <1>1, <1>2, <1>3, <1>4, <1>5, <1>6, <1>7, DeathAssumption DEF DeathInv, Owned, Cleared
  <2> QED BY <2>1, <2>2, <2>3, <2>4, <2>5 DEF Owned
<1>10. dead[h] \in BOOLEAN
  BY DEF DeathInv, DeathTypeOK
<1>11. Told'
  BY <1>1, <1>2, <1>3, <1>4, <1>5, <1>6, <1>7, <1>10 DEF DeathInv, Told, ToldOf
<1> QED BY <1>3, <1>8, <1>9, <1>11 DEF DeathInv

LEMMA ClearDeathKeeps ==
    ASSUME DeathInv, NEW th \in Thread, NEW h \in Handle, NEW c \in Cookie, ClearDeath(th, h, c)
    PROVE  DeathInv'
<1> DEFINE d == ref_death[h]
<1>1. /\ h \in refs /\ d # NULL /\ d \in Death
      /\ ref_death' = [ref_death EXCEPT ![h] = NULL]
      /\ death' = [death EXCEPT ![d].type = ClearedType(d)]
      /\ IF OnList(d) THEN UNCHANGED <<todo, proc_todo>> ELSE Queue(th, d)
      /\ bug' = (bug \/ (OnList(d) /\ death[d].type # "DEAD_BINDER"))
      /\ UNCHANGED <<refs, dead, delivered_death, return_error, released>>
  BY DEF ClearDeath, DeathInv, DeathTypeOK
<1>2. OnList(d) <=> Waiting(d) \/ Delivered(d)
  BY DEF OnList, Waiting, Delivered
<1>3. /\ \A k \in Handle : ref_death[k] = d => k = h
      /\ Waiting(d) \/ Delivered(d) => death[d].type = "DEAD_BINDER"
      /\ Waiting(d) => ~death[d].told
      /\ Delivered(d) => death[d].told
      /\ \A k \in Handle : ref_death[k] # NULL => ref_death[k] \in Death
  BY <1>1 DEF DeathInv, Owned, Told, ToldOf, DeathTypeOK
<1>4. /\ ref_death' \in [Handle -> Death \cup {NULL}]
      /\ \A k \in Handle : k # h => ref_death'[k] = ref_death[k]
      /\ ref_death'[h] = NULL
      /\ \A k \in Handle : ref_death'[k] # d
  BY <1>1, <1>3 DEF DeathInv, DeathTypeOK
<1>13. ref_death[h] = d
  OBVIOUS
<1> HIDE DEF d
<1>5. ClearedType(d) = IF Waiting(d) \/ Delivered(d) THEN "DEAD_BINDER_AND_CLEAR"
                       ELSE "CLEAR_DEATH_NOTIFICATION"
  BY <1>2 DEF ClearedType
<1>6. /\ death' \in [Death -> DeathRec]
      /\ \A e \in Death : e # d => death'[e] = death[e]
      /\ death'[d].type = ClearedType(d)
      /\ death'[d].told = death[d].told
  BY <1>1, <1>5 DEF DeathInv, DeathTypeOK, DeathRec, Types
<1>7. /\ todo' \in [Thread -> Seq(Death)] /\ proc_todo' \in Seq(Death)
      /\ Once'
      /\ \A e \in Death : Waiting(e)' <=> Waiting(e) \/ (e = d /\ ~Delivered(d))
  <2>1. CASE Waiting(d) \/ Delivered(d)
    <3>1. UNCHANGED lists
      BY <1>1, <1>2, <2>1 DEF lists
    <3>2. Waiting(d) => ~Delivered(d)
      BY <1>3
    <3> QED BY <2>1, <3>1, SameLists DEF DeathInv, DeathTypeOK, lists
  <2>2. CASE ~Waiting(d) /\ ~Delivered(d)
    <3>1. Queue(th, d)
      BY <1>1, <1>2, <2>2
    <3>2. /\ delivered_death' \in Seq(Death) /\ Distinct(delivered_death')
          /\ Items(delivered_death') = Items(delivered_death) \ {d}
      BY <1>1, <2>2 DEF DeathInv, DeathTypeOK, Once, Delivered
    <3> QED BY <1>1, <2>2, <3>1, <3>2, QueueLists DEF DeathInv
  <2> QED BY <2>1, <2>2
<1>8. \A e : Delivered(e)' <=> Delivered(e)
  BY <1>1 DEF Delivered
<1>9. ~bug'
  BY <1>1, <1>2, <1>3 DEF DeathInv, Told, ToldOf
<1>10. DeathTypeOK'
  BY <1>1, <1>4, <1>6, <1>7, <1>9 DEF DeathInv, DeathTypeOK
<1>11. Owned'
  <2>1. \A k \in Handle : ref_death'[k] # NULL => k \in refs' /\ death'[ref_death'[k]].type # "free"
    BY <1>1, <1>3, <1>4, <1>5, <1>6, <1>7, <1>8 DEF DeathInv, Owned
  <2>2. \A k, m \in Handle : ref_death'[k] # NULL /\ ref_death'[k] = ref_death'[m] => k = m
    BY <1>1, <1>3, <1>4, <1>5, <1>6, <1>7, <1>8 DEF DeathInv, Owned
  <2>3. \A e \in Death : Waiting(e)' \/ Delivered(e)' => death'[e].type # "free"
    BY <1>1, <1>3, <1>4, <1>5, <1>6, <1>7, <1>8 DEF DeathInv, Owned
  <2>4. \A e \in Death : Cleared(e)' =>
          (Waiting(e)' \/ Delivered(e)') /\ \A k \in Handle : ref_death'[k] # e
    BY <1>1, <1>3, <1>4, <1>5, <1>6, <1>7, <1>8, <1>13, DeathAssumption DEF DeathInv, Owned, Cleared
  <2>5. \A e \in Death : death'[e].type # "free" /\ ~Cleared(e)' =>
          \E k \in Handle : ref_death'[k] = e
    BY <1>1, <1>3, <1>4, <1>5, <1>6, <1>7, <1>8, <1>13, DeathAssumption DEF DeathInv, Owned, Cleared
  <2> QED BY <2>1, <2>2, <2>3, <2>4, <2>5 DEF Owned
<1>12. Told'
  BY <1>1, <1>3, <1>4, <1>5, <1>6, <1>7, <1>8, <1>9 DEF DeathInv, Told, ToldOf
<1> QED BY <1>7, <1>10, <1>11, <1>12 DEF DeathInv

LEMMA DeadBinderDoneKeeps ==
    ASSUME DeathInv, NEW th \in Thread, NEW c \in Cookie, DeadBinderDone(th, c)
    PROVE  DeathInv'
<1>1. PICK d \in DoneWith(c) :
         /\ delivered_death' = Without(delivered_death, d)
         /\ IF death[d].type = "DEAD_BINDER_AND_CLEAR"
            THEN /\ death' = [death EXCEPT ![d].type = "CLEAR_DEATH_NOTIFICATION"]
                 /\ Queue(th, d)
            ELSE UNCHANGED <<death, todo, proc_todo>>
  BY DEF DeadBinderDone
<1>2. UNCHANGED <<refs, dead, ref_death, return_error, released, bug>>
  BY DEF DeadBinderDone
<1>3. Delivered(d) /\ d \in Death
  <2>1. PICK i \in DOMAIN delivered_death : d = delivered_death[i]
    BY DEF DoneWith
  <2>2. delivered_death[i] \in Death
    BY DEF DeathInv, DeathTypeOK
  <2> QED BY <2>1, <2>2 DEF Delivered, Items
<1>4. ~Waiting(d)
  BY <1>3 DEF DeathInv, Once, Waiting, Delivered
<1>5. /\ delivered_death' \in Seq(Death) /\ Distinct(delivered_death')
      /\ Items(delivered_death') = Items(delivered_death) \ {d}
  BY <1>1, ItemsWithout DEF DeathInv, DeathTypeOK, Once
<1>6. \A e : Delivered(e)' <=> Delivered(e) /\ e # d
  BY <1>5 DEF Delivered
<1>7. /\ death[d].told /\ death[d].type # "CLEAR_DEATH_NOTIFICATION"
      /\ \A k \in Handle : ref_death[k] # NULL => ref_death[k] \in Death
  BY <1>3 DEF DeathInv, Told, ToldOf, DeathTypeOK
<1>8. CASE death[d].type = "DEAD_BINDER_AND_CLEAR"
  <2>1. /\ todo' \in [Thread -> Seq(Death)] /\ proc_todo' \in Seq(Death)
        /\ Once'
        /\ \A e \in Death : Waiting(e)' <=> Waiting(e) \/ e = d
    BY <1>1, <1>3, <1>4, <1>5, <1>8, QueueLists DEF DeathInv
  <2>2. /\ death' \in [Death -> DeathRec]
        /\ \A e \in Death : e # d => death'[e] = death[e]
        /\ death'[d].type = "CLEAR_DEATH_NOTIFICATION"
    <3>1. death' = [death EXCEPT ![d].type = "CLEAR_DEATH_NOTIFICATION"]
      BY <1>1, <1>8
    <3>2. "CLEAR_DEATH_NOTIFICATION" \in Types
      BY DEF Types
    <3> QED BY <1>3, <3>1, <3>2 DEF DeathInv, DeathTypeOK, DeathRec
  <2>3. DeathTypeOK'
    BY <1>2, <1>5, <2>1, <2>2 DEF DeathInv, DeathTypeOK
  <2>4. Cleared(d) /\ Cleared(d)'
    BY <1>8, <2>2 DEF Cleared
  <2>5. Owned'
    <3>1. \A k \in Handle : ref_death'[k] # NULL => k \in refs' /\ death'[ref_death'[k]].type # "free"
      BY <1>2, <1>3, <1>6, <1>7, <2>1, <2>2, <2>4 DEF DeathInv, Owned
    <3>2. \A k, m \in Handle : ref_death'[k] # NULL /\ ref_death'[k] = ref_death'[m] => k = m
      BY <1>2, <1>3, <1>6, <1>7, <2>1, <2>2, <2>4 DEF DeathInv, Owned
    <3>3. \A e \in Death : Waiting(e)' \/ Delivered(e)' => death'[e].type # "free"
      BY <1>2, <1>3, <1>6, <1>7, <2>1, <2>2, <2>4 DEF DeathInv, Owned
    <3>4. \A e \in Death : Cleared(e)' =>
            (Waiting(e)' \/ Delivered(e)') /\ \A k \in Handle : ref_death'[k] # e
      BY <1>2, <1>3, <1>6, <1>7, <2>1, <2>2, <2>4 DEF DeathInv, Owned, Cleared
    <3>5. \A e \in Death : death'[e].type # "free" /\ ~Cleared(e)' =>
            \E k \in Handle : ref_death'[k] = e
      BY <1>2, <1>3, <1>6, <1>7, <2>1, <2>2, <2>4 DEF DeathInv, Owned, Cleared
    <3> QED BY <3>1, <3>2, <3>3, <3>4, <3>5 DEF Owned
  <2>6. \A h \in Handle : ref_death[h] # d
    BY <1>3, <2>4 DEF DeathInv, Owned
  <2>7. Told'
    <3>1. ASSUME NEW k \in Handle, ref_death'[k] # NULL
          PROVE  ToldOf(k)'
      BY <3>1, <1>2, <1>6, <1>7, <2>1, <2>2, <2>6 DEF DeathInv, Told, ToldOf
    <3>2. \A e \in Death : Waiting(e)' =>
            ~death'[e].told \/ death'[e].type = "CLEAR_DEATH_NOTIFICATION"
      BY <1>2, <1>6, <1>7, <2>1, <2>2, <2>6 DEF DeathInv, Told, ToldOf
    <3>3. \A e \in Death : Delivered(e)' =>
            death'[e].told /\ death'[e].type # "CLEAR_DEATH_NOTIFICATION"
      BY <1>2, <1>6, <1>7, <2>1, <2>2, <2>6 DEF DeathInv, Told, ToldOf
    <3>4. ~bug'
      BY <1>2, <1>6, <1>7, <2>1, <2>2, <2>6 DEF DeathInv, Told, ToldOf
    <3> QED BY <3>1, <3>2, <3>3, <3>4 DEF Told
  <2> QED BY <2>1, <2>3, <2>5, <2>7 DEF DeathInv
<1>9. CASE death[d].type # "DEAD_BINDER_AND_CLEAR"
  <2>1. UNCHANGED <<death, todo, proc_todo>>
    BY <1>1, <1>9
  <2>2. Once'
    BY <1>5, <2>1 DEF DeathInv, Once
  <2>3. \A e : Waiting(e)' <=> Waiting(e)
    BY <2>1 DEF Waiting
  <2>4. DeathTypeOK'
    BY <1>2, <1>5, <2>1 DEF DeathInv, DeathTypeOK
  <2>5. ~Cleared(d)
    BY <1>7, <1>9 DEF Cleared
  <2>6. Owned'
    BY <1>2, <1>6, <2>1, <2>3, <2>5 DEF DeathInv, Owned, Cleared
  <2>7. Told'
    BY <1>2, <1>6, <1>7, <2>1, <2>3 DEF DeathInv, Told, ToldOf
  <2> QED BY <2>2, <2>4, <2>6, <2>7 DEF DeathInv
<1> QED BY <1>8, <1>9

\* A read of one item, from either list.
LEMMA DeliverKeeps ==
    ASSUME DeathInv, NEW STATE d, d \in Death, Waiting(d), Deliver(d),
           todo' \in [Thread -> Seq(Death)], proc_todo' \in Seq(Death), Once',
           \A e \in Death : Waiting(e)' <=> Waiting(e) /\ e # d,
           UNCHANGED <<refs, dead, ref_death, return_error, released, bug>>
    PROVE  DeathInv'
<1>1. /\ delivered_death' \in Seq(Death)
      /\ Items(delivered_death') =
            IF death[d].type = "CLEAR_DEATH_NOTIFICATION" THEN Items(delivered_death)
            ELSE Items(delivered_death) \cup {d}
  BY DeliverLists DEF DeathInv
<1>2. \A e : Delivered(e)' <=>
          Delivered(e) \/ (e = d /\ death[d].type # "CLEAR_DEATH_NOTIFICATION")
  BY <1>1 DEF Delivered
<1>3. \A k \in Handle : ref_death[k] # NULL => ref_death[k] \in Death
  BY DEF DeathInv, DeathTypeOK
<1>4. ~Delivered(d)
  BY DEF DeathInv, Once, Waiting, Delivered
<1>5. CASE death[d].type = "CLEAR_DEATH_NOTIFICATION"
  <2>1. death' = [death EXCEPT ![d] = Free]
    BY <1>5 DEF Deliver
  <2>2. Free \in DeathRec /\ Free.type = "free"
    BY DEF Free, DeathRec
  <2>3. /\ death' \in [Death -> DeathRec]
        /\ \A e \in Death : e # d => death'[e] = death[e]
        /\ death'[d].type = "free"
    BY <2>1, <2>2 DEF DeathInv, DeathTypeOK
  <2>4. \A k \in Handle : ref_death[k] # d
    BY <1>5 DEF DeathInv, Owned, Cleared
  <2>5. DeathTypeOK'
    BY <1>1, <2>3 DEF DeathInv, DeathTypeOK
  <2>6. Owned'
    <3>1. \A k \in Handle : ref_death'[k] # NULL => k \in refs' /\ death'[ref_death'[k]].type # "free"
      BY <1>2, <1>3, <1>4, <1>5, <2>3, <2>4 DEF DeathInv, Owned
    <3>2. \A k, m \in Handle : ref_death'[k] # NULL /\ ref_death'[k] = ref_death'[m] => k = m
      BY <1>2, <1>3, <1>4, <1>5, <2>3, <2>4 DEF DeathInv, Owned
    <3>3. \A e \in Death : Waiting(e)' \/ Delivered(e)' => death'[e].type # "free"
      BY <1>2, <1>3, <1>4, <1>5, <2>3, <2>4 DEF DeathInv, Owned
    <3>4. \A e \in Death : Cleared(e)' =>
            (Waiting(e)' \/ Delivered(e)') /\ \A k \in Handle : ref_death'[k] # e
      BY <1>2, <1>3, <1>4, <1>5, <2>3, <2>4 DEF DeathInv, Owned, Cleared
    <3>5. \A e \in Death : death'[e].type # "free" /\ ~Cleared(e)' =>
            \E k \in Handle : ref_death'[k] = e
      BY <1>2, <1>3, <1>4, <1>5, <2>3, <2>4 DEF DeathInv, Owned, Cleared
    <3> QED BY <3>1, <3>2, <3>3, <3>4, <3>5 DEF Owned
  <2>7. Told'
    <3>1. ASSUME NEW k \in Handle, ref_death'[k] # NULL
          PROVE  ToldOf(k)'
      BY <3>1, <1>2, <1>3, <1>4, <1>5, <2>3, <2>4 DEF DeathInv, Told, ToldOf
    <3>2. \A e \in Death : Waiting(e)' =>
            ~death'[e].told \/ death'[e].type = "CLEAR_DEATH_NOTIFICATION"
      BY <1>2, <1>3, <1>4, <1>5, <2>3, <2>4 DEF DeathInv, Told
    <3>3. \A e \in Death : Delivered(e)' =>
            death'[e].told /\ death'[e].type # "CLEAR_DEATH_NOTIFICATION"
      BY <1>2, <1>3, <1>4, <1>5, <2>3, <2>4 DEF DeathInv, Told
    <3> QED BY <3>1, <3>2, <3>3 DEF DeathInv, Told
  <2> QED BY <2>5, <2>6, <2>7 DEF DeathInv
<1>6. CASE death[d].type # "CLEAR_DEATH_NOTIFICATION"
  <2>1. death' = [death EXCEPT ![d].told = TRUE]
    BY <1>6 DEF Deliver
  <2>2. /\ death' \in [Death -> DeathRec]
        /\ \A e \in Death : e # d => death'[e] = death[e]
        /\ death'[d].told /\ death'[d].type = death[d].type
    BY <2>1 DEF DeathInv, DeathTypeOK, DeathRec
  <2>3. \A e \in Death : death'[e].type = death[e].type
    BY <2>2
  <2>4. \A e \in Death : Waiting(e)' \/ Delivered(e)' <=> Waiting(e) \/ Delivered(e)
    BY <1>2, <1>6
  <2>5. DeathTypeOK'
    BY <1>1, <2>2 DEF DeathInv, DeathTypeOK
  <2>6. Owned'
    BY <1>3, <2>3, <2>4 DEF DeathInv, Owned, Cleared
  <2>7. Told'
    <3>1. ASSUME NEW k \in Handle, ref_death'[k] # NULL
          PROVE  ToldOf(k)'
      BY <3>1, <1>2, <1>3, <1>6, <2>2, <2>4 DEF DeathInv, Told, ToldOf
    <3>2. \A e \in Death : Waiting(e)' =>
            ~death'[e].told \/ death'[e].type = "CLEAR_DEATH_NOTIFICATION"
      BY <1>2, <1>3, <1>6, <2>2, <2>4 DEF DeathInv, Told
    <3>3. \A e \in Death : Delivered(e)' =>
            death'[e].told /\ death'[e].type # "CLEAR_DEATH_NOTIFICATION"
      BY <1>2, <1>3, <1>6, <2>2, <2>4 DEF DeathInv, Told
    <3> QED BY <3>1, <3>2, <3>3 DEF DeathInv, Told
  <2> QED BY <2>5, <2>6, <2>7 DEF DeathInv
<1> QED BY <1>5, <1>6

LEMMA ReadKeeps ==
    ASSUME DeathInv, NEW th \in Thread, ReadThreadWork(th) \/ ReadProcWork(th)
    PROVE  DeathInv'
<1>1. CASE ReadThreadWork(th)
  <2>1. Deliver(Head(todo[th])) /\ UNCHANGED <<refs, dead, ref_death, return_error, released, bug>>
    BY <1>1 DEF ReadThreadWork
  <2> QED BY <1>1, <2>1, ReadThreadLists, DeliverKeeps DEF DeathInv
<1>2. CASE ReadProcWork(th)
  <2>1. Deliver(Head(proc_todo)) /\ UNCHANGED <<refs, dead, ref_death, return_error, released, bug>>
    BY <1>2 DEF ReadProcWork
  <2> QED BY <1>2, <2>1, ReadProcLists, DeliverKeeps DEF DeathInv
<1> QED BY <1>1, <1>2

LEMMA ErrorKeeps ==
    ASSUME DeathInv, NEW th \in Thread,
           ReadError(th) \/ \E h \in Handle : RequestNoMemory(th, h)
    PROVE  DeathInv'
<1>1. UNCHANGED <<refs, dead, ref_death, death, lists, released, bug>> /\ return_error' \subseteq Thread
  BY DEF ReadError, RequestNoMemory, DeathInv, DeathTypeOK
<1>2. Once' /\ (\A d : Waiting(d)' <=> Waiting(d)) /\ (\A d : Delivered(d)' <=> Delivered(d))
  BY <1>1, SameLists DEF DeathInv
<1>3. DeathTypeOK'
  BY <1>1 DEF DeathInv, DeathTypeOK, lists
<1>4. Owned'
  BY <1>1, <1>2 DEF DeathInv, Owned, Cleared
<1>5. Told'
  BY <1>1, <1>2 DEF DeathInv, Told, ToldOf
<1> QED BY <1>2, <1>3, <1>4, <1>5 DEF DeathInv

LEMMA ThreadExitKeeps ==
    ASSUME DeathInv, NEW th \in Thread, ThreadExit(th)
    PROVE  DeathInv'
<1> DEFINE freed == ReleasedFrom(todo[th])
<1>1. /\ death' = [d \in Death |->
                     IF d \in freed THEN Free
                     ELSE [death[d] EXCEPT !.lost = @ \/ d \in Items(todo[th])]]
      /\ todo' = [todo EXCEPT ![th] = <<>>]
      /\ return_error' = return_error \ {th}
      /\ UNCHANGED <<refs, dead, ref_death, proc_todo, delivered_death, released, bug>>
  BY DEF ThreadExit
<1>2. freed = {d \in Items(todo[th]) : Cleared(d)}
  BY DEF ReleasedFrom, Cleared
<1> HIDE DEF freed
<1>3. /\ todo' \in [Thread -> Seq(Death)]
      /\ todo'[th] = <<>>
      /\ \A u \in Thread : u # th => todo'[u] = todo[u]
  BY <1>1 DEF DeathInv, DeathTypeOK
<1>4. Items(todo'[th]) = {} /\ Distinct(todo'[th])
  BY <1>3 DEF Items, Distinct
<1>5. Once'
  BY <1>1, <1>3, <1>4 DEF DeathInv, Once
<1>6. \A d : Waiting(d)' <=> Waiting(d) /\ d \notin Items(todo[th])
  BY <1>1, <1>3, <1>4 DEF DeathInv, Waiting, Once
<1>7. \A d : Delivered(d)' <=> Delivered(d)
  BY <1>1 DEF Delivered
<1>8. \A d : d \in Items(todo[th]) => Waiting(d) /\ ~Delivered(d)
  BY DEF DeathInv, Once, Waiting, Delivered
<1>9. /\ Free \in DeathRec
      /\ \A d \in Death : [death[d] EXCEPT !.lost = @ \/ d \in Items(todo[th])] \in DeathRec
  BY DEF Free, DeathInv, DeathTypeOK, DeathRec
<1>10. death' \in [Death -> DeathRec]
  BY <1>1, <1>9
<1>11. DeathTypeOK'
  BY <1>1, <1>3, <1>10 DEF DeathInv, DeathTypeOK
<1>12. \A d \in Death : d \in freed => death'[d].type = "free"
  BY <1>1 DEF Free
<1>13. \A d \in Death : d \notin freed =>
          /\ death'[d].type = death[d].type /\ death'[d].told = death[d].told
          /\ death'[d].lost <=> death[d].lost \/ d \in Items(todo[th])
  BY <1>1 DEF DeathInv, DeathTypeOK, DeathRec
<1>14. \A k \in Handle : ref_death[k] # NULL => ref_death[k] \in Death /\ ref_death[k] \notin freed
  BY <1>2 DEF DeathInv, DeathTypeOK, Owned
<1>15. Owned'
  BY <1>1, <1>2, <1>6, <1>7, <1>8, <1>12, <1>13, <1>14 DEF DeathInv, Owned, Cleared
<1>16. Told'
  BY <1>1, <1>2, <1>6, <1>7, <1>8, <1>12, <1>13, <1>14 DEF DeathInv, Told, ToldOf
<1> QED BY <1>5, <1>11, <1>15, <1>16 DEF DeathInv

LEMMA DeferredReleaseKeeps ==
    ASSUME DeathInv, DeferredRelease
    PROVE  DeathInv'
<1> DEFINE ofRef == {ref_death[h] : h \in Handle} \ {NULL}
           cleared == (UNION {ReleasedFrom(todo[th]) : th \in Thread})
                      \cup ReleasedFrom(proc_todo) \cup ReleasedFrom(delivered_death)
<1>1. /\ released' = TRUE /\ refs' = {} /\ return_error' = {}
      /\ ref_death' = [h \in Handle |-> NULL]
      /\ death' = [d \in Death |-> IF d \in ofRef \cup cleared THEN Free ELSE death[d]]
      /\ todo' = [th \in Thread |-> <<>>]
      /\ proc_todo' = <<>> /\ delivered_death' = <<>>
      /\ UNCHANGED <<dead, bug>>
  BY DEF DeferredRelease
<1>2. ASSUME NEW d \in Death, death[d].type # "free"
      PROVE  d \in ofRef \cup cleared
  <2>1. CASE Cleared(d)
    <3>1. Waiting(d) \/ Delivered(d)
      BY <2>1 DEF DeathInv, Owned
    <3>2. CASE d \in Items(proc_todo)
      <4>1. d \in ReleasedFrom(proc_todo)
        BY <2>1, <3>2 DEF ReleasedFrom, Cleared
      <4> QED BY <4>1
    <3>4. CASE Delivered(d)
      <4>1. d \in ReleasedFrom(delivered_death)
        BY <2>1, <3>4 DEF Delivered, ReleasedFrom, Cleared
      <4> QED BY <4>1
    <3>3. ASSUME NEW th \in Thread, d \in Items(todo[th])
          PROVE  d \in cleared
      <4>1. d \in ReleasedFrom(todo[th])
        BY <2>1, <3>3 DEF ReleasedFrom, Cleared
      <4> QED BY <4>1
    <3> QED BY <3>1, <3>2, <3>3, <3>4 DEF Waiting
  <2>2. CASE ~Cleared(d)
    <3>1. PICK h \in Handle : ref_death[h] = d
      BY <1>2, <2>2 DEF DeathInv, Owned
    <3>2. d # NULL
      BY DeathAssumption
    <3> QED BY <3>1, <3>2
  <2> QED BY <2>1, <2>2
<1> HIDE DEF ofRef, cleared
<1>3. Free \in DeathRec /\ Free.type = "free"
  BY DEF Free, DeathRec
<1>4. /\ death' \in [Death -> DeathRec]
      /\ \A d \in Death : death'[d].type = "free"
  BY <1>1, <1>2, <1>3 DEF DeathInv, DeathTypeOK
<1>5. Items(<<>>) = {} /\ Distinct(<<>>)
  BY DEF Items, Distinct
<1>6. Once' /\ (\A d : ~Waiting(d)' /\ ~Delivered(d)')
  BY <1>1, <1>5 DEF Once, Waiting, Delivered
<1>7. DeathTypeOK'
  BY <1>1, <1>4 DEF DeathInv, DeathTypeOK
<1>8. Owned'
  BY <1>1, <1>4, <1>6 DEF Owned, Cleared
<1>9. Told'
  BY <1>1, <1>6 DEF DeathInv, Told
<1> QED BY <1>6, <1>7, <1>8, <1>9 DEF DeathInv

-----------------------------------------------------------------------------
(* The theorems *)

LEMMA DeathInitInv == DeathInit => DeathInv
<1> SUFFICES ASSUME DeathInit PROVE DeathInv
  OBVIOUS
<1>1. Free \in DeathRec /\ Free.type = "free"
  BY DEF Free, DeathRec
<1>2. Items(<<>>) = {} /\ Distinct(<<>>)
  BY DEF Items, Distinct
<1>3. DeathTypeOK
  <2>1. <<>> \in Seq(Death)
    OBVIOUS
  <2> QED BY <1>1, <2>1 DEF DeathInit, DeathTypeOK
<1>4. Once /\ \A d : ~Waiting(d) /\ ~Delivered(d)
  BY <1>2 DEF DeathInit, Once, Waiting, Delivered
<1>5. Owned
  BY <1>1, <1>4 DEF DeathInit, Owned, Cleared
<1>6. Told
  BY <1>4 DEF DeathInit, Told
<1> QED BY <1>3, <1>4, <1>5, <1>6 DEF DeathInv

LEMMA DeathNextInv == DeathInv /\ [DeathNext]_deathVars => DeathInv'
<1> SUFFICES ASSUME DeathInv, [DeathNext]_deathVars PROVE DeathInv'
  OBVIOUS
<1>1. CASE \E h \in Handle : GetRef(h) \/ DeleteRef(h) \/ NodeRelease(h)
  BY <1>1, GetRefKeeps, DeleteRefKeeps, NodeReleaseKeeps
<1>2. ASSUME NEW th \in Thread, Command(th)
      PROVE  DeathInv'
  <2>1. ASSUME NEW h \in Handle, NEW c \in Cookie, NEW d \in Death, RequestDeath(th, h, c, d)
        PROVE  DeathInv'
    BY <2>1, RequestDeathKeeps
  <2>2. ASSUME NEW h \in Handle, NEW c \in Cookie, ClearDeath(th, h, c)
        PROVE  DeathInv'
    BY <2>2, ClearDeathKeeps
  <2>3. ASSUME NEW h \in Handle, RequestNoMemory(th, h)
        PROVE  DeathInv'
    BY <2>3, ErrorKeeps
  <2>4. ASSUME NEW c \in Cookie, DeadBinderDone(th, c)
        PROVE  DeathInv'
    BY <2>4, DeadBinderDoneKeeps
  <2> QED BY <1>2, <2>1, <2>2, <2>3, <2>4 DEF Command
<1>3. ASSUME NEW th \in Thread, Read(th)
      PROVE  DeathInv'
  BY <1>3, ReadKeeps, ErrorKeeps DEF Read
<1>4. ASSUME NEW th \in Thread, ThreadExit(th)
      PROVE  DeathInv'
  BY <1>4, ThreadExitKeeps
<1>5. CASE DeferredRelease
  BY <1>5, DeferredReleaseKeeps
<1>6. CASE UNCHANGED deathVars
  BY <1>6 DEF deathVars, lists, DeathInv, DeathTypeOK, Once, Owned, Told, ToldOf,
              Waiting, Delivered, Cleared
<1> QED BY <1>1, <1>2, <1>3, <1>4, <1>5, <1>6 DEF DeathNext

\* The variables keep their types in every behaviour.
THEOREM DeathTypeCorrect == DeathSpec => []DeathTypeOK
<1>1. DeathInv => DeathTypeOK
  BY DEF DeathInv
<1> QED BY <1>1, DeathInitInv, DeathNextInv, PTL DEF DeathSpec

\* Every binder_ref_death in use has one owner: the reference it was requested for or,
\* once BC_CLEAR_DEATH_NOTIFICATION has taken it away, the list it is on.
THEOREM NotificationOwned == DeathSpec => []OneOwner
<1>1. DeathInv => OneOwner
  <2> SUFFICES ASSUME DeathInv PROVE OneOwner
    OBVIOUS
  <2>1. \A h \in Handle : ref_death[h] # NULL => h \in refs /\ ref_death[h] \in Allocated
    BY DEF DeathInv, DeathTypeOK, Owned, Allocated
  <2>2. ASSUME NEW q \in Queues, NEW d \in Items(q)
        PROVE  d \in Allocated
    <3>1. Waiting(d) \/ Delivered(d)
      BY <2>2 DEF Queues, Waiting, Delivered
    <3>2. q \in Seq(Death)
      BY DEF Queues, DeathInv, DeathTypeOK
    <3>3. d \in Death
      BY <3>2 DEF Items
    <3> QED BY <3>1, <3>3 DEF DeathInv, Owned, Allocated
  <2>3. ASSUME NEW d \in Allocated, Cleared(d)
        PROVE  {h \in Handle : ref_death[h] = d} = {} /\ OnList(d)
    <3>1. (Waiting(d) \/ Delivered(d)) /\ \A h \in Handle : ref_death[h] # d
      BY <2>3 DEF DeathInv, Owned, Allocated
    <3> QED BY <3>1 DEF OnList, Waiting, Delivered
  <2>4. ASSUME NEW d \in Allocated, ~Cleared(d)
        PROVE  Cardinality({h \in Handle : ref_death[h] = d}) = 1
    <3>1. PICK h \in Handle : ref_death[h] = d
      BY <2>4 DEF DeathInv, Owned, Allocated
    <3>2. d # NULL
      BY DeathAssumption DEF Allocated
    <3>3. {k \in Handle : ref_death[k] = d} = {h}
      BY <3>1, <3>2 DEF DeathInv, Owned
    <3> QED BY <3>3, FS_Singleton
  <2>5. \A d \in Allocated :
          LET holders == {h \in Handle : ref_death[h] = d}
              cleared == death[d].type \in {"DEAD_BINDER_AND_CLEAR", "CLEAR_DEATH_NOTIFICATION"}
          IN IF cleared THEN holders = {} /\ OnList(d) ELSE Cardinality(holders) = 1
    BY <2>3, <2>4 DEF Cleared
  <2> QED BY <2>1, <2>2, <2>5 DEF OneOwner
<1> QED BY <1>1, DeathInitInv, DeathNextInv, PTL DEF DeathSpec

\* A death is returned to the program once, whether the death or the request comes
\* first, and the assertions of binder_node_release and binder_thread_write hold.
THEOREM DeathTold == DeathSpec => []ToldOnce
<1>1. DeathInv => ToldOnce
  <2> SUFFICES ASSUME DeathInv PROVE ToldOnce
    OBVIOUS
  <2>1. \A d : OnList(d) <=> Waiting(d) \/ Delivered(d)
    BY DEF OnList, Waiting, Delivered
  <2>2. ASSUME NEW d \in Items(proc_todo) \cup (UNION {Items(todo[th]) : th \in Thread})
        PROVE  ~death[d].told \/ death[d].type = "CLEAR_DEATH_NOTIFICATION"
    <3>1. Waiting(d)
      BY DEF Waiting
    <3>2. d \in Death
      BY <3>1 DEF Waiting, Items, DeathInv, DeathTypeOK
    <3> QED BY <3>1, <3>2 DEF DeathInv, Told
  <2>3. ASSUME NEW h \in Handle, ref_death[h] # NULL
        PROVE  LET d == ref_death[h]
               IN /\ OnList(d) => dead[h] /\ death[d].type = "DEAD_BINDER"
                  /\ dead[h] => OnList(d) \/ death[d].told \/ death[d].lost
    BY <2>1, <2>3 DEF DeathInv, Told, ToldOf
  <2> QED BY <2>2, <2>3 DEF ToldOnce, DeathInv, Told
<1> QED BY <1>1, DeathInitInv, DeathNextInv, PTL DEF DeathSpec

-----------------------------------------------------------------------------
(* The whole exchange: the inductive invariant *)

Commands == {"DEAD", "CLEAR_DONE"} \X Proxy

\* A thread has at most one command to execute or to write, and writes BC_DEAD_BINDER_DONE
\* before it reads again.
UserTypeOK ==
    /\ exists \subseteq Proxy
    /\ held \subseteq exists
    /\ weak \in [Proxy -> Nat]
    /\ mObitsSent \in [Proxy -> BOOLEAN]
    /\ mObituaries \in [Proxy -> (SUBSET Recipient) \cup {NULL}]
    /\ mIn \in [Thread -> {<<>>} \cup {<<c>> : c \in Commands}]
    /\ mOut \in [Thread -> {<<>>} \cup {<<p>> : p \in Proxy}]
    /\ obituary \in [Thread -> Proxy \cup {NULL}]
    /\ taken \in [Thread -> (SUBSET Recipient) \cup {NULL}]
    /\ link \in [Recipient -> Links]

\* Where a thread is in executeCommand and sendObituary.
Stage ==
    \A th \in Thread :
        /\ mIn[th] # <<>> => mOut[th] = <<>>
        /\ obituary[th] # NULL => mIn[th] = <<<<"DEAD", obituary[th]>>>>
        /\ taken[th] # NULL => obituary[th] # NULL

\* A recipient is linked as long as it is in mObituaries of its proxy or was taken from
\* there, and is in one of these places only.
OneList ==
    /\ \A p \in Proxy : mObituaries[p] # NULL =>
          \A r \in mObituaries[p] : link[r] = "linked" /\ ProxyOf[r] = p
    /\ \A th \in Thread : taken[th] # NULL => \A r \in taken[th] :
          /\ link[r] = "linked" /\ ProxyOf[r] = obituary[th]
          /\ \A p \in Proxy : mObituaries[p] # NULL => r \notin mObituaries[p]
          /\ \A u \in Thread \ {th} : taken[u] # NULL => r \notin taken[u]

\* The cookie of a notification is the proxy of the reference it was requested for, and
\* the node of that reference is dead when the notification says so.
Cookies ==
    /\ \A d \in Death : death[d].type # "free" => death[d].cookie \in Proxy
    /\ \A h \in Handle : ref_death[h] # NULL => HandleOf[death[ref_death[h]].cookie] = h
    /\ \A d \in Death : death[d].type \in {"DEAD_BINDER", "DEAD_BINDER_AND_CLEAR"} =>
          dead[HandleOf[death[d].cookie]]

Requests(p) == {d \in Allocated : death[d].cookie = p}

\* What was returned to the program and not confirmed, and the threads that have it.
ToldTo(p) == {d \in Death : Delivered(d) /\ death[d].cookie = p}
Reporting(p) == {th \in Thread : mIn[th] = <<<<"DEAD", p>>>> \/ mOut[th] = <<p>>}

\* Every notification holds one weak reference, and every returned one has its thread.
Counted ==
    /\ \A p \in Proxy : IsFiniteSet(Requests(p)) /\ IsFiniteSet(Confirmed(p))
    /\ \A p \in Proxy : weak[p] = Cardinality(Requests(p)) + Cardinality(Confirmed(p))
    /\ \A p \in Proxy : IsFiniteSet(ToldTo(p)) /\ IsFiniteSet(Reporting(p))
    /\ \A p \in Proxy : Cardinality(ToldTo(p)) = Cardinality(Reporting(p))
    /\ \A p \in Proxy \ exists : weak[p] = 0

UserInv == DeathInv /\ UserTypeOK /\ Stage /\ OneList /\ Cookies /\ Counted

-----------------------------------------------------------------------------
(* What the steps of the driver mean for the proxies *)

SameRequests == \A p \in Proxy : Requests(p)' = Requests(p)
SameTold == \A p \in Proxy : ToldTo(p)' = ToldTo(p)

LEMMA SameDeath ==
    ASSUME DeathInv, Cookies, UNCHANGED deathVars
    PROVE  Cookies' /\ SameRequests /\ SameTold
<1>1. UNCHANGED <<dead, ref_death, death, delivered_death>>
  BY DEF deathVars, lists
<1> QED BY <1>1 DEF Cookies, SameRequests, SameTold, Requests, ToldTo, Allocated, Delivered

LEMMA GetRefEffect ==
    ASSUME DeathInv, Cookies, NEW p \in Proxy, GetRef(HandleOf[p]), Requests(p) = {}
    PROVE  Cookies' /\ SameRequests /\ SameTold
<1>1. UNCHANGED <<ref_death, death, delivered_death>>
  BY DEF GetRef, lists
<1>2. PICK b \in BOOLEAN : dead' = [dead EXCEPT ![HandleOf[p]] = b]
  BY DEF GetRef
<1>3. ASSUME NEW d \in Death, death[d].type \in {"DEAD_BINDER", "DEAD_BINDER_AND_CLEAR"}
      PROVE  dead'[HandleOf[death[d].cookie]]
  <2>1. death[d].cookie \in Proxy /\ death[d].cookie # p
    BY <1>3 DEF Cookies, Requests, Allocated
  <2>2. HandleOf[death[d].cookie] # HandleOf[p]
    BY <2>1, ProxyAssumption
  <2>3. dead[HandleOf[death[d].cookie]] /\ HandleOf[death[d].cookie] \in Handle
    BY <1>3, <2>1, ProxyAssumption DEF Cookies
  <2> QED BY <1>2, <2>2, <2>3 DEF DeathInv, DeathTypeOK
<1>4. Cookies'
  BY <1>1, <1>3 DEF Cookies
<1> QED BY <1>1, <1>4 DEF SameRequests, SameTold, Requests, ToldTo, Allocated, Delivered

\* A proxy that no notification names has no notification.
LEMMA DeleteRefEffect ==
    ASSUME DeathInv, Cookies, NEW p \in Proxy, DeleteRef(HandleOf[p]), Requests(p) = {}
    PROVE  Cookies' /\ SameRequests /\ SameTold
<1> DEFINE h == HandleOf[p]
<1>0. h \in Handle
  BY ProxyAssumption
<1>1. ref_death[h] = NULL
  <2> SUFFICES ASSUME ref_death[h] # NULL PROVE FALSE
    OBVIOUS
  <2>1. ref_death[h] \in Death /\ death[ref_death[h]].type # "free"
    BY <1>0 DEF DeathInv, DeathTypeOK, Owned
  <2>2. death[ref_death[h]].cookie \in Proxy /\ HandleOf[death[ref_death[h]].cookie] = h
    BY <1>0, <2>1 DEF Cookies
  <2>3. death[ref_death[h]].cookie = p
    BY <2>2, ProxyAssumption
  <2> QED BY <2>1, <2>3 DEF Requests, Allocated
<1>2. /\ ref_death' = [ref_death EXCEPT ![h] = NULL]
      /\ death' = [e \in Death |-> IF e = NULL THEN Free ELSE death[e]]
      /\ delivered_death' = Without(delivered_death, NULL)
      /\ dead' = dead
  BY <1>1 DEF DeleteRef
<1>3. ref_death' = ref_death
  BY <1>0, <1>1, <1>2 DEF DeathInv, DeathTypeOK
<1>4. death' = death
  <2>1. \A e \in Death : e # NULL
    BY DeathAssumption
  <2> QED BY <1>2, <2>1 DEF DeathInv, DeathTypeOK
<1>5. delivered_death' = delivered_death
  <2>1. NULL \notin Items(delivered_death)
    BY DeathAssumption DEF Items, DeathInv, DeathTypeOK
  <2> QED BY <1>2, <2>1 DEF Without
<1> HIDE DEF h
<1> QED BY <1>2, <1>3, <1>4, <1>5 DEF Cookies, SameRequests, SameTold, Requests, ToldTo, Allocated, Delivered

\* A type that changes leaves the sets alone when the notification stays in use.
LEMMA SameCookies ==
    ASSUME death' \in [Death -> DeathRec],
           \A d \in Death : /\ death'[d].cookie = death[d].cookie
                            /\ death'[d].type = "free" <=> death[d].type = "free"
    PROVE  /\ SameRequests
           /\ (\A d \in Death : Delivered(d)' <=> Delivered(d)) => SameTold
<1>1. SameRequests
  BY DEF SameRequests, Requests, Allocated
<1>2. ASSUME \A d \in Death : Delivered(d)' <=> Delivered(d)
      PROVE  SameTold
  BY <1>2 DEF SameTold, ToldTo
<1> QED BY <1>1, <1>2

LEMMA NodeReleaseEffect ==
    ASSUME DeathInv, Cookies, NEW h \in Handle, NodeRelease(h)
    PROVE  Cookies' /\ SameRequests /\ SameTold
<1> DEFINE d == ref_death[h]
<1>1. /\ dead' = [dead EXCEPT ![h] = TRUE]
      /\ UNCHANGED <<ref_death, delivered_death>>
  BY DEF NodeRelease
<1>2. \A k \in Handle : dead[k] => dead'[k]
  BY <1>1 DEF DeathInv, DeathTypeOK
<1>3. CASE death' = death
  <2>1. ASSUME NEW e \in Death, death[e].type \in {"DEAD_BINDER", "DEAD_BINDER_AND_CLEAR"}
        PROVE  dead'[HandleOf[death[e].cookie]]
    <3>1. death[e].cookie \in Proxy /\ dead[HandleOf[death[e].cookie]]
      BY <2>1 DEF Cookies
    <3> QED BY <3>1, <1>2, ProxyAssumption
  <2>2. Cookies'
    BY <1>1, <1>3, <2>1 DEF Cookies
  <2> QED BY <1>1, <1>3, <2>2 DEF SameRequests, SameTold, Requests, ToldTo, Allocated, Delivered
<1>4. CASE d # NULL /\ death' = [death EXCEPT ![d].type = "DEAD_BINDER"]
  <2>1. d \in Death /\ death[d].type # "free" /\ HandleOf[death[d].cookie] = h
    BY <1>4 DEF DeathInv, DeathTypeOK, Owned, Cookies
  <2> HIDE DEF d
  <2>2. /\ \A e \in Death : death'[e].cookie = death[e].cookie
        /\ \A e \in Death : e # d => death'[e] = death[e]
        /\ death'[d].type = "DEAD_BINDER"
        /\ death' \in [Death -> DeathRec]
    BY <1>4, <2>1 DEF DeathInv, DeathTypeOK, DeathRec, Types
  <2>3. SameRequests /\ SameTold
    BY <1>1, <2>1, <2>2, SameCookies DEF Delivered
  <2>4. ASSUME NEW e \in Death, death'[e].type \in {"DEAD_BINDER", "DEAD_BINDER_AND_CLEAR"}
        PROVE  dead'[HandleOf[death'[e].cookie]]
    <3>1. CASE e = d
      BY <1>1, <2>1, <2>2, <3>1 DEF DeathInv, DeathTypeOK
    <3>2. CASE e # d
      <4>1. death[e].cookie \in Proxy /\ dead[HandleOf[death[e].cookie]]
        BY <2>2, <2>4, <3>2 DEF Cookies
      <4> QED BY <4>1, <1>2, <2>2, ProxyAssumption
    <3> QED BY <3>1, <3>2
  <2>5. \A e \in Death : death'[e].type # "free" => death'[e].cookie \in Proxy
    BY <2>1, <2>2 DEF Cookies
  <2>6. \A k \in Handle : ref_death'[k] # NULL => HandleOf[death'[ref_death'[k]].cookie] = k
    BY <1>1, <2>2 DEF Cookies, DeathInv, DeathTypeOK
  <2>7. Cookies'
    BY <2>4, <2>5, <2>6 DEF Cookies
  <2> QED BY <2>3, <2>7
<1>5. death' = death \/ (d # NULL /\ death' = [death EXCEPT ![d].type = "DEAD_BINDER"])
  BY DEF NodeRelease
<1> QED BY <1>3, <1>4, <1>5

LEMMA RequestEffect ==
    ASSUME DeathInv, Cookies, NEW th \in Thread, NEW p \in Proxy, NEW d \in Death,
           RequestDeath(th, HandleOf[p], p, d)
    PROVE  /\ Cookies' /\ SameTold
           /\ d \notin Requests(p) /\ Requests(p)' = Requests(p) \cup {d}
           /\ \A q \in Proxy : q # p => Requests(q)' = Requests(q)
<1> DEFINE h == HandleOf[p]
           type == IF dead[h] THEN "DEAD_BINDER" ELSE "none"
<1>0. h \in Handle
  BY ProxyAssumption
<1>1. /\ ref_death[h] = NULL /\ death[d].type = "free"
      /\ ref_death' = [ref_death EXCEPT ![h] = d]
      /\ death' = [death EXCEPT ![d] = [Free EXCEPT !.type = type, !.cookie = p]]
      /\ UNCHANGED <<dead, delivered_death>>
  BY DEF RequestDeath
<1>2. /\ \A e \in Death : e # d => death'[e] = death[e]
      /\ death'[d].type = type /\ death'[d].cookie = p
  BY <1>1 DEF DeathInv, DeathTypeOK, Free
<1>3. type # "free" /\ (type \in {"DEAD_BINDER", "DEAD_BINDER_AND_CLEAR"} => dead[h])
  OBVIOUS
<1>4. ~Delivered(d) /\ \A k \in Handle : ref_death[k] # d
  <2>1. d # NULL
    BY DeathAssumption
  <2> QED BY <1>1, <2>1 DEF DeathInv, Owned
<1>5. /\ \A k \in Handle : k # h => ref_death'[k] = ref_death[k]
      /\ ref_death'[h] = d
  BY <1>0, <1>1 DEF DeathInv, DeathTypeOK
<1> HIDE DEF type
<1>6. /\ d \notin Requests(p) /\ Requests(p)' = Requests(p) \cup {d}
      /\ \A q \in Proxy : q # p => Requests(q)' = Requests(q)
  BY <1>1, <1>2, <1>3 DEF Requests, Allocated
<1>7. SameTold
  BY <1>1, <1>2, <1>4 DEF SameTold, ToldTo, Delivered
<1>8. Cookies'
  <2>1. \A e \in Death : death'[e].type # "free" => death'[e].cookie \in Proxy
    BY <1>2 DEF Cookies
  <2>2. \A e \in Death : death'[e].type \in {"DEAD_BINDER", "DEAD_BINDER_AND_CLEAR"} =>
           dead'[HandleOf[death'[e].cookie]]
    BY <1>1, <1>2, <1>3 DEF Cookies
  <2>3. ASSUME NEW k \in Handle, ref_death'[k] # NULL
        PROVE  HandleOf[death'[ref_death'[k]].cookie] = k
    <3>1. CASE k = h
      BY <1>2, <1>5, <3>1
    <3>2. CASE k # h
      BY <1>2, <1>4, <1>5, <2>3, <3>2 DEF Cookies, DeathInv, DeathTypeOK
    <3> QED BY <3>1, <3>2
  <2> QED BY <2>1, <2>2, <2>3 DEF Cookies
<1> QED BY <1>6, <1>7, <1>8

LEMMA ClearEffect ==
    ASSUME DeathInv, Cookies, NEW th \in Thread, NEW p \in Proxy,
           ClearDeath(th, HandleOf[p], p)
    PROVE  Cookies' /\ SameRequests /\ SameTold
<1> DEFINE h == HandleOf[p]
           d == ref_death[h]
           type == ClearedType(d)
<1>0. h \in Handle
  BY ProxyAssumption
<1>1. /\ d # NULL /\ d \in Death /\ death[d].type # "free" /\ death[d].cookie = p
      /\ ref_death' = [ref_death EXCEPT ![h] = NULL]
      /\ death' = [death EXCEPT ![d].type = type]
      /\ UNCHANGED <<dead, delivered_death>>
  BY <1>0 DEF ClearDeath, DeathInv, DeathTypeOK, Owned
<1>2. /\ type \in {"DEAD_BINDER_AND_CLEAR", "CLEAR_DEATH_NOTIFICATION"}
      /\ type = "DEAD_BINDER_AND_CLEAR" => dead[h]
  <2>1. OnList(d) <=> Waiting(d) \/ Delivered(d)
    BY DEF OnList, Waiting, Delivered
  <2> QED BY <1>0, <1>1, <2>1 DEF ClearedType, DeathInv, Told, ToldOf
<1> HIDE DEF type, d
<1>3. /\ \A e \in Death : death'[e].cookie = death[e].cookie
      /\ \A e \in Death : e # d => death'[e] = death[e]
      /\ death'[d].type = type
      /\ death' \in [Death -> DeathRec]
  BY <1>1, <1>2 DEF DeathInv, DeathTypeOK, DeathRec, Types
<1>4. SameRequests /\ SameTold
  BY <1>1, <1>2, <1>3, SameCookies DEF Delivered
<1>5. \A e \in Death : death'[e].type # "free" => death'[e].cookie \in Proxy
  BY <1>1, <1>3 DEF Cookies
<1>6. \A e \in Death : death'[e].type \in {"DEAD_BINDER", "DEAD_BINDER_AND_CLEAR"} =>
         dead'[HandleOf[death'[e].cookie]]
  BY <1>1, <1>2, <1>3 DEF Cookies
<1>7. \A k \in Handle : ref_death'[k] # NULL => ref_death'[k] = ref_death[k]
  BY <1>0, <1>1 DEF DeathInv, DeathTypeOK
<1>8. ASSUME NEW k \in Handle, ref_death'[k] # NULL
      PROVE  HandleOf[death'[ref_death'[k]].cookie] = k
  <2>1. ref_death'[k] = ref_death[k] /\ ref_death[k] # NULL /\ ref_death[k] \in Death
    BY <1>7, <1>8 DEF DeathInv, DeathTypeOK
  <2> QED BY <1>3, <2>1 DEF Cookies
<1> QED BY <1>4, <1>5, <1>6, <1>8 DEF Cookies

LEMMA DoneEffect ==
    ASSUME DeathInv, Cookies, NEW th \in Thread, NEW p \in Proxy, DeadBinderDone(th, p)
    PROVE  /\ Cookies' /\ SameRequests
           /\ \E d \in ToldTo(p) : ToldTo(p)' = ToldTo(p) \ {d}
           /\ \A q \in Proxy : q # p => ToldTo(q)' = ToldTo(q)
<1>1. PICK d \in DoneWith(p) :
         /\ delivered_death' = Without(delivered_death, d)
         /\ IF death[d].type = "DEAD_BINDER_AND_CLEAR"
            THEN death' = [death EXCEPT ![d].type = "CLEAR_DEATH_NOTIFICATION"]
            ELSE death' = death
  BY DEF DeadBinderDone
<1>2. UNCHANGED <<dead, ref_death>>
  BY DEF DeadBinderDone
<1>3. d \in Death /\ Delivered(d) /\ death[d].cookie = p
  <2>1. PICK i \in DOMAIN delivered_death : d = delivered_death[i] /\ death[d].cookie = p
    BY DEF DoneWith
  <2>2. delivered_death[i] \in Death
    BY DEF DeathInv, DeathTypeOK
  <2> QED BY <2>1, <2>2 DEF Delivered, Items
<1>4. \A e : Delivered(e)' <=> Delivered(e) /\ e # d
  <2>1. Items(delivered_death') = Items(delivered_death) \ {d}
    BY <1>1, ItemsWithout DEF DeathInv, DeathTypeOK, Once
  <2> QED BY <2>1 DEF Delivered
<1>5. death[d].type # "free"
  BY <1>3 DEF DeathInv, Owned
<1>6. /\ \A e \in Death : death'[e].cookie = death[e].cookie
      /\ \A e \in Death : death'[e].type = death[e].type \/
                          (e = d /\ death'[e].type = "CLEAR_DEATH_NOTIFICATION")
      /\ death' \in [Death -> DeathRec]
  <2>1. CASE death[d].type = "DEAD_BINDER_AND_CLEAR"
    <3>1. death' = [death EXCEPT ![d].type = "CLEAR_DEATH_NOTIFICATION"]
      BY <1>1, <2>1
    <3> QED BY <1>3, <3>1 DEF DeathInv, DeathTypeOK, DeathRec, Types
  <2>2. CASE death[d].type # "DEAD_BINDER_AND_CLEAR"
    BY <1>1, <2>2 DEF DeathInv, DeathTypeOK
  <2> QED BY <2>1, <2>2
<1>7. SameRequests
  BY <1>5, <1>6, SameCookies
<1>8. ToldTo(p)' = ToldTo(p) \ {d} /\ d \in ToldTo(p)
  BY <1>3, <1>4, <1>6 DEF ToldTo
<1>9. \A q \in Proxy : q # p => ToldTo(q)' = ToldTo(q)
  BY <1>3, <1>4, <1>6 DEF ToldTo
<1>10. Cookies'
  <2>1. \A e \in Death : death'[e].type # "free" => death'[e].cookie \in Proxy
    BY <1>5, <1>6 DEF Cookies
  <2>2. \A k \in Handle : ref_death'[k] # NULL => HandleOf[death'[ref_death'[k]].cookie] = k
    BY <1>2, <1>6 DEF Cookies, DeathInv, DeathTypeOK
  <2>3. \A e \in Death : death'[e].type \in {"DEAD_BINDER", "DEAD_BINDER_AND_CLEAR"} =>
           dead'[HandleOf[death'[e].cookie]]
    BY <1>2, <1>6 DEF Cookies
  <2> QED BY <2>1, <2>2, <2>3 DEF Cookies
<1> QED BY <1>7, <1>8, <1>9, <1>10

\* A read of d: the last of it, or the news of the death.
LEMMA DeliverEffect ==
    ASSUME DeathInv, Cookies, NEW STATE d, d \in Death, Waiting(d), Deliver(d),
           UNCHANGED <<dead, ref_death>>
    PROVE  /\ Cookies' /\ death[d].cookie \in Proxy
           /\ death[d].type = "CLEAR_DEATH_NOTIFICATION" =>
                 /\ SameTold
                 /\ \A q \in Proxy : IF q = death[d].cookie
                                     THEN d \in Requests(q) /\ Requests(q)' = Requests(q) \ {d}
                                     ELSE Requests(q)' = Requests(q)
           /\ death[d].type # "CLEAR_DEATH_NOTIFICATION" =>
                 /\ SameRequests
                 /\ \A q \in Proxy : IF q = death[d].cookie
                                     THEN d \notin ToldTo(q) /\ ToldTo(q)' = ToldTo(q) \cup {d}
                                     ELSE ToldTo(q)' = ToldTo(q)
<1>0. death[d].type # "free" /\ death[d].cookie \in Proxy /\ ~Delivered(d)
  BY DEF DeathInv, Owned, Cookies, Once, Waiting, Delivered
<1>1. \A e : Delivered(e)' <=>
          Delivered(e) \/ (e = d /\ death[d].type # "CLEAR_DEATH_NOTIFICATION")
  BY DeliverLists DEF DeathInv, Delivered
<1>2. CASE death[d].type = "CLEAR_DEATH_NOTIFICATION"
  <2>1. death' = [death EXCEPT ![d] = Free]
    BY <1>2 DEF Deliver
  <2>2. /\ \A e \in Death : e # d => death'[e] = death[e]
        /\ death'[d].type = "free"
    BY <2>1 DEF DeathInv, DeathTypeOK, Free
  <2>3. \A k \in Handle : ref_death[k] # d
    BY <1>2 DEF DeathInv, Owned, Cleared
  <2>4. Cookies'
    <3>1. \A e \in Death : death'[e].type # "free" => death'[e].cookie \in Proxy
      BY <2>2 DEF Cookies
    <3>2. \A k \in Handle : ref_death'[k] # NULL => HandleOf[death'[ref_death'[k]].cookie] = k
      BY <2>2, <2>3 DEF Cookies, DeathInv, DeathTypeOK
    <3>3. \A e \in Death : death'[e].type \in {"DEAD_BINDER", "DEAD_BINDER_AND_CLEAR"} =>
             dead'[HandleOf[death'[e].cookie]]
      BY <2>2 DEF Cookies
    <3> QED BY <3>1, <3>2, <3>3 DEF Cookies
  <2>5. SameTold
    BY <1>0, <1>1, <1>2, <2>2 DEF SameTold, ToldTo
  <2>6. \A q \in Proxy : IF q = death[d].cookie
                         THEN d \in Requests(q) /\ Requests(q)' = Requests(q) \ {d}
                         ELSE Requests(q)' = Requests(q)
    BY <1>0, <2>2 DEF Requests, Allocated
  <2> QED BY <1>0, <1>2, <2>4, <2>5, <2>6
<1>3. CASE death[d].type # "CLEAR_DEATH_NOTIFICATION"
  <2>1. death' = [death EXCEPT ![d].told = TRUE]
    BY <1>3 DEF Deliver
  <2>2. /\ \A e \in Death : death'[e].cookie = death[e].cookie /\ death'[e].type = death[e].type
        /\ death' \in [Death -> DeathRec]
    BY <2>1 DEF DeathInv, DeathTypeOK, DeathRec
  <2>3. SameRequests
    BY <2>2, SameCookies
  <2>4. \A q \in Proxy : IF q = death[d].cookie
                         THEN d \notin ToldTo(q) /\ ToldTo(q)' = ToldTo(q) \cup {d}
                         ELSE ToldTo(q)' = ToldTo(q)
    BY <1>0, <1>1, <1>3, <2>2 DEF ToldTo
  <2>5. Cookies'
    <3>1. \A e \in Death : death'[e].type # "free" => death'[e].cookie \in Proxy
      BY <2>2 DEF Cookies
    <3>2. \A k \in Handle : ref_death'[k] # NULL => HandleOf[death'[ref_death'[k]].cookie] = k
      BY <2>2 DEF Cookies, DeathInv, DeathTypeOK
    <3>3. \A e \in Death : death'[e].type \in {"DEAD_BINDER", "DEAD_BINDER_AND_CLEAR"} =>
             dead'[HandleOf[death'[e].cookie]]
      BY <2>2 DEF Cookies
    <3> QED BY <3>1, <3>2, <3>3 DEF Cookies
  <2> QED BY <1>0, <1>3, <2>3, <2>4, <2>5
<1> QED BY <1>2, <1>3

-----------------------------------------------------------------------------
(* The counts *)

\* Nobody reads, writes or executes a command, and no request is made.
LEMMA CountsSame ==
    ASSUME Counted, SameRequests, SameTold,
           UNCHANGED <<weak, mIn, mOut>>,
           \A p \in Proxy \ exists' : weak[p] = 0
    PROVE  Counted'
<1>1. \A p \in Proxy : Confirmed(p)' = Confirmed(p) /\ Reporting(p)' = Reporting(p)
  BY DEF Confirmed, Reporting
<1> QED BY <1>1 DEF Counted, SameRequests, SameTold

\* A proxy that holds nothing back is named by nothing.
LEMMA NoRequests ==
    ASSUME UserTypeOK, Counted, NEW p \in Proxy, weak[p] = 0
    PROVE  Requests(p) = {} /\ Confirmed(p) = {}
<1>1. /\ IsFiniteSet(Requests(p)) /\ IsFiniteSet(Confirmed(p))
      /\ Cardinality(Requests(p)) + Cardinality(Confirmed(p)) = 0
  BY DEF Counted
<1>2. Cardinality(Requests(p)) \in Nat /\ Cardinality(Confirmed(p)) \in Nat
  BY <1>1, FS_CardinalityType
<1>3. Cardinality(Requests(p)) = 0 /\ Cardinality(Confirmed(p)) = 0
  BY <1>1, <1>2
<1> QED BY <1>1, <1>3, FS_EmptySet

\* The thread that reports a death has a notification in the driver, and the node is dead.
LEMMA ReportingDead ==
    ASSUME DeathInv, Cookies, UserTypeOK, Counted, NEW p \in Proxy, NEW th \in Reporting(p)
    PROVE  p \in exists /\ dead[HandleOf[p]]
<1>1. /\ IsFiniteSet(Reporting(p)) /\ IsFiniteSet(ToldTo(p))
      /\ Cardinality(ToldTo(p)) = Cardinality(Reporting(p))
  BY DEF Counted
<1>2. ToldTo(p) # {}
  BY <1>1, FS_EmptySet
<1>3. PICK d \in Death : Delivered(d) /\ death[d].cookie = p
  BY <1>2 DEF ToldTo
<1>4. death[d].type # "free" /\ death[d].type # "CLEAR_DEATH_NOTIFICATION"
  BY <1>3 DEF DeathInv, Owned, Told
<1>5. death[d].type # "none"
  <2> SUFFICES ASSUME death[d].type = "none" PROVE FALSE
    OBVIOUS
  <2>1. ~Cleared(d)
    BY DEF Cleared
  <2>2. PICK h \in Handle : ref_death[h] = d
    BY <1>4, <2>1 DEF DeathInv, Owned
  <2>3. d # NULL
    BY DeathAssumption
  <2> QED BY <1>3, <2>2, <2>3 DEF DeathInv, Told, ToldOf
<1>6. death[d].type \in {"DEAD_BINDER", "DEAD_BINDER_AND_CLEAR"}
  BY <1>4, <1>5 DEF DeathInv, DeathTypeOK, DeathRec, Types
<1>7. dead[HandleOf[p]]
  BY <1>3, <1>6 DEF Cookies
<1>8. d \in Requests(p)
  BY <1>3, <1>4 DEF Requests, Allocated
<1>9. weak[p] # 0
  BY <1>8, NoRequests
<1> QED BY <1>7, <1>9 DEF Counted

LEMMA CountsRequest ==
    ASSUME Counted, UserTypeOK, SameTold, NEW p \in Proxy, p \in exists, NEW d,
           d \notin Requests(p), Requests(p)' = Requests(p) \cup {d},
           \A q \in Proxy : q # p => Requests(q)' = Requests(q),
           weak' = [weak EXCEPT ![p] = @ + 1],
           UNCHANGED <<exists, mIn, mOut>>
    PROVE  Counted'
<1>1. \A q \in Proxy : Confirmed(q)' = Confirmed(q) /\ Reporting(q)' = Reporting(q)
  BY DEF Confirmed, Reporting
<1>2. IsFiniteSet(Requests(p)) /\ IsFiniteSet(Confirmed(p))
  BY DEF Counted
<1>3. IsFiniteSet(Requests(p)') /\ Cardinality(Requests(p)') = Cardinality(Requests(p)) + 1
  BY <1>2, FS_AddElement
<1>4. Cardinality(Requests(p)) \in Nat /\ Cardinality(Confirmed(p)) \in Nat
  BY <1>2, FS_CardinalityType
<1>5. weak'[p] = weak[p] + 1 /\ \A q \in Proxy : q # p => weak'[q] = weak[q]
  BY DEF UserTypeOK
<1>6. weak'[p] = Cardinality(Requests(p)') + Cardinality(Confirmed(p)')
  BY <1>1, <1>3, <1>4, <1>5 DEF Counted
<1> QED BY <1>1, <1>3, <1>5, <1>6 DEF Counted, SameTold

\* executeCommand(BR_CLEAR_DEATH_NOTIFICATION_DONE)
LEMMA CountsConfirmed ==
    ASSUME Counted, UserTypeOK, SameTold, SameRequests, NEW p \in Proxy, NEW th,
           th \in Confirmed(p), Confirmed(p)' = Confirmed(p) \ {th},
           \A q \in Proxy : q # p => Confirmed(q)' = Confirmed(q),
           \A q \in Proxy : Reporting(q)' = Reporting(q),
           weak' = [weak EXCEPT ![p] = @ - 1],
           UNCHANGED exists
    PROVE  Counted' /\ weak' \in [Proxy -> Nat]
<1>2. IsFiniteSet(Requests(p)) /\ IsFiniteSet(Confirmed(p))
  BY DEF Counted
<1>3. IsFiniteSet(Confirmed(p)') /\ Cardinality(Confirmed(p)') = Cardinality(Confirmed(p)) - 1
  BY <1>2, FS_RemoveElement
<1>4. Cardinality(Requests(p)) \in Nat /\ Cardinality(Confirmed(p)) \in Nat /\ Cardinality(Confirmed(p)') \in Nat
  BY <1>2, <1>3, FS_CardinalityType
<1>5. weak'[p] = weak[p] - 1 /\ \A q \in Proxy : q # p => weak'[q] = weak[q]
  BY DEF UserTypeOK
<1>6. weak'[p] = Cardinality(Requests(p)') + Cardinality(Confirmed(p)')
  BY <1>3, <1>4, <1>5 DEF Counted, SameRequests
<1>7. weak'[p] \in Nat /\ weak[p] # 0
  BY <1>3, <1>4, <1>5 DEF Counted
<1>8. weak' \in [Proxy -> Nat]
  BY <1>5, <1>7 DEF UserTypeOK
<1>9. p \in exists
  BY <1>7 DEF Counted
<1> QED BY <1>3, <1>5, <1>6, <1>8, <1>9 DEF Counted, SameTold, SameRequests

\* A thread has read BR_CLEAR_DEATH_NOTIFICATION_DONE.
LEMMA CountsReadClear ==
    ASSUME Counted, UserTypeOK, SameTold, NEW p \in Proxy, NEW th, NEW d,
           d \in Requests(p), Requests(p)' = Requests(p) \ {d},
           \A q \in Proxy : q # p => Requests(q)' = Requests(q),
           th \notin Confirmed(p), Confirmed(p)' = Confirmed(p) \cup {th},
           \A q \in Proxy : q # p => Confirmed(q)' = Confirmed(q),
           \A q \in Proxy : Reporting(q)' = Reporting(q),
           UNCHANGED <<exists, weak>>
    PROVE  Counted'
<1>2. IsFiniteSet(Requests(p)) /\ IsFiniteSet(Confirmed(p))
  BY DEF Counted
<1>3. /\ IsFiniteSet(Confirmed(p)') /\ Cardinality(Confirmed(p)') = Cardinality(Confirmed(p)) + 1
      /\ IsFiniteSet(Requests(p)') /\ Cardinality(Requests(p)') = Cardinality(Requests(p)) - 1
  BY <1>2, FS_RemoveElement, FS_AddElement
<1>4. Cardinality(Requests(p)) \in Nat /\ Cardinality(Confirmed(p)) \in Nat
  BY <1>2, FS_CardinalityType
<1>6. weak'[p] = Cardinality(Requests(p)') + Cardinality(Confirmed(p)')
  BY <1>3, <1>4 DEF Counted
<1> QED BY <1>3, <1>6 DEF Counted, SameTold

\* A thread has read BR_DEAD_BINDER.
LEMMA CountsReadDead ==
    ASSUME Counted, SameRequests, NEW p \in Proxy, NEW th, NEW d,
           d \notin ToldTo(p), ToldTo(p)' = ToldTo(p) \cup {d},
           \A q \in Proxy : q # p => ToldTo(q)' = ToldTo(q),
           th \notin Reporting(p), Reporting(p)' = Reporting(p) \cup {th},
           \A q \in Proxy : q # p => Reporting(q)' = Reporting(q),
           \A q \in Proxy : Confirmed(q)' = Confirmed(q),
           UNCHANGED <<exists, weak>>
    PROVE  Counted'
<1>2. IsFiniteSet(ToldTo(p)) /\ IsFiniteSet(Reporting(p))
  BY DEF Counted
<1>3. /\ IsFiniteSet(ToldTo(p)') /\ Cardinality(ToldTo(p)') = Cardinality(ToldTo(p)) + 1
      /\ IsFiniteSet(Reporting(p)') /\ Cardinality(Reporting(p)') = Cardinality(Reporting(p)) + 1
  BY <1>2, FS_AddElement
<1> QED BY <1>3 DEF Counted, SameRequests

\* BC_DEAD_BINDER_DONE is written.
LEMMA CountsDone ==
    ASSUME Counted, SameRequests, NEW p \in Proxy, NEW th, NEW d,
           d \in ToldTo(p), ToldTo(p)' = ToldTo(p) \ {d},
           \A q \in Proxy : q # p => ToldTo(q)' = ToldTo(q),
           th \in Reporting(p), Reporting(p)' = Reporting(p) \ {th},
           \A q \in Proxy : q # p => Reporting(q)' = Reporting(q),
           \A q \in Proxy : Confirmed(q)' = Confirmed(q),
           UNCHANGED <<exists, weak>>
    PROVE  Counted'
<1>2. IsFiniteSet(ToldTo(p)) /\ IsFiniteSet(Reporting(p))
  BY DEF Counted
<1>3. /\ IsFiniteSet(ToldTo(p)') /\ Cardinality(ToldTo(p)') = Cardinality(ToldTo(p)) - 1
      /\ IsFiniteSet(Reporting(p)') /\ Cardinality(Reporting(p)') = Cardinality(Reporting(p)) - 1
  BY <1>2, FS_RemoveElement
<1> QED BY <1>3 DEF Counted, SameRequests

-----------------------------------------------------------------------------
(* The steps *)

LEMMA ProxyKeeps ==
    ASSUME UserInv, NEW p \in Proxy,
           NewProxy(p) \/ HoldProxy(p) \/ DropProxy(p) \/ DeleteProxy(p)
    PROVE  UserInv'
<1> USE DEF UserInv
<1>0. HandleOf[p] \in Handle
  BY ProxyAssumption
<1>1. CASE NewProxy(p)
  <2>1. Requests(p) = {}
    BY <1>1, NoRequests DEF NewProxy, Counted
  <2>2. DeathInv' /\ Cookies' /\ SameRequests /\ SameTold
    BY <1>0, <1>1, <2>1, GetRefKeeps, GetRefEffect DEF NewProxy
  <2>3. Counted'
    BY <1>1, <2>2, CountsSame DEF NewProxy, Counted
  <2>4. UserTypeOK' /\ Stage'
    BY <1>1 DEF NewProxy, UserTypeOK, Stage
  <2>5. OneList'
    <3>1. \A q \in Proxy : mObituaries'[q] # NULL => mObituaries'[q] = mObituaries[q]
      BY <1>1 DEF NewProxy, UserTypeOK
    <3>2. UNCHANGED <<obituary, taken, link>>
      BY <1>1 DEF NewProxy
    <3> QED BY <3>1, <3>2 DEF OneList
  <2> QED BY <2>2, <2>3, <2>4, <2>5
<1>2. CASE HoldProxy(p) \/ DropProxy(p)
  <2>1. UNCHANGED <<deathVars, exists, weak, mObitsSent, mObituaries, mIn, mOut, obituary, taken, link>>
    BY <1>2 DEF HoldProxy, DropProxy
  <2>2. DeathInv' /\ Cookies' /\ SameRequests /\ SameTold
    BY <2>1, SameDeath, DeathNextInv
  <2>3. Counted'
    BY <2>1, <2>2, CountsSame DEF Counted
  <2>4. UserTypeOK' /\ Stage' /\ OneList'
    BY <1>2, <2>1 DEF HoldProxy, DropProxy, UserTypeOK, Stage, OneList
  <2> QED BY <2>2, <2>3, <2>4
<1>3. CASE DeleteProxy(p)
  <2>1. Requests(p) = {}
    BY <1>3, NoRequests DEF DeleteProxy
  <2>2. DeathInv' /\ Cookies' /\ SameRequests /\ SameTold
    BY <1>0, <1>3, <2>1, DeleteRefKeeps, DeleteRefEffect DEF DeleteProxy
  <2>3. Counted'
    BY <1>3, <2>2, CountsSame DEF DeleteProxy, Counted
  <2>4. UserTypeOK' /\ Stage' /\ OneList'
    BY <1>3 DEF DeleteProxy, UserTypeOK, Stage, OneList
  <2> QED BY <2>2, <2>3, <2>4
<1> QED BY <1>1, <1>2, <1>3

LEMMA NodeDiesKeeps ==
    ASSUME UserInv, NEW h \in Handle, NodeDies(h)
    PROVE  UserInv'
<1> USE DEF UserInv
<1>1. DeathInv' /\ Cookies' /\ SameRequests /\ SameTold
  BY NodeReleaseKeeps, NodeReleaseEffect DEF NodeDies
<1>2. UNCHANGED userVars
  BY DEF NodeDies
<1>3. Counted'
  BY <1>1, <1>2, CountsSame DEF Counted, userVars
<1>4. UserTypeOK' /\ Stage' /\ OneList'
  BY <1>2 DEF userVars, UserTypeOK, Stage, OneList
<1> QED BY <1>1, <1>3, <1>4

\* A recipient that is not linked joins the list of its proxy.
LEMMA JoinsList ==
    ASSUME UserTypeOK, OneList, NEW p \in Proxy, NEW r \in Recipient,
           ProxyOf[r] = p, link[r] # "linked",
           \A x \in mObituaries'[p] : x = r \/ (mObituaries[p] # NULL /\ x \in mObituaries[p]),
           \A q \in Proxy : q # p => mObituaries'[q] = mObituaries[q],
           link' = [link EXCEPT ![r] = "linked"],
           UNCHANGED <<obituary, taken>>
    PROVE  OneList'
<1>1. link'[r] = "linked" /\ \A x \in Recipient : x # r => link'[x] = link[x]
  BY DEF UserTypeOK
<1>2. ASSUME NEW q \in Proxy, mObituaries'[q] # NULL, NEW x \in mObituaries'[q]
      PROVE  link'[x] = "linked" /\ ProxyOf[x] = q
  <2>1. CASE q = p /\ x = r
    BY <1>1, <2>1
  <2>2. CASE q # p \/ x # r
    <3>1. mObituaries[q] # NULL /\ x \in mObituaries[q]
      BY <1>2, <2>2
    <3>2. x \in Recipient /\ link[x] = "linked" /\ ProxyOf[x] = q
      BY <3>1 DEF OneList, UserTypeOK
    <3> QED BY <1>1, <3>2
  <2> QED BY <2>1, <2>2
<1>3. ASSUME NEW th \in Thread, taken[th] # NULL, NEW x \in taken[th]
      PROVE  /\ link'[x] = "linked" /\ ProxyOf[x] = obituary[th]
             /\ \A q \in Proxy : mObituaries'[q] # NULL => x \notin mObituaries'[q]
             /\ \A u \in Thread \ {th} : taken[u] # NULL => x \notin taken[u]
  <2>1. x \in Recipient /\ link[x] = "linked" /\ ProxyOf[x] = obituary[th]
    BY <1>3 DEF OneList, UserTypeOK
  <2>2. \A u \in Thread \ {th} : taken[u] # NULL => x \notin taken[u]
    BY <1>3 DEF OneList
  <2>3. x # r
    BY <2>1
  <2>4. ASSUME NEW q \in Proxy, mObituaries'[q] # NULL, x \in mObituaries'[q]
        PROVE  FALSE
    <3>1. mObituaries[q] # NULL /\ x \in mObituaries[q]
      BY <2>3, <2>4
    <3> QED BY <1>3, <3>1 DEF OneList
  <2> QED BY <1>1, <2>1, <2>2, <2>3, <2>4
<1> QED BY <1>2, <1>3 DEF OneList

LEMMA LinkKeeps ==
    ASSUME UserInv, NEW th \in Thread, NEW p \in Proxy, NEW r \in Recipient,
           LinkNext(th, p, r) \/ \E d \in Death : LinkFirst(th, p, r, d)
    PROVE  UserInv'
<1> USE DEF UserInv
<1>0. HandleOf[p] \in Handle /\ p \in Cookie
  BY ProxyAssumption DEF Proxy
<1>1. CASE LinkNext(th, p, r)
  <2>1. /\ ProxyOf[r] = p /\ link[r] # "linked" /\ mObituaries[p] # NULL
        /\ mObituaries' = [mObituaries EXCEPT ![p] = @ \cup {r}]
        /\ link' = [link EXCEPT ![r] = "linked"]
        /\ UNCHANGED <<deathVars, exists, held, weak, mObitsSent, mIn, mOut, obituary, taken>>
    BY <1>1 DEF LinkNext
  <2>2. DeathInv' /\ Cookies' /\ SameRequests /\ SameTold
    BY <2>1, SameDeath, DeathNextInv
  <2>3. Counted'
    BY <2>1, <2>2, CountsSame DEF Counted
  <2>4. /\ mObituaries'[p] = mObituaries[p] \cup {r}
        /\ \A q \in Proxy : q # p => mObituaries'[q] = mObituaries[q]
        /\ mObituaries' \in [Proxy -> (SUBSET Recipient) \cup {NULL}]
    BY <2>1 DEF UserTypeOK
  <2>5. OneList'
    BY <2>1, <2>4, JoinsList
  <2>6. UserTypeOK' /\ Stage'
    BY <2>1, <2>4 DEF UserTypeOK, Stage, Links
  <2> QED BY <2>2, <2>3, <2>5, <2>6
<1>2. ASSUME NEW d \in Death, LinkFirst(th, p, r, d)
      PROVE  UserInv'
  <2>1. /\ ProxyOf[r] = p /\ link[r] # "linked" /\ p \in held
        /\ RequestDeath(th, HandleOf[p], p, d)
        /\ weak' = [weak EXCEPT ![p] = @ + 1]
        /\ mObituaries' = [mObituaries EXCEPT ![p] = {r}]
        /\ link' = [link EXCEPT ![r] = "linked"]
        /\ UNCHANGED <<exists, held, mObitsSent, mIn, mOut, obituary, taken>>
    BY <1>2 DEF LinkFirst
  <2>2. DeathInv'
    BY <1>0, <2>1, RequestDeathKeeps
  <2>3. /\ Cookies' /\ SameTold
        /\ d \notin Requests(p) /\ Requests(p)' = Requests(p) \cup {d}
        /\ \A q \in Proxy : q # p => Requests(q)' = Requests(q)
    BY <2>1, RequestEffect
  <2>4. Counted'
    BY <2>1, <2>3, CountsRequest DEF UserTypeOK
  <2>5. /\ mObituaries'[p] = {r}
        /\ \A q \in Proxy : q # p => mObituaries'[q] = mObituaries[q]
        /\ mObituaries' \in [Proxy -> (SUBSET Recipient) \cup {NULL}]
    BY <2>1 DEF UserTypeOK
  <2>6. OneList'
    BY <2>1, <2>5, JoinsList
  <2>7. weak' \in [Proxy -> Nat] /\ link' \in [Recipient -> Links]
    BY <2>1 DEF UserTypeOK, Links
  <2>8. UserTypeOK' /\ Stage'
    BY <2>1, <2>5, <2>7 DEF UserTypeOK, Stage
  <2> QED BY <2>2, <2>3, <2>4, <2>6, <2>8
<1> QED BY <1>1, <1>2

LEMMA UnlinkKeeps ==
    ASSUME UserInv, NEW th \in Thread, NEW p \in Proxy, NEW r \in Recipient, Unlink(th, p, r)
    PROVE  UserInv'
<1> USE DEF UserInv
<1>0. HandleOf[p] \in Handle /\ p \in Cookie
  BY ProxyAssumption DEF Proxy
<1>1. /\ mObituaries[p] # NULL /\ r \in mObituaries[p]
      /\ link' = [link EXCEPT ![r] = "unlinked"]
      /\ UNCHANGED <<exists, held, weak, mObitsSent, mIn, mOut, obituary, taken>>
  BY DEF Unlink
<1>2. DeathInv' /\ Cookies' /\ SameRequests /\ SameTold
  <2>1. CASE mObituaries[p] = {r}
    <3>1. ClearDeath(th, HandleOf[p], p)
      BY <2>1 DEF Unlink
    <3> QED BY <1>0, <3>1, ClearDeathKeeps, ClearEffect
  <2>2. CASE mObituaries[p] # {r}
    <3>1. UNCHANGED deathVars
      BY <2>2 DEF Unlink
    <3> QED BY <3>1, SameDeath, DeathNextInv
  <2> QED BY <2>1, <2>2
<1>3. Counted'
  BY <1>1, <1>2, CountsSame DEF Counted
<1>4. /\ mObituaries'[p] # NULL => mObituaries'[p] = mObituaries[p] \ {r}
      /\ \A q \in Proxy : q # p => mObituaries'[q] = mObituaries[q]
      /\ mObituaries' \in [Proxy -> (SUBSET Recipient) \cup {NULL}]
  BY DEF Unlink, UserTypeOK
<1>5. UserTypeOK' /\ Stage'
  BY <1>1, <1>4 DEF UserTypeOK, Stage, Links
<1>6. link'[r] = "unlinked" /\ \A x \in Recipient : x # r => link'[x] = link[x]
  BY <1>1 DEF UserTypeOK
<1>7. ASSUME NEW q \in Proxy, mObituaries'[q] # NULL, NEW x \in mObituaries'[q]
      PROVE  link'[x] = "linked" /\ ProxyOf[x] = q
  <2>1. mObituaries[q] # NULL /\ x \in mObituaries[q] /\ (q = p => x # r)
    BY <1>1, <1>4, <1>7
  <2>2. x \in Recipient /\ link[x] = "linked" /\ ProxyOf[x] = q /\ ProxyOf[r] = p
    BY <1>1, <2>1 DEF OneList, UserTypeOK
  <2> QED BY <1>6, <2>1, <2>2
<1>8. ASSUME NEW u \in Thread, taken[u] # NULL, NEW x \in taken[u]
      PROVE  /\ link'[x] = "linked" /\ ProxyOf[x] = obituary[u]
             /\ \A q \in Proxy : mObituaries'[q] # NULL => x \notin mObituaries'[q]
             /\ \A v \in Thread \ {u} : taken[v] # NULL => x \notin taken[v]
  <2>1. /\ x \in Recipient /\ link[x] = "linked" /\ ProxyOf[x] = obituary[u]
        /\ \A q \in Proxy : mObituaries[q] # NULL => x \notin mObituaries[q]
        /\ \A v \in Thread \ {u} : taken[v] # NULL => x \notin taken[v]
    BY <1>8 DEF OneList, UserTypeOK
  <2>2. x # r
    BY <1>1, <2>1
  <2> QED BY <1>1, <1>4, <1>6, <2>1, <2>2
<1>9. OneList'
  BY <1>1, <1>7, <1>8 DEF OneList
<1> QED BY <1>2, <1>3, <1>5, <1>9

LEMMA ReadCommandKeeps ==
    ASSUME UserInv, NEW th \in Thread, ReadCommand(th)
    PROVE  UserInv'
<1> USE DEF UserInv
<1>1. PICK d : /\ d \in Death /\ Waiting(d) /\ Deliver(d)
               /\ mIn' = [mIn EXCEPT ![th] = <<CommandFor(d)>>]
               /\ UNCHANGED <<dead, ref_death>>
  <2>1. CASE ReadThreadWork(th) /\ mIn' = [mIn EXCEPT ![th] = <<CommandFor(Head(todo[th]))>>]
    <3>1. Head(todo[th]) \in Death /\ Waiting(Head(todo[th]))
      BY <2>1, ReadThreadLists DEF DeathInv
    <3>2. Deliver(Head(todo[th])) /\ UNCHANGED <<dead, ref_death>>
      BY <2>1 DEF ReadThreadWork
    <3> QED BY <2>1, <3>1, <3>2
  <2>2. CASE ReadProcWork(th) /\ mIn' = [mIn EXCEPT ![th] = <<CommandFor(Head(proc_todo))>>]
    <3>1. Head(proc_todo) \in Death /\ Waiting(Head(proc_todo))
      BY <2>2, ReadProcLists DEF DeathInv
    <3>2. Deliver(Head(proc_todo)) /\ UNCHANGED <<dead, ref_death>>
      BY <2>2 DEF ReadProcWork
    <3> QED BY <2>2, <3>1, <3>2
  <2> QED BY <2>1, <2>2 DEF ReadCommand
<1>2. /\ mIn[th] = <<>> /\ mOut[th] = <<>>
      /\ UNCHANGED <<exists, held, weak, mObitsSent, mObituaries, mOut, obituary, taken, link>>
  BY DEF ReadCommand, Idle
<1>3. DeathInv'
  BY ReadKeeps DEF ReadCommand
<1>4. /\ Cookies' /\ death[d].cookie \in Proxy
      /\ death[d].type = "CLEAR_DEATH_NOTIFICATION" =>
            /\ SameTold
            /\ \A q \in Proxy : IF q = death[d].cookie
                                THEN d \in Requests(q) /\ Requests(q)' = Requests(q) \ {d}
                                ELSE Requests(q)' = Requests(q)
      /\ death[d].type # "CLEAR_DEATH_NOTIFICATION" =>
            /\ SameRequests
            /\ \A q \in Proxy : IF q = death[d].cookie
                                THEN d \notin ToldTo(q) /\ ToldTo(q)' = ToldTo(q) \cup {d}
                                ELSE ToldTo(q)' = ToldTo(q)
  BY <1>1, DeliverEffect
<1>5. PICK p \in Proxy : p = death[d].cookie
  BY <1>4
<1>6. PICK c \in {"DEAD", "CLEAR_DONE"} :
         c = IF death[d].type = "CLEAR_DEATH_NOTIFICATION" THEN "CLEAR_DONE" ELSE "DEAD"
  OBVIOUS
<1>7. /\ mIn'[th] = <<<<c, p>>>>
      /\ \A u \in Thread : u # th => mIn'[u] = mIn[u]
      /\ mIn' \in [Thread -> {<<>>} \cup {<<e>> : e \in Commands}]
  <2>1. CommandFor(d) = <<c, p>>
    BY <1>5, <1>6 DEF CommandFor
  <2>2. <<c, p>> \in Commands
    BY DEF Commands
  <2> QED BY <1>1, <2>1, <2>2 DEF UserTypeOK
<1>8. UserTypeOK'
  BY <1>2, <1>7 DEF UserTypeOK
<1>9. obituary[th] = NULL
  BY <1>2 DEF Stage
<1>10. Stage'
  BY <1>2, <1>7, <1>9 DEF Stage
<1>11. OneList'
  BY <1>2 DEF OneList
<1>12. <<<<c, p>>>> # <<>> /\ Head(<<<<c, p>>>>) = <<c, p>>
  OBVIOUS
<1>13. \A q \in Proxy : th \notin Confirmed(q) /\ th \notin Reporting(q)
  BY <1>2 DEF Confirmed, Reporting
<1>14. \A q \in Proxy : Confirmed(q)' = IF c = "CLEAR_DONE" /\ q = p THEN Confirmed(q) \cup {th}
                                        ELSE Confirmed(q)
  BY <1>2, <1>7, <1>12 DEF Confirmed
<1>15. \A q \in Proxy : Reporting(q)' = IF c = "DEAD" /\ q = p THEN Reporting(q) \cup {th}
                                        ELSE Reporting(q)
  BY <1>2, <1>7 DEF Reporting
<1>16. Counted'
  <2>1. CASE death[d].type = "CLEAR_DEATH_NOTIFICATION"
    <3>1. c = "CLEAR_DONE"
      BY <1>6, <2>1
    <3>2. /\ SameTold /\ d \in Requests(p) /\ Requests(p)' = Requests(p) \ {d}
          /\ \A q \in Proxy : q # p => Requests(q)' = Requests(q)
      BY <1>4, <1>5, <2>1
    <3> QED BY <1>2, <1>13, <1>14, <1>15, <3>1, <3>2, CountsReadClear
  <2>2. CASE death[d].type # "CLEAR_DEATH_NOTIFICATION"
    <3>1. c = "DEAD"
      BY <1>6, <2>2
    <3>2. /\ SameRequests /\ d \notin ToldTo(p) /\ ToldTo(p)' = ToldTo(p) \cup {d}
          /\ \A q \in Proxy : q # p => ToldTo(q)' = ToldTo(q)
      BY <1>4, <1>5, <2>2
    <3> QED BY <1>2, <1>13, <1>14, <1>15, <3>1, <3>2, CountsReadDead
  <2> QED BY <2>1, <2>2
<1> QED BY <1>3, <1>4, <1>8, <1>10, <1>11, <1>16

LEMMA WriteDoneKeeps ==
    ASSUME UserInv, NEW th \in Thread, WriteDone(th)
    PROVE  UserInv'
<1> USE DEF UserInv
<1>1. /\ mOut[th] # <<>>
      /\ DeadBinderDone(th, Head(mOut[th]))
      /\ mOut' = [mOut EXCEPT ![th] = Tail(@)]
      /\ UNCHANGED <<exists, held, weak, mObitsSent, mObituaries, mIn, obituary, taken, link>>
  BY DEF WriteDone
<1>2. PICK p \in Proxy : mOut[th] = <<p>>
  BY <1>1 DEF UserTypeOK
<1>3. Head(mOut[th]) = p /\ Tail(mOut[th]) = <<>> /\ <<p>> # <<>>
  BY <1>2
<1>4. mIn[th] = <<>> /\ p \in Cookie
  BY <1>1 DEF Stage, Proxy
<1>5. DeadBinderDone(th, p)
  BY <1>1, <1>3
<1>6. DeathInv'
  BY <1>4, <1>5, DeadBinderDoneKeeps
<1>7. /\ Cookies' /\ SameRequests
      /\ \E d \in ToldTo(p) : ToldTo(p)' = ToldTo(p) \ {d}
      /\ \A q \in Proxy : q # p => ToldTo(q)' = ToldTo(q)
  BY <1>5, DoneEffect
<1>8. mOut'[th] = <<>> /\ \A u \in Thread : u # th => mOut'[u] = mOut[u]
  BY <1>1, <1>3 DEF UserTypeOK
<1>9. UserTypeOK'
  BY <1>1, <1>3 DEF UserTypeOK
<1>10. Stage' /\ OneList'
  BY <1>1, <1>8 DEF Stage, OneList
<1>11. \A q \in Proxy : Confirmed(q)' = Confirmed(q)
  BY <1>1 DEF Confirmed
<1>12. th \in Reporting(p) /\ Reporting(p)' = Reporting(p) \ {th}
  BY <1>1, <1>2, <1>4, <1>8 DEF Reporting
<1>13. ASSUME NEW q \in Proxy, q # p
       PROVE  Reporting(q)' = Reporting(q)
  <2>1. <<p>> # <<q>>
    BY <1>13
  <2> QED BY <1>1, <1>2, <1>4, <1>8, <2>1 DEF Reporting
<1>14. Counted'
  BY <1>1, <1>7, <1>11, <1>12, <1>13, CountsDone
<1> QED BY <1>6, <1>7, <1>9, <1>10, <1>14

LEMMA ExecuteClearDoneKeeps ==
    ASSUME UserInv, NEW th \in Thread, ExecuteClearDone(th)
    PROVE  UserInv'
<1> USE DEF UserInv
<1>1. /\ mIn[th] # <<>> /\ Head(mIn[th])[1] = "CLEAR_DONE"
      /\ weak' = [weak EXCEPT ![Head(mIn[th])[2]] = @ - 1]
      /\ mIn' = [mIn EXCEPT ![th] = <<>>]
      /\ UNCHANGED <<deathVars, exists, held, mObitsSent, mObituaries, mOut, obituary, taken, link>>
  BY DEF ExecuteClearDone
<1>2. PICK p \in Proxy : mIn[th] = <<<<"CLEAR_DONE", p>>>>
  <2>1. PICK c \in Commands : mIn[th] = <<c>>
    BY <1>1 DEF UserTypeOK
  <2>2. Head(mIn[th]) = c
    BY <2>1
  <2> QED BY <1>1, <2>1, <2>2 DEF Commands
<1>3. Head(mIn[th]) = <<"CLEAR_DONE", p>> /\ Head(mIn[th])[2] = p
  BY <1>2
<1>4. DeathInv' /\ Cookies' /\ SameRequests /\ SameTold
  BY <1>1, SameDeath, DeathNextInv
<1>5. mIn'[th] = <<>> /\ \A u \in Thread : u # th => mIn'[u] = mIn[u]
  BY <1>1 DEF UserTypeOK
<1>6. th \in Confirmed(p) /\ Confirmed(p)' = Confirmed(p) \ {th}
  BY <1>1, <1>3, <1>5 DEF Confirmed
<1>7. \A q \in Proxy : q # p => Confirmed(q)' = Confirmed(q)
  BY <1>1, <1>3, <1>5 DEF Confirmed
<1>8. ASSUME NEW q \in Proxy
      PROVE  Reporting(q)' = Reporting(q)
  <2>1. mIn[th] # <<<<"DEAD", q>>>> /\ <<<<"DEAD", q>>>> # <<>>
    BY <1>3
  <2> QED BY <1>1, <1>5, <2>1 DEF Reporting
<1>9. Counted' /\ weak' \in [Proxy -> Nat]
  BY <1>1, <1>3, <1>4, <1>6, <1>7, <1>8, CountsConfirmed
<1>10. obituary[th] = NULL
  <2> SUFFICES ASSUME obituary[th] # NULL PROVE FALSE
    OBVIOUS
  <2>1. mIn[th] = <<<<"DEAD", obituary[th]>>>>
    BY DEF Stage
  <2>2. Head(mIn[th]) = <<"DEAD", obituary[th]>>
    BY <2>1
  <2> QED BY <1>3, <2>2
<1>11. UserTypeOK' /\ Stage' /\ OneList'
  BY <1>1, <1>5, <1>9, <1>10 DEF UserTypeOK, Stage, OneList
<1> QED BY <1>4, <1>9, <1>11

\* sendObituary returns: the thread reports still, with BC_DEAD_BINDER_DONE.
LEMMA DoneKeeps ==
    ASSUME UserInv, NEW th \in Thread, NEW p \in Proxy, mIn[th] = <<<<"DEAD", p>>>>, Done(th, p),
           UNCHANGED <<deathVars, exists, held, weak, mObitsSent, mObituaries, link>>
    PROVE  UserInv'
<1> USE DEF UserInv
<1>1. DeathInv' /\ Cookies' /\ SameRequests /\ SameTold
  BY SameDeath, DeathNextInv
<1>2. mIn[th] # <<>> /\ mOut[th] = <<>> /\ Append(<<>>, p) = <<p>>
  BY DEF Stage
<1>3. /\ mIn'[th] = <<>> /\ mOut'[th] = <<p>> /\ obituary'[th] = NULL /\ taken'[th] = NULL
      /\ \A u \in Thread : u # th => /\ mIn'[u] = mIn[u] /\ mOut'[u] = mOut[u]
                                     /\ obituary'[u] = obituary[u] /\ taken'[u] = taken[u]
  BY <1>2 DEF Done, UserTypeOK
<1>4. UserTypeOK'
  <2>1. mIn' \in [Thread -> {<<>>} \cup {<<c>> : c \in Commands}]
    BY DEF Done, UserTypeOK
  <2>2. mOut' \in [Thread -> {<<>>} \cup {<<q>> : q \in Proxy}]
    BY <1>2 DEF Done, UserTypeOK
  <2>3. obituary' \in [Thread -> Proxy \cup {NULL}] /\ taken' \in [Thread -> (SUBSET Recipient) \cup {NULL}]
    BY DEF Done, UserTypeOK
  <2> QED BY <2>1, <2>2, <2>3 DEF UserTypeOK
<1>5. Stage'
  BY <1>3 DEF Stage
<1>6. OneList'
  BY <1>3 DEF OneList
<1>7. \A q \in Proxy : Confirmed(q)' = Confirmed(q)
  <2>1. \A q \in Proxy : Head(mIn[th]) # <<"CLEAR_DONE", q>>
    OBVIOUS
  <2> QED BY <1>3, <2>1 DEF Confirmed
<1>8. ASSUME NEW q \in Proxy
      PROVE  Reporting(q)' = Reporting(q)
  <2>1. mIn[th] = <<<<"DEAD", q>>>> <=> p = q
    <3>1. Head(mIn[th]) = <<"DEAD", p>> /\ Head(<<<<"DEAD", q>>>>) = <<"DEAD", q>>
      OBVIOUS
    <3> QED BY <3>1
  <2>2. <<p>> = <<q>> <=> p = q
    OBVIOUS
  <2>3. <<>> # <<<<"DEAD", q>>>> /\ <<>> # <<q>>
    OBVIOUS
  <2> QED BY <1>2, <1>3, <2>1, <2>2, <2>3 DEF Reporting
<1>9. Counted'
  BY <1>1, <1>7, <1>8 DEF Counted, SameRequests, SameTold
<1> QED BY <1>1, <1>4, <1>5, <1>6, <1>9

LEMMA ExecuteDeadKeeps ==
    ASSUME UserInv, NEW th \in Thread, ExecuteDead(th)
    PROVE  UserInv'
<1> USE DEF UserInv
<1>1. PICK p \in Proxy : mIn[th] = <<<<"DEAD", p>>>>
  <2>1. mIn[th] # <<>> /\ Head(mIn[th])[1] = "DEAD"
    BY DEF ExecuteDead
  <2>2. PICK c \in Commands : mIn[th] = <<c>>
    BY <2>1 DEF UserTypeOK
  <2>3. Head(mIn[th]) = c
    BY <2>2
  <2> QED BY <2>1, <2>2, <2>3 DEF Commands
<1>2. Head(mIn[th])[2] = p
  BY <1>1
<1>3. /\ obituary[th] = NULL
      /\ IF mObitsSent[p] THEN Done(th, p)
         ELSE obituary' = [obituary EXCEPT ![th] = p] /\ UNCHANGED <<mIn, mOut, taken>>
      /\ UNCHANGED <<deathVars, exists, held, weak, mObitsSent, mObituaries, link>>
  BY <1>2 DEF ExecuteDead
<1>4. CASE mObitsSent[p]
  BY <1>1, <1>3, <1>4, DoneKeeps
<1>5. CASE ~mObitsSent[p]
  <2>1. obituary' = [obituary EXCEPT ![th] = p] /\ UNCHANGED <<mIn, mOut, taken>>
    BY <1>3, <1>5
  <2>2. DeathInv' /\ Cookies' /\ SameRequests /\ SameTold
    BY <1>3, SameDeath, DeathNextInv
  <2>3. Counted'
    BY <1>3, <2>1, <2>2, CountsSame DEF Counted
  <2>4. obituary'[th] = p /\ \A u \in Thread : u # th => obituary'[u] = obituary[u]
    BY <2>1 DEF UserTypeOK
  <2>5. taken[th] = NULL
    BY <1>3 DEF Stage
  <2>6. UserTypeOK' /\ Stage'
    BY <1>1, <1>3, <2>1, <2>4, <2>5 DEF UserTypeOK, Stage
  <2>7. OneList'
    BY <1>3, <2>1, <2>4, <2>5 DEF OneList
  <2> QED BY <2>2, <2>3, <2>6, <2>7
<1> QED BY <1>4, <1>5

LEMMA TakeObituariesKeeps ==
    ASSUME UserInv, NEW th \in Thread, TakeObituaries(th)
    PROVE  UserInv'
<1> USE DEF UserInv
<1>1. PICK p \in Proxy : p = obituary[th]
  BY DEF TakeObituaries, UserTypeOK
<1>2. /\ taken[th] = NULL
      /\ taken' = [taken EXCEPT ![th] = IF mObituaries[p] = NULL THEN {} ELSE mObituaries[p]]
      /\ mObitsSent' = [mObitsSent EXCEPT ![p] = TRUE]
      /\ mObituaries' = [mObituaries EXCEPT ![p] = NULL]
      /\ IF mObituaries[p] = NULL THEN UNCHANGED deathVars
         ELSE ClearDeath(th, HandleOf[p], p)
      /\ UNCHANGED <<exists, held, weak, mIn, mOut, obituary, link>>
  BY <1>1 DEF TakeObituaries
<1>3. HandleOf[p] \in Handle /\ p \in Cookie /\ p # NULL
  BY ProxyAssumption, DeathAssumption DEF Proxy
<1>4. DeathInv' /\ Cookies' /\ SameRequests /\ SameTold
  <2>1. CASE mObituaries[p] = NULL
    BY <1>2, <2>1, SameDeath, DeathNextInv
  <2>2. CASE mObituaries[p] # NULL
    <3>1. ClearDeath(th, HandleOf[p], p)
      BY <1>2, <2>2
    <3> QED BY <1>3, <3>1, ClearDeathKeeps, ClearEffect
  <2> QED BY <2>1, <2>2
<1>5. Counted'
  BY <1>2, <1>4, CountsSame DEF Counted
<1>6. /\ \A x \in taken'[th] : mObituaries[p] # NULL /\ x \in mObituaries[p]
      /\ \A u \in Thread : u # th => taken'[u] = taken[u]
      /\ taken' \in [Thread -> (SUBSET Recipient) \cup {NULL}]
  BY <1>2 DEF UserTypeOK
<1>7. /\ mObituaries'[p] = NULL
      /\ \A q \in Proxy : q # p => mObituaries'[q] = mObituaries[q]
  BY <1>2 DEF UserTypeOK
<1>8. UserTypeOK'
  BY <1>2, <1>6 DEF UserTypeOK
<1>9. Stage'
  BY <1>1, <1>2, <1>3, <1>6 DEF Stage
<1>10. \A q \in Proxy : mObituaries'[q] # NULL =>
          \A r \in mObituaries'[q] : link'[r] = "linked" /\ ProxyOf[r] = q
  BY <1>2, <1>7 DEF OneList
<1>11. ASSUME NEW u \in Thread, taken'[u] # NULL, NEW x \in taken'[u]
       PROVE  /\ link'[x] = "linked" /\ ProxyOf[x] = obituary'[u]
              /\ \A q \in Proxy : mObituaries'[q] # NULL => x \notin mObituaries'[q]
              /\ \A v \in Thread \ {u} : taken'[v] # NULL => x \notin taken'[v]
  <2>1. CASE u = th
    <3>1. mObituaries[p] # NULL /\ x \in mObituaries[p]
      BY <1>6, <1>11, <2>1
    <3>2. link[x] = "linked" /\ ProxyOf[x] = p
      BY <3>1 DEF OneList
    <3>3. ASSUME NEW q \in Proxy, mObituaries'[q] # NULL, x \in mObituaries'[q]
          PROVE  FALSE
      <4>1. q # p /\ mObituaries[q] # NULL /\ x \in mObituaries[q]
        BY <1>7, <3>3
      <4> QED BY <3>2, <4>1 DEF OneList
    <3>4. ASSUME NEW v \in Thread \ {u}, taken'[v] # NULL, x \in taken'[v]
          PROVE  FALSE
      <4>1. taken[v] # NULL /\ x \in taken[v]
        BY <1>6, <2>1, <3>4
      <4> QED BY <3>1, <4>1 DEF OneList
    <3> QED BY <1>1, <1>2, <2>1, <3>2, <3>3, <3>4
  <2>2. CASE u # th
    <3>1. taken[u] # NULL /\ x \in taken[u]
      BY <1>6, <1>11, <2>2
    <3>2. /\ link[x] = "linked" /\ ProxyOf[x] = obituary[u]
          /\ \A q \in Proxy : mObituaries[q] # NULL => x \notin mObituaries[q]
          /\ \A v \in Thread \ {u} : taken[v] # NULL => x \notin taken[v]
      BY <3>1 DEF OneList
    <3>3. x \notin taken'[th]
      BY <1>6, <3>2
    <3>4. \A q \in Proxy : mObituaries'[q] # NULL => x \notin mObituaries'[q]
      BY <1>7, <3>2
    <3>5. \A v \in Thread \ {u} : taken'[v] # NULL => x \notin taken'[v]
      BY <1>6, <3>2, <3>3
    <3> QED BY <1>2, <3>2, <3>4, <3>5
  <2> QED BY <2>1, <2>2
<1>12. OneList'
  BY <1>10, <1>11 DEF OneList
<1> QED BY <1>4, <1>5, <1>8, <1>9, <1>12

LEMMA ReportOneDeathKeeps ==
    ASSUME UserInv, NEW th \in Thread, NEW r \in Recipient, ReportOneDeath(th, r)
    PROVE  UserInv'
<1> USE DEF UserInv
<1>1. /\ taken[th] # NULL /\ r \in taken[th]
      /\ link' = [link EXCEPT ![r] = "reported"]
      /\ taken' = [taken EXCEPT ![th] = @ \ {r}]
      /\ UNCHANGED <<deathVars, exists, held, weak, mObitsSent, mObituaries, mIn, mOut, obituary>>
  BY DEF ReportOneDeath
<1>2. DeathInv' /\ Cookies' /\ SameRequests /\ SameTold
  BY <1>1, SameDeath, DeathNextInv
<1>3. Counted'
  BY <1>1, <1>2, CountsSame DEF Counted
<1>4. /\ taken'[th] = taken[th] \ {r}
      /\ \A u \in Thread : u # th => taken'[u] = taken[u]
      /\ taken' \in [Thread -> (SUBSET Recipient) \cup {NULL}]
  BY <1>1 DEF UserTypeOK
<1>5. UserTypeOK' /\ Stage'
  BY <1>1, <1>4 DEF UserTypeOK, Stage, Links
<1>6. \A x \in Recipient : x # r => link'[x] = link[x]
  BY <1>1 DEF UserTypeOK
<1>7. /\ \A q \in Proxy : mObituaries[q] # NULL => r \notin mObituaries[q]
      /\ \A v \in Thread \ {th} : taken[v] # NULL => r \notin taken[v]
  BY <1>1 DEF OneList
<1>8. ASSUME NEW q \in Proxy, mObituaries'[q] # NULL, NEW x \in mObituaries'[q]
      PROVE  link'[x] = "linked" /\ ProxyOf[x] = q
  <2>1. x \in Recipient /\ x # r /\ link[x] = "linked" /\ ProxyOf[x] = q
    BY <1>1, <1>7, <1>8 DEF OneList, UserTypeOK
  <2> QED BY <1>6, <2>1
<1>9. ASSUME NEW u \in Thread, taken'[u] # NULL, NEW x \in taken'[u]
      PROVE  /\ link'[x] = "linked" /\ ProxyOf[x] = obituary[u]
             /\ \A q \in Proxy : mObituaries[q] # NULL => x \notin mObituaries[q]
             /\ \A v \in Thread \ {u} : taken'[v] # NULL => x \notin taken'[v]
  <2>1. taken[u] # NULL /\ x \in taken[u] /\ x # r
    BY <1>1, <1>4, <1>7, <1>9
  <2>2. /\ x \in Recipient /\ link[x] = "linked" /\ ProxyOf[x] = obituary[u]
        /\ \A q \in Proxy : mObituaries[q] # NULL => x \notin mObituaries[q]
        /\ \A v \in Thread \ {u} : taken[v] # NULL => x \notin taken[v]
    BY <2>1 DEF OneList, UserTypeOK
  <2>3. \A v \in Thread \ {u} : taken'[v] # NULL => x \notin taken'[v]
    BY <1>1, <1>4, <2>2
  <2> QED BY <1>6, <2>1, <2>2, <2>3
<1>10. OneList'
  BY <1>1, <1>8, <1>9 DEF OneList
<1> QED BY <1>2, <1>3, <1>5, <1>10

LEMMA ObituarySentKeeps ==
    ASSUME UserInv, NEW th \in Thread, ObituarySent(th)
    PROVE  UserInv'
<1>1. NULL # {}
  BY ProxyAssumption
<1>2. obituary[th] # NULL
  BY <1>1 DEF ObituarySent, UserInv, Stage
<1>3. PICK p \in Proxy : p = obituary[th]
  BY <1>2 DEF UserInv, UserTypeOK
<1> QED BY <1>2, <1>3, DoneKeeps DEF ObituarySent, UserInv, Stage

LEMMA UserInitInv == Init => UserInv
<1> SUFFICES ASSUME Init PROVE UserInv
  OBVIOUS
<1>1. DeathInv
  BY DeathInitInv DEF Init
<1>2. UserTypeOK /\ Stage
  BY DEF Init, UserTypeOK, Stage, Links
<1>3. OneList
  BY DEF Init, OneList
<1>4. \A d \in Death : death[d].type = "free" /\ death[d].type \notin {"DEAD_BINDER", "DEAD_BINDER_AND_CLEAR"}
  BY DEF Init, DeathInit, Free
<1>5. Cookies
  BY <1>4 DEF Init, DeathInit, Cookies
<1>6. \A p \in Proxy : Requests(p) = {} /\ ToldTo(p) = {} /\ Confirmed(p) = {} /\ Reporting(p) = {}
  <2>1. \A d : ~Delivered(d)
    BY DEF Init, DeathInit, Delivered, Items
  <2> QED BY <1>4, <2>1 DEF Init, Requests, Allocated, ToldTo, Confirmed, Reporting
<1>7. Counted
  <2>1. IsFiniteSet({}) /\ Cardinality({}) = 0
    BY FS_EmptySet
  <2>2. \A p \in Proxy : weak[p] = 0
    BY DEF Init
  <2>3. ASSUME NEW p \in Proxy
        PROVE  /\ IsFiniteSet(Requests(p)) /\ IsFiniteSet(Confirmed(p))
               /\ IsFiniteSet(ToldTo(p)) /\ IsFiniteSet(Reporting(p))
               /\ Cardinality(Requests(p)) = 0 /\ Cardinality(Confirmed(p)) = 0
               /\ Cardinality(ToldTo(p)) = 0 /\ Cardinality(Reporting(p)) = 0
    BY <1>6, <2>1
  <2> QED BY <2>2, <2>3 DEF Counted
<1> QED BY <1>1, <1>2, <1>3, <1>5, <1>7 DEF UserInv

LEMMA UserNextInv == UserInv /\ [Next]_vars => UserInv'
<1> SUFFICES ASSUME UserInv, [Next]_vars PROVE UserInv'
  OBVIOUS
<1>1. CASE \E h \in Handle : NodeDies(h)
  BY <1>1, NodeDiesKeeps
<1>2. CASE \E p \in Proxy : NewProxy(p) \/ HoldProxy(p) \/ DropProxy(p) \/ DeleteProxy(p)
  BY <1>2, ProxyKeeps
<1>3. ASSUME NEW th \in Thread, NEW p \in Proxy, NEW r \in Recipient,
             \/ \E d \in Death : LinkFirst(th, p, r, d)
             \/ LinkNext(th, p, r)
             \/ Unlink(th, p, r)
      PROVE  UserInv'
  BY <1>3, LinkKeeps, UnlinkKeeps
<1>4. ASSUME NEW th \in Thread, ReadCommand(th) \/ WriteDone(th) \/ Execute(th)
      PROVE  UserInv'
  BY <1>4, ReadCommandKeeps, WriteDoneKeeps, ExecuteClearDoneKeeps, ExecuteDeadKeeps,
     TakeObituariesKeeps, ReportOneDeathKeeps, ObituarySentKeeps DEF Execute
<1>5. CASE UNCHANGED vars
  <2>1. UNCHANGED deathVars /\ UNCHANGED userVars
    BY <1>5 DEF vars
  <2>2. DeathInv' /\ Cookies' /\ SameRequests /\ SameTold
    BY <2>1, SameDeath, DeathNextInv DEF UserInv
  <2>3. Counted'
    BY <2>1, <2>2, CountsSame DEF userVars, UserInv, Counted
  <2>4. UserTypeOK' /\ Stage' /\ OneList'
    BY <2>1 DEF userVars, UserInv, UserTypeOK, Stage, OneList
  <2> QED BY <2>2, <2>3, <2>4 DEF UserInv
<1> QED BY <1>1, <1>2, <1>3, <1>4, <1>5 DEF Next

-----------------------------------------------------------------------------
(* Theorems *)

\* The weak references that linkToDeath takes on a BpBinder are matched, one by one, by
\* the notifications in the driver and the confirmations a thread has yet to execute: the
\* proxy that a cookie points to is there, and it is not kept for ever.
THEOREM WeakReferencesMatched == Spec => []WeakMatched
<1>1. UserInv => WeakMatched
  BY DEF UserInv, Counted, WeakMatched, Requests
<1> QED BY <1>1, UserInitInv, UserNextInv, PTL DEF Spec

\* reportOneDeath calls a recipient that is linked, of a binder that has died, and calls
\* it for one thread only: never after an unlinkToDeath that succeeded, never twice.
THEOREM RecipientCalled == Spec => []CalledWhenLinked
<1>1. UserInv => CalledWhenLinked
  <2> SUFFICES ASSUME UserInv, NEW th \in Thread, taken[th] # NULL, NEW r \in taken[th]
               PROVE  /\ link[r] = "linked"
                      /\ dead[HandleOf[ProxyOf[r]]]
                      /\ r \notin UNION {mObituaries[p] : p \in {q \in Proxy : mObituaries[q] # NULL}}
                      /\ \A u \in Thread \ {th} : taken[u] # NULL => r \notin taken[u]
    BY DEF CalledWhenLinked
  <2>1. /\ link[r] = "linked" /\ ProxyOf[r] = obituary[th]
        /\ \A p \in Proxy : mObituaries[p] # NULL => r \notin mObituaries[p]
        /\ \A u \in Thread \ {th} : taken[u] # NULL => r \notin taken[u]
    BY DEF UserInv, OneList
  <2>2. PICK p \in Proxy : p = obituary[th] /\ mIn[th] = <<<<"DEAD", p>>>>
    BY DEF UserInv, UserTypeOK, Stage
  <2>3. dead[HandleOf[p]]
    BY <2>2, ReportingDead DEF Reporting, UserInv
  <2> QED BY <2>1, <2>2, <2>3
<1> QED BY <1>1, UserInitInv, UserNextInv, PTL DEF Spec

\* The whole exchange keeps its types: a thread has one command at a time, and no weak
\* reference is given back twice.
THEOREM UserTypeCorrect == Spec => []TypeOK
<1>1. UserInv => TypeOK
  <2> SUFFICES ASSUME UserInv PROVE TypeOK
    OBVIOUS
  <2>1. mIn \in [Thread -> Seq({"DEAD", "CLEAR_DONE"} \X Proxy)]
    <3>1. <<>> \in Seq(Commands) /\ \A c \in Commands : <<c>> \in Seq(Commands)
      OBVIOUS
    <3>2. mIn \in [Thread -> {<<>>} \cup {<<c>> : c \in Commands}]
      BY DEF UserInv, UserTypeOK
    <3>3. \A th \in Thread : mIn[th] \in Seq(Commands)
      BY <3>1, <3>2
    <3>4. mIn \in [Thread -> Seq(Commands)]
      BY <3>2, <3>3
    <3> QED BY <3>4 DEF Commands
  <2>2. mOut \in [Thread -> Seq(Proxy)]
    <3>1. <<>> \in Seq(Proxy) /\ \A p \in Proxy : <<p>> \in Seq(Proxy)
      OBVIOUS
    <3>2. mOut \in [Thread -> {<<>>} \cup {<<p>> : p \in Proxy}]
      BY DEF UserInv, UserTypeOK
    <3>3. \A th \in Thread : mOut[th] \in Seq(Proxy)
      BY <3>1, <3>2
    <3> QED BY <3>2, <3>3
  <2>3. \A p \in Proxy : mObituaries[p] # NULL => mObituaries[p] \subseteq Recipient
    BY DEF UserInv, UserTypeOK
  <2>4. \A th \in Thread : taken[th] # NULL => taken[th] \subseteq Recipient
    BY DEF UserInv, UserTypeOK
  <2>5. /\ DeathTypeOK /\ exists \subseteq Proxy /\ held \subseteq exists
        /\ weak \in [Proxy -> Nat] /\ mObitsSent \in [Proxy -> BOOLEAN]
        /\ obituary \in [Thread -> Proxy \cup {NULL}] /\ link \in [Recipient -> Links]
    BY DEF UserInv, UserTypeOK, DeathInv
  <2> QED BY <2>1, <2>2, <2>3, <2>4, <2>5 DEF TypeOK
<1> QED BY <1>1, UserInitInv, UserNextInv, PTL DEF Spec

\* Every step of the program enters the driver with at most one command the driver knows.
LEMMA DriverStep == UserInv /\ [Next]_vars => [DeathNext]_deathVars
<1> SUFFICES ASSUME UserInv, [Next]_vars PROVE [DeathNext]_deathVars
  OBVIOUS
<1>0. Proxy = Cookie /\ \A p \in Proxy : HandleOf[p] \in Handle
  BY ProxyAssumption DEF Proxy
<1>1. ASSUME NEW h \in Handle, NodeDies(h)
      PROVE  DeathNext
  BY <1>1 DEF NodeDies, DeathNext
<1>2. ASSUME NEW p \in Proxy, NewProxy(p) \/ HoldProxy(p) \/ DropProxy(p) \/ DeleteProxy(p)
      PROVE  [DeathNext]_deathVars
  <2>1. CASE NewProxy(p) \/ DeleteProxy(p)
    BY <1>0, <2>1 DEF NewProxy, DeleteProxy, DeathNext
  <2>2. CASE HoldProxy(p) \/ DropProxy(p)
    BY <2>2 DEF HoldProxy, DropProxy
  <2> QED BY <1>2, <2>1, <2>2
<1>3. ASSUME NEW th \in Thread, NEW p \in Proxy, ClearDeath(th, HandleOf[p], p)
      PROVE  DeathNext
  BY <1>0, <1>3 DEF Command, DeathNext
<1>4. ASSUME NEW th \in Thread, NEW p \in Proxy, NEW r \in Recipient,
             \/ \E d \in Death : LinkFirst(th, p, r, d)
             \/ LinkNext(th, p, r)
             \/ Unlink(th, p, r)
      PROVE  [DeathNext]_deathVars
  <2>1. ASSUME NEW d \in Death, LinkFirst(th, p, r, d)
        PROVE  DeathNext
    <3>1. RequestDeath(th, HandleOf[p], p, d)
      BY <2>1 DEF LinkFirst
    <3> QED BY <1>0, <3>1 DEF Command, DeathNext
  <2>2. CASE LinkNext(th, p, r)
    BY <2>2 DEF LinkNext
  <2>3. CASE Unlink(th, p, r)
    <3>1. ClearDeath(th, HandleOf[p], p) \/ UNCHANGED deathVars
      BY <2>3 DEF Unlink
    <3> QED BY <1>3, <3>1
  <2> QED BY <1>4, <2>1, <2>2, <2>3
<1>5. ASSUME NEW th \in Thread, ReadCommand(th)
      PROVE  DeathNext
  BY <1>5 DEF ReadCommand, Read, DeathNext
<1>6. ASSUME NEW th \in Thread, WriteDone(th)
      PROVE  DeathNext
  <2>1. PICK p \in Proxy : mOut[th] = <<p>>
    BY <1>6 DEF WriteDone, UserInv, UserTypeOK
  <2>2. DeadBinderDone(th, p)
    BY <1>6, <2>1 DEF WriteDone
  <2> QED BY <1>0, <2>2 DEF Command, DeathNext
<1>7. ASSUME NEW th \in Thread, Execute(th)
      PROVE  [DeathNext]_deathVars
  <2>1. CASE TakeObituaries(th)
    <3>1. PICK p \in Proxy : p = obituary[th]
      BY <2>1 DEF TakeObituaries, UserInv, UserTypeOK
    <3>2. ClearDeath(th, HandleOf[p], p) \/ UNCHANGED deathVars
      BY <2>1, <3>1 DEF TakeObituaries
    <3> QED BY <1>3, <3>2
  <2>2. CASE ~TakeObituaries(th)
    BY <1>7, <2>2 DEF Execute, ExecuteClearDone, ExecuteDead, ReportOneDeath, ObituarySent
  <2> QED BY <2>1, <2>2
<1>8. CASE UNCHANGED vars
  BY <1>8 DEF vars
<1> QED BY <1>1, <1>2, <1>4, <1>5, <1>6, <1>7, <1>8 DEF Next

\* BpBinder and IPCThreadState use the driver within its specification, so that what is
\* proved of the driver's notifications holds of the whole exchange.
THEOREM DriverUsed == Spec => DeathSpec /\ []OneOwner /\ []ToldOnce
<1>1. Init => DeathInit
  BY DEF Init
<1>2. Spec => DeathSpec
  BY <1>1, DriverStep, UserInitInv, UserNextInv, PTL DEF Spec, DeathSpec
<1> QED BY <1>2, NotificationOwned, DeathTold, PTL

=============================================================================
