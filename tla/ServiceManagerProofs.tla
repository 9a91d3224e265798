------------------------ MODULE ServiceManagerProofs ------------------------
(***************************************************************************)
(* Theorems about ServiceManager, for any number of names and services,    *)
(* any length of its list and any number of waiting requests.              *)
(***************************************************************************)
EXTENDS ServiceManager, FiniteSetTheorems, SequenceTheorems, WellFoundedInduction, TLAPS

-----------------------------------------------------------------------------
(* The inductive invariant *)

\* Claims and the count of the driver, a reference that is not there counting 0.
Strong(r, h) == IF r[h] = NULL THEN 0 ELSE r[h].strong
Entries(list, h) == {i \in DOMAIN list : list[i].handle = h}
Adds(q, h) == {i \in DOMAIN q : q[i].code = "add" /\ q[i].handle = h}
Pending(o, h) == IF o.pc \in {"link", "reply"} /\ o.req.handle = h THEN 1 ELSE 0

Balanced ==
    \A h \in Handle :
        Strong(ref, h) = Cardinality(Entries(svclist, h)) + Cardinality(Adds(inbox, h))
                         + Pending(op, h)

ManagerTypeOK ==
    /\ live \subseteq Service
    /\ svclist \in Seq(Entry)
    /\ op \in [pc: {"idle", "acquire", "link", "reply"}, req: Request]
    /\ answer \in [found: Service \cup {NULL}, name: Name \cup {NULL}, isolated: BOOLEAN]
    /\ published \in [Name -> Service \cup {NULL}]
    /\ relayed \subseteq Name
    /\ lister \in [n: Nat, unseen: SUBSET Name, state: {"idle", "asked", "done"}]

\* References r: a service has one handle, and is notified for a name it was added under.
RefsFor(r) ==
    /\ r \in [Handle -> RefRec \cup {NULL}]
    /\ \A h \in Handle : r[h] # NULL => r[h].strong # 0
    /\ \A h, k \in Handle : r[h] # NULL /\ r[k] # NULL /\ r[h].service = r[k].service => h = k
    /\ \A h \in Handle : r[h] # NULL /\ r[h].cookie # NULL => <<r[h].cookie, r[h].service>> \in Pairs

\* An item w agrees with the reference, or the listing ls, that it is about.
Item(r, lv, ls, w) ==
    /\ w.code = "add" /\ w.handle # 0 =>
          w.name \in Name /\ r[w.handle] # NULL /\ <<w.name, r[w.handle].service>> \in Pairs
    /\ w.code = "dead" =>
          /\ w.handle \in Handle /\ w = Dead(w.handle)
          /\ r[w.handle] # NULL /\ r[w.handle].cookie # NULL /\ r[w.handle].service \notin lv
    /\ w.code = "find" => w.name \in Name
    /\ w.code = "list" => ls.state = "asked" /\ ls.n = w.n + 1

\* b may wait behind a: a death comes once, and a client lists one entry at a time.
MayFollow(a, b) ==
    /\ a.code = "dead" /\ b.code = "dead" => a.handle # b.handle
    /\ a.code = "list" => b.code # "list"

Inbox(r, lv, ls, q) ==
    /\ q \in Seq(Request)
    /\ \A i \in DOMAIN q : Item(r, lv, ls, q[i])
    /\ \A i, j \in DOMAIN q : i < j => MayFollow(q[i], q[j])

RefsOK == RefsFor(ref)
InboxOK == Inbox(ref, live, lister, inbox)

\* The list has each name once, with the handle of the service last added under it.
ListOK ==
    /\ \A i, j \in DOMAIN svclist : svclist[i].name = svclist[j].name => i = j
    /\ \A i \in DOMAIN svclist : svclist[i].handle # 0 =>
          /\ ref[svclist[i].handle] # NULL
          /\ ref[svclist[i].handle].service = published[svclist[i].name]
          /\ <<svclist[i].name, published[svclist[i].name]>> \in Pairs
    /\ \A nm \in Name \ NamesIn(svclist) : published[nm] = NULL

\* do_add_service has put its handle into the list.
OpOK ==
    /\ op.pc = "idle" => op = Idle
    /\ op.pc # "idle" =>
          /\ op.req.handle \in Handle
          /\ \E i \in DOMAIN svclist : /\ svclist[i].handle = op.req.handle
                                       /\ svclist[i].name = op.req.name

\* What the listing has yet to see is below the place it has reached.
ListingOK ==
    /\ lister.state \in {"idle", "asked"} =>
          \A nm \in lister.unseen : \E i \in DOMAIN svclist :
             /\ svclist[i].name = nm
             /\ i > lister.n \/ (lister.state = "asked" /\ i = lister.n)
    /\ ListComplete

ManagerInv ==
    /\ ManagerTypeOK /\ RefsOK /\ InboxOK /\ ListOK /\ OpOK /\ ListingOK /\ Balanced

\* A service is registered under one name only.
OneName == \A p, q \in Pairs : p[2] = q[2] => p[1] = q[1]

\* An entry that has lost its handle belongs to a service that has stopped, or is one
\* that somebody adds stopped services under.
Gone ==
    \A i \in DOMAIN svclist : svclist[i].handle = 0 =>
        published[svclist[i].name] \notin live \/ svclist[i].name \in relayed

\* The request at j adds a service whose death waits before it, at i.
Late(q, i, j) ==
    i < j /\ q[i].code = "dead" /\ q[j].code = "add" /\ q[i].handle = q[j].handle

\* Such a request was made after the death, but for those that the death of the service
\* just added, a pair of placed, has overtaken from the thread's own list.
Overtaken(q, placed, names) ==
    \A i, j \in DOMAIN q : Late(q, i, j) =>
        \/ q[j].name \in names
        \/ i = 1 /\ <<q[j].handle, q[j].name>> \in placed

Placed(list) == {<<list[k].handle, list[k].name>> : k \in DOMAIN list}

DeathsOK ==
    Overtaken(inbox, IF op.pc \in {"idle", "reply"} THEN Placed(svclist) ELSE {}, relayed)

-----------------------------------------------------------------------------
(* Sequences and counts *)

LEMMA SameCount ==
    ASSUME NEW S, NEW T, IsFiniteSet(S), NEW f \in [S -> T],
           \A x, y \in S : f[x] = f[y] => x = y,
           \A t \in T : \E x \in S : f[x] = t
    PROVE  IsFiniteSet(T) /\ Cardinality(T) = Cardinality(S)
<1>1. f \in Bijection(S, T)
  BY DEF Bijection, Injection, Surjection, IsInjective
<1>2. ExistsBijection(S, T)
  BY <1>1 DEF ExistsBijection
<1> QED BY <1>2, FS_Bijection

LEMMA IndicesFinite ==
    ASSUME NEW S, NEW q \in Seq(S), NEW I, I \subseteq DOMAIN q
    PROVE  IsFiniteSet(I) /\ Cardinality(I) \in Nat
<1>1. DOMAIN q = 1 .. Len(q) /\ Len(q) \in Nat
  OBVIOUS
<1>2. IsFiniteSet(1 .. Len(q))
  BY <1>1, FS_Interval
<1>3. IsFiniteSet(I)
  BY <1>1, <1>2, FS_Subset
<1> QED BY <1>3, FS_CardinalityType

\* r is q without its item at k.
Shrunk(q, r, k) ==
    /\ k \in 1 .. Len(q)
    /\ Len(r) = Len(q) - 1
    /\ \A i \in 1 .. Len(q) - 1 : r[i] = q[IF i < k THEN i ELSE i + 1]

LEMMA ShrunkTail ==
    ASSUME NEW S, NEW q \in Seq(S), q # <<>>
    PROVE  Tail(q) \in Seq(S) /\ Shrunk(q, Tail(q), 1)
<1>1. /\ Tail(q) \in Seq(S) /\ Len(Tail(q)) = Len(q) - 1 /\ Len(q) \in Nat /\ Len(q) > 0
      /\ \A i \in 1 .. Len(q) - 1 : Tail(q)[i] = q[i + 1]
  OBVIOUS
<1> QED BY <1>1 DEF Shrunk

LEMMA MinIn ==
    ASSUME NEW S, S \subseteq Nat, S # {}
    PROVE  Min(S) \in S
<1>1. \E x \in S : \A y \in S : ~(<<y, x>> \in OpToRel(<, Nat))
  BY NatLessThanWellFounded, WFMin
<1>2. PICK x \in S : \A y \in S : ~(<<y, x>> \in OpToRel(<, Nat))
  BY <1>1
<1>3. \A y \in S : ~(y < x)
  BY <1>2 DEF OpToRel
<1>4. \A y \in S : x <= y
  BY <1>3
<1> QED BY <1>4 DEF Min

LEMMA ShrunkRemove ==
    ASSUME NEW S, NEW q \in Seq(S), NEW d
    PROVE  /\ RemoveFirst(q, d) \in Seq(S)
           /\ \/ RemoveFirst(q, d) = q /\ \A i \in DOMAIN q : q[i] # d
              \/ \E k \in DOMAIN q : q[k] = d /\ Shrunk(q, RemoveFirst(q, d), k)
<1> DEFINE n == Len(q)
<1>1. DOMAIN q = 1 .. n /\ n \in Nat /\ \A i \in 1 .. n : q[i] \in S
  OBVIOUS
<1>2. CASE ~\E i \in 1 .. n : q[i] = d
  BY <1>1, <1>2 DEF RemoveFirst
<1>3. CASE \E i \in 1 .. n : q[i] = d
  <2> DEFINE I == {i \in 1 .. n : q[i] = d}
  <2>1. I # {} /\ I \subseteq Nat
    BY <1>1, <1>3
  <2>2. PICK k \in I : k = Min(I)
    BY <2>1, MinIn
  <2>3. SelectInSeq(q, LAMBDA v : v = d) = k
    BY <2>1, <2>2 DEF SelectInSeq
  <2>0. k \in 1 .. n /\ q[k] = d
    OBVIOUS
  <2> HIDE DEF I
  <2> DEFINE r == RemoveAt(q, k)
  <2>4. RemoveFirst(q, d) = r
    BY <1>3, <2>3 DEF RemoveFirst
  <2> DEFINE a == SubSeq(q, 1, k - 1)
             b == SubSeq(q, k + 1, n)
  <2>5. /\ a \in Seq(S) /\ Len(a) = k - 1 /\ \A i \in 1 .. k - 1 : a[i] = q[i]
    <3>1. 1 \in Int /\ k - 1 \in Int /\ \A i \in 1 .. k - 1 : q[i] \in S
      BY <1>1, <2>0
    <3>2. /\ a \in Seq(S) /\ Len(a) = IF 1 <= k - 1 THEN k - 1 - 1 + 1 ELSE 0
          /\ \A i \in 1 .. k - 1 - 1 + 1 : a[i] = q[1 + i - 1]
      BY <3>1, SubSeqProperties
    <3> HIDE DEF a
    <3> QED BY <1>1, <2>0, <3>2
  <2>6. /\ b \in Seq(S) /\ Len(b) = n - k /\ \A i \in 1 .. n - k : b[i] = q[k + i]
    <3>1. k + 1 \in Int /\ n \in Int /\ \A i \in k + 1 .. n : q[i] \in S
      BY <1>1, <2>0
    <3>2. /\ b \in Seq(S) /\ Len(b) = IF k + 1 <= n THEN n - (k + 1) + 1 ELSE 0
          /\ \A i \in 1 .. n - (k + 1) + 1 : b[i] = q[k + 1 + i - 1]
      BY <3>1, SubSeqProperties
    <3> HIDE DEF b, n
    <3>3. ASSUME NEW i \in 1 .. n - k
          PROVE  b[i] = q[k + i]
      <4>1. i \in 1 .. n - (k + 1) + 1 /\ k + 1 + i - 1 = k + i
        BY <1>1, <2>0
      <4> QED BY <3>2, <4>1
    <3>4. Len(b) = n - k
      BY <1>1, <2>0, <3>2
    <3> QED BY <3>2, <3>3, <3>4
  <2>7. r = a \o b
    BY DEF RemoveAt
  <2> HIDE DEF a, b, r
  <2>8. r \in Seq(S) /\ Shrunk(q, r, k)
    <3> HIDE DEF n
    <3>1. /\ r \in Seq(S) /\ Len(r) = Len(a) + Len(b)
          /\ \A i \in 1 .. Len(a) + Len(b) : r[i] = IF i <= Len(a) THEN a[i] ELSE b[i - Len(a)]
      BY <2>5, <2>6, <2>7, ConcatProperties
    <3>2. ASSUME NEW i \in 1 .. n - 1
          PROVE r[i] = q[IF i < k THEN i ELSE i + 1]
      <4>1. CASE i < k
        BY <1>1, <2>0, <2>5, <2>6, <3>1, <4>1
      <4>2. CASE ~(i < k)
        <5>1. r[i] = b[i - Len(a)] /\ i - Len(a) \in 1 .. n - k /\ k + (i - Len(a)) = i + 1
          BY <1>1, <2>0, <2>5, <2>6, <3>1, <4>2
        <5> QED BY <2>6, <4>2, <5>1
      <4> QED BY <4>1, <4>2
    <3>3. Len(r) = n - 1
      BY <1>1, <2>0, <2>5, <2>6, <3>1
    <3> QED BY <2>0, <3>1, <3>2, <3>3 DEF Shrunk, n
  <2> QED BY <1>1, <2>0, <2>4, <2>8
<1> QED BY <1>2, <1>3

\* The requests for h that are left when one item goes.
LEMMA ShrunkAdds ==
    ASSUME NEW S, NEW q \in Seq(S), NEW r \in Seq(S), NEW k, Shrunk(q, r, k), NEW h
    PROVE  Cardinality(Adds(r, h)) =
             IF k \in Adds(q, h) THEN Cardinality(Adds(q, h)) - 1 ELSE Cardinality(Adds(q, h))
<1> DEFINE A == Adds(q, h) \ {k}
           f == [i \in A |-> IF i < k THEN i ELSE i - 1]
<1>1. /\ DOMAIN q = 1 .. Len(q) /\ Len(q) \in Nat /\ k \in 1 .. Len(q)
      /\ DOMAIN r = 1 .. Len(q) - 1
      /\ \A i \in 1 .. Len(q) - 1 : r[i] = q[IF i < k THEN i ELSE i + 1]
  BY DEF Shrunk
<1>2. IsFiniteSet(Adds(q, h)) /\ IsFiniteSet(A)
  BY IndicesFinite DEF Adds
<1>3. ASSUME NEW i \in A
      PROVE  f[i] \in Adds(r, h) /\ f[i] \in Int
  <2>1. i \in 1 .. Len(q) /\ i # k
    BY <1>1 DEF Adds
  <2>2. CASE i < k
    <3>1. f[i] = i /\ i \in 1 .. Len(q) - 1 /\ r[i] = q[i]
      BY <1>1, <2>1, <2>2
    <3> QED BY <1>1, <3>1 DEF Adds
  <2>3. CASE ~(i < k)
    <3>1. f[i] = i - 1 /\ i - 1 \in 1 .. Len(q) - 1 /\ ~(i - 1 < k) /\ i - 1 + 1 = i
      BY <1>1, <2>1, <2>3
    <3>2. r[i - 1] = q[i]
      BY <1>1, <3>1
    <3> QED BY <1>1, <3>1, <3>2 DEF Adds
  <2> QED BY <2>2, <2>3
<1>4. f \in [A -> Adds(r, h)]
  BY <1>3
<1>5. ASSUME NEW i \in A, NEW j \in A, f[i] = f[j]
      PROVE  i = j
  <2>1. i \in Int /\ j \in Int /\ i # k /\ j # k /\ k \in Int
    BY <1>1 DEF Adds
  <2> QED BY <1>5, <2>1
<1>6. ASSUME NEW t \in Adds(r, h)
      PROVE  \E i \in A : f[i] = t
  <2>1. t \in 1 .. Len(q) - 1
    BY <1>1 DEF Adds
  <2>2. CASE t < k
    <3>1. t \in A
      BY <1>1, <2>1, <2>2 DEF Adds
    <3> QED BY <2>2, <3>1
  <2>3. CASE ~(t < k)
    <3>1. t + 1 \in 1 .. Len(q) /\ t + 1 # k /\ r[t] = q[t + 1] /\ ~(t + 1 < k) /\ t + 1 - 1 = t
      BY <1>1, <2>1, <2>3
    <3>2. t + 1 \in A
      BY <1>1, <3>1 DEF Adds
    <3>3. f[t + 1] = t
      <4>1. \A i \in A : ~(i < k) => f[i] = i - 1
        OBVIOUS
      <4> HIDE DEF f, A
      <4>2. PICK u \in A : u = t + 1 /\ u \in Int /\ t \in Int
        BY <1>1, <2>1, <3>2
      <4> QED BY <3>1, <4>1, <4>2
    <3> QED BY <3>2, <3>3
  <2> QED BY <2>2, <2>3
<1> HIDE DEF f, A
<1>7. Cardinality(Adds(r, h)) = Cardinality(A)
  BY <1>2, <1>4, <1>5, <1>6, SameCount
<1>8. CASE k \in Adds(q, h)
  BY <1>2, <1>7, <1>8, FS_RemoveElement DEF A
<1>9. CASE k \notin Adds(q, h)
  BY <1>7, <1>9 DEF A
<1> QED BY <1>8, <1>9

LEMMA AppendAdds ==
    ASSUME NEW S, NEW q \in Seq(S), NEW w \in S, NEW h
    PROVE  Cardinality(Adds(Append(q, w), h)) =
             Cardinality(Adds(q, h)) + (IF w.code = "add" /\ w.handle = h THEN 1 ELSE 0)
<1> DEFINE r == Append(q, w)
           n == Len(q) + 1
<1>1. /\ DOMAIN q = 1 .. Len(q) /\ Len(q) \in Nat
      /\ DOMAIN r = 1 .. n /\ r[n] = w
      /\ \A i \in 1 .. Len(q) : r[i] = q[i]
  OBVIOUS
<1>2. IsFiniteSet(Adds(q, h)) /\ Cardinality(Adds(q, h)) \in Nat /\ n \notin Adds(q, h)
  BY <1>1, IndicesFinite DEF Adds
<1> HIDE DEF r
<1>3. CASE w.code = "add" /\ w.handle = h
  <2>1. Adds(r, h) = Adds(q, h) \cup {n}
    BY <1>1, <1>3 DEF Adds
  <2> QED BY <1>2, <1>3, <2>1, FS_AddElement DEF r
<1>4. CASE ~(w.code = "add" /\ w.handle = h)
  <2>1. Adds(r, h) = Adds(q, h)
    BY <1>1, <1>4 DEF Adds
  <2> QED BY <1>2, <1>4, <2>1 DEF r
<1> QED BY <1>3, <1>4

\* A new entry goes to the front of svclist.
LEMMA PrependEntries ==
    ASSUME NEW S, NEW q \in Seq(S), NEW e \in S, NEW h
    PROVE  /\ <<e>> \o q \in Seq(S)
           /\ DOMAIN (<<e>> \o q) = 1 .. Len(q) + 1 /\ DOMAIN q = 1 .. Len(q) /\ Len(q) \in Nat
           /\ (<<e>> \o q)[1] = e
           /\ \A i \in DOMAIN q : i + 1 \in DOMAIN (<<e>> \o q) /\ (<<e>> \o q)[i + 1] = q[i]
           /\ \A i \in DOMAIN (<<e>> \o q) : i # 1 => i - 1 \in DOMAIN q /\ (<<e>> \o q)[i] = q[i - 1]
           /\ Cardinality(Entries(<<e>> \o q, h)) =
                Cardinality(Entries(q, h)) + (IF e.handle = h THEN 1 ELSE 0)
<1> DEFINE r == <<e>> \o q
           n == Len(q)
           A == {i \in DOMAIN r : i # 1 /\ r[i].handle = h}
           f == [i \in Entries(q, h) |-> i + 1]
<1>1. /\ r \in Seq(S) /\ DOMAIN q = 1 .. n /\ n \in Nat
      /\ DOMAIN r = 1 .. n + 1 /\ r[1] = e
      /\ \A i \in 2 .. n + 1 : r[i] = q[i - 1]
  OBVIOUS
<1> HIDE DEF r, n
<1>2. \A i \in DOMAIN q : i + 1 \in DOMAIN r /\ r[i + 1] = q[i]
  <2> TAKE i \in DOMAIN q
  <2>1. i + 1 \in 2 .. n + 1 /\ i + 1 - 1 = i
    BY <1>1
  <2> QED BY <1>1, <2>1
<1>3. \A i \in DOMAIN r : i # 1 => i - 1 \in DOMAIN q /\ r[i] = q[i - 1]
  BY <1>1
<1>4. IsFiniteSet(Entries(q, h)) /\ Cardinality(Entries(q, h)) \in Nat
  BY IndicesFinite DEF Entries
<1>5. f \in [Entries(q, h) -> A] /\ \A i \in Entries(q, h) : i \in Nat
  BY <1>1, <1>2 DEF Entries
<1>6. \A i, j \in Entries(q, h) : f[i] = f[j] => i = j
  BY <1>5
<1>7. ASSUME NEW t \in A
      PROVE  \E i \in Entries(q, h) : f[i] = t
  <2>1. t - 1 \in Entries(q, h) /\ t - 1 + 1 = t
    BY <1>1, <1>3 DEF Entries
  <2> QED BY <2>1
<1> HIDE DEF f
<1>8. IsFiniteSet(A) /\ Cardinality(A) = Cardinality(Entries(q, h))
  BY <1>4, <1>5, <1>6, <1>7, SameCount
<1>9. Cardinality(Entries(r, h)) = Cardinality(Entries(q, h)) + (IF e.handle = h THEN 1 ELSE 0)
  <2>1. CASE e.handle = h
    <3>1. Entries(r, h) = A \cup {1} /\ 1 \notin A
      BY <1>1, <2>1 DEF Entries
    <3> QED BY <1>8, <2>1, <3>1, FS_AddElement
  <2>2. CASE e.handle # h
    <3>1. Entries(r, h) = A
      BY <1>1, <2>2 DEF Entries
    <3> QED BY <1>4, <1>8, <2>2, <3>1
  <2> QED BY <2>1, <2>2
<1> QED BY <1>1, <1>2, <1>3, <1>9 DEF r, n

\* The handle of the entry at k changes, to 0 when it is forgotten.
LEMMA ChangedEntries ==
    ASSUME NEW S, NEW T, NEW q \in Seq(S), NEW r \in Seq(T), NEW k \in DOMAIN q, NEW h,
           DOMAIN r = DOMAIN q,
           \A i \in DOMAIN q : i # k => r[i].handle = q[i].handle
    PROVE  Cardinality(Entries(r, h)) =
             Cardinality(Entries(q, h)) - (IF q[k].handle = h THEN 1 ELSE 0)
                                        + (IF r[k].handle = h THEN 1 ELSE 0)
<1> DEFINE A == Entries(q, h) \ {k}
<1>1. IsFiniteSet(Entries(q, h)) /\ Cardinality(Entries(q, h)) \in Nat
  BY IndicesFinite DEF Entries
<1>2. IsFiniteSet(A) /\ Cardinality(A) = Cardinality(Entries(q, h)) - (IF q[k].handle = h THEN 1 ELSE 0)
  <2>1. CASE q[k].handle = h
    <3>1. k \in Entries(q, h)
      BY <2>1 DEF Entries
    <3> QED BY <1>1, <2>1, <3>1, FS_RemoveElement
  <2>2. CASE q[k].handle # h
    <3>1. A = Entries(q, h)
      BY <2>2 DEF Entries
    <3> HIDE DEF A
    <3> QED BY <1>1, <2>2, <3>1
  <2> QED BY <2>1, <2>2
<1>3. CASE r[k].handle = h
  <2>1. Entries(r, h) = A \cup {k} /\ k \notin A
    BY <1>3 DEF Entries
  <2> HIDE DEF A
  <2>2. Cardinality(Entries(r, h)) = Cardinality(A) + 1
    BY <1>2, <2>1, FS_AddElement
  <2> QED BY <1>1, <1>2, <1>3, <2>2
<1>4. CASE r[k].handle # h
  <2>1. Entries(r, h) = A
    BY <1>4 DEF Entries
  <2>2. Cardinality(A) \in Nat
    BY <1>2, FS_CardinalityType
  <2> QED BY <1>2, <1>4, <2>1, <2>2
<1> QED BY <1>3, <1>4

-----------------------------------------------------------------------------
(* The inbox *)

LEMMA HandleNat == Handle \subseteq Nat \ {0}
<1>1. Cardinality(Service) \in Nat
  BY ManagerAssumption, FS_CardinalityType
<1> QED BY <1>1 DEF Handle

LEMMA DeadFields ==
    ASSUME NEW h \in Handle
    PROVE  /\ Dead(h) \in Request
           /\ Dead(h).code = "dead" /\ Dead(h).handle = h
BY DEF Dead, Blank, Request

LEMMA InboxShrunk ==
    ASSUME NEW r, NEW lv, NEW ls, NEW q, NEW p, NEW k,
           Inbox(r, lv, ls, q), p \in Seq(Request), Shrunk(q, p, k)
    PROVE  Inbox(r, lv, ls, p)
<1>1. /\ DOMAIN q = 1 .. Len(q) /\ Len(q) \in Nat /\ k \in 1 .. Len(q)
      /\ DOMAIN p = 1 .. Len(q) - 1
      /\ \A i \in 1 .. Len(q) - 1 : p[i] = q[IF i < k THEN i ELSE i + 1]
  BY DEF Inbox, Shrunk
<1> DEFINE g(i) == IF i < k THEN i ELSE i + 1
<1>2. \A i \in DOMAIN p : g(i) \in DOMAIN q /\ p[i] = q[g(i)] /\ g(i) # k
  BY <1>1
<1>3. \A i, j \in DOMAIN p : i < j => g(i) < g(j)
  BY <1>1
<1> HIDE DEF g
<1>4. \A i \in DOMAIN p : Item(r, lv, ls, p[i])
  BY <1>2 DEF Inbox
<1>5. \A i, j \in DOMAIN p : i < j => MayFollow(p[i], p[j])
  BY <1>2, <1>3 DEF Inbox
<1> QED BY <1>4, <1>5 DEF Inbox

LEMMA ShrunkItem ==
    ASSUME NEW S, NEW q \in Seq(S), NEW r \in Seq(S), NEW k, Shrunk(q, r, k), NEW i \in DOMAIN r
    PROVE  \E j \in DOMAIN q : j # k /\ r[i] = q[j]
<1>1. i \in 1 .. Len(q) - 1 /\ r[i] = q[IF i < k THEN i ELSE i + 1] /\ k \in Nat /\ Len(q) \in Nat
  BY DEF Shrunk
<1>2. (IF i < k THEN i ELSE i + 1) \in DOMAIN q /\ (IF i < k THEN i ELSE i + 1) # k
  BY <1>1
<1> QED BY <1>1, <1>2

LEMMA InboxAppend ==
    ASSUME NEW r, NEW lv, NEW ls, NEW q, NEW w \in Request,
           Inbox(r, lv, ls, q), Item(r, lv, ls, w), \A i \in DOMAIN q : MayFollow(q[i], w)
    PROVE  Inbox(r, lv, ls, Append(q, w))
<1> DEFINE p == Append(q, w)
<1>1. /\ p \in Seq(Request) /\ DOMAIN q = 1 .. Len(q) /\ Len(q) \in Nat
      /\ DOMAIN p = 1 .. Len(q) + 1 /\ p[Len(q) + 1] = w
      /\ \A i \in 1 .. Len(q) : p[i] = q[i]
  BY DEF Inbox
<1> HIDE DEF p
<1>2. ASSUME NEW i \in DOMAIN p
      PROVE  Item(r, lv, ls, p[i])
  <2>1. CASE i \in DOMAIN q
    BY <1>1, <2>1 DEF Inbox
  <2>2. CASE i = Len(q) + 1
    BY <1>1, <2>2
  <2> QED BY <1>1, <2>1, <2>2
<1>3. ASSUME NEW i \in DOMAIN p, NEW j \in DOMAIN p, i < j
      PROVE  MayFollow(p[i], p[j])
  <2>1. i \in DOMAIN q /\ p[i] = q[i]
    BY <1>1, <1>3
  <2>2. CASE j \in DOMAIN q
    <3>1. p[j] = q[j]
      BY <1>1, <2>2
    <3> QED BY <1>3, <2>1, <2>2, <3>1 DEF Inbox
  <2>3. CASE j = Len(q) + 1
    BY <1>1, <2>1, <2>3
  <2> QED BY <1>1, <2>2, <2>3
<1> QED BY <1>1, <1>2, <1>3 DEF Inbox, p

LEMMA ShrunkPrepend ==
    ASSUME NEW S, NEW q \in Seq(S), NEW w \in S
    PROVE  <<w>> \o q \in Seq(S) /\ (<<w>> \o q)[1] = w /\ Shrunk(<<w>> \o q, q, 1)
<1> DEFINE p == <<w>> \o q
<1>1. /\ p \in Seq(S) /\ Len(p) = Len(q) + 1 /\ Len(q) \in Nat /\ p[1] = w
      /\ \A i \in 1 .. Len(q) : p[i + 1] = q[i]
  OBVIOUS
<1> HIDE DEF p
<1>2. Shrunk(p, q, 1)
  BY <1>1 DEF Shrunk
<1> QED BY <1>1, <1>2 DEF p

LEMMA InboxPrepend ==
    ASSUME NEW r, NEW lv, NEW ls, NEW q, NEW w \in Request,
           Inbox(r, lv, ls, q), Item(r, lv, ls, w), \A i \in DOMAIN q : MayFollow(w, q[i])
    PROVE  Inbox(r, lv, ls, <<w>> \o q)
<1> DEFINE p == <<w>> \o q
<1>1. p \in Seq(Request) /\ p[1] = w /\ Shrunk(p, q, 1) /\ q \in Seq(Request)
  BY ShrunkPrepend DEF Inbox
<1>2. /\ DOMAIN p = 1 .. Len(q) + 1 /\ DOMAIN q = 1 .. Len(q) /\ Len(q) \in Nat
      /\ \A i \in 1 .. Len(q) : p[i + 1] = q[i]
  BY <1>1
<1> HIDE DEF p
<1>3. ASSUME NEW i \in DOMAIN p, i # 1
      PROVE  i - 1 \in DOMAIN q /\ p[i] = q[i - 1]
  <2>1. i - 1 \in 1 .. Len(q) /\ (i - 1) + 1 = i
    BY <1>2, <1>3
  <2> QED BY <1>2, <2>1
<1>4. ASSUME NEW i \in DOMAIN p
      PROVE  Item(r, lv, ls, p[i])
  BY <1>1, <1>3 DEF Inbox
<1>5. ASSUME NEW i \in DOMAIN p, NEW j \in DOMAIN p, i < j
      PROVE  MayFollow(p[i], p[j])
  <2>1. j # 1 /\ i \in Nat /\ j \in Nat
    BY <1>2, <1>5
  <2>2. CASE i = 1
    BY <1>1, <1>3, <2>1, <2>2
  <2>3. CASE i # 1
    <3>1. i - 1 < j - 1
      BY <1>5, <2>1
    <3> QED BY <1>3, <2>1, <2>3, <3>1 DEF Inbox
  <2> QED BY <2>2, <2>3
<1> QED BY <1>1, <1>4, <1>5 DEF Inbox, p

\* References that have changed only in what the items do not speak of.
Kept(r, t) ==
    \A h \in Handle : r[h] # NULL =>
        /\ t[h] # NULL /\ t[h].service = r[h].service
        /\ r[h].cookie # NULL => t[h].cookie = r[h].cookie

LEMMA InboxKept ==
    ASSUME NEW r, NEW t, NEW lv, NEW ls, NEW q, Inbox(r, lv, ls, q), Kept(r, t)
    PROVE  Inbox(t, lv, ls, q)
<1>1. ASSUME NEW i \in DOMAIN q
      PROVE  Item(t, lv, ls, q[i])
  <2>1. PICK w \in Request : w = q[i]
    BY DEF Inbox
  <2>2. Item(r, lv, ls, w) /\ w.handle \in Handle \cup {0}
    BY <2>1 DEF Inbox, Request
  <2>3. Item(t, lv, ls, w)
    BY <2>2 DEF Item, Kept
  <2> QED BY <2>1, <2>3
<1> QED BY <1>1 DEF Inbox

-----------------------------------------------------------------------------
(* The driver *)

\* s is a state of the driver.
IsDriver(s) == s = [ref |-> s.ref, inbox |-> s.inbox]

\* What is released is no longer named, and the rest is as it was.
LEMMA ReleasedKeeps ==
    ASSUME NEW s, IsDriver(s), NEW lv, NEW ls, NEW h \in Handle,
           RefsFor(s.ref), Inbox(s.ref, lv, ls, s.inbox), s.ref[h] # NULL,
           s.ref[h].strong > Cardinality(Adds(s.inbox, h))
    PROVE  LET t == Released(s, h)
           IN /\ RefsFor(t.ref) /\ Inbox(t.ref, lv, ls, t.inbox)
              /\ \A k \in Handle : Strong(t.ref, k) = IF k = h THEN Strong(s.ref, h) - 1 ELSE Strong(s.ref, k)
              /\ \A k \in Handle : Cardinality(Adds(t.inbox, k)) = Cardinality(Adds(s.inbox, k))
              /\ \A k \in Handle : t.ref[k] # NULL =>
                    s.ref[k] # NULL /\ t.ref[k].service = s.ref[k].service
<1> DEFINE r == s.ref
           q == s.inbox
           t == Released(s, h)
<1>1. /\ r \in [Handle -> RefRec \cup {NULL}] /\ q \in Seq(Request)
      /\ r[h] \in RefRec /\ r[h].strong \in Nat /\ r[h].strong # 0
  BY DEF RefsFor, Inbox, RefRec
<1>2. CASE r[h].strong > 1
  <2>1. t = [s EXCEPT !.ref[h].strong = @ - 1]
    BY <1>2 DEF Released
  <2>2. t.ref = [r EXCEPT ![h].strong = @ - 1] /\ t.inbox = q
    BY <2>1 DEF IsDriver
  <2> HIDE DEF t, r, q
  <2>3. /\ t.ref \in [Handle -> RefRec \cup {NULL}]
        /\ \A k \in Handle : k # h => t.ref[k] = r[k]
        /\ t.ref[h] \in RefRec
        /\ t.ref[h].strong = r[h].strong - 1
        /\ t.ref[h].service = r[h].service /\ t.ref[h].cookie = r[h].cookie
    BY <1>1, <1>2, <2>2 DEF RefRec
  <2>4. t.ref[h] # NULL
    BY <2>3, NoReference
  <2>5. Kept(r, t.ref)
    BY <2>3, <2>4 DEF Kept
  <2>6. RefsFor(t.ref)
    BY <1>1, <1>2, <2>3, <2>4 DEF RefsFor, r
  <2> QED BY <1>1, <2>2, <2>3, <2>4, <2>5, <2>6, InboxKept DEF Strong, r, q, t
<1>3. CASE ~(r[h].strong > 1)
  <2>1. t = [ref |-> [r EXCEPT ![h] = NULL], inbox |-> RemoveFirst(q, Dead(h))]
    BY <1>3 DEF Released
  <2>2. t.ref = [r EXCEPT ![h] = NULL] /\ t.inbox = RemoveFirst(q, Dead(h))
    BY <2>1
  <2>3. r[h].strong = 1 /\ Cardinality(Adds(q, h)) = 0 /\ Adds(q, h) = {}
    <3>1. IsFiniteSet(Adds(q, h)) /\ Cardinality(Adds(q, h)) \in Nat
      BY <1>1, IndicesFinite DEF Adds
    <3>2. r[h].strong = 1 /\ Cardinality(Adds(q, h)) = 0
      BY <1>1, <1>3, <3>1
    <3> QED BY <3>1, <3>2, FS_EmptySet
  <2> HIDE DEF t, r, q
  <2>4. /\ t.ref \in [Handle -> RefRec \cup {NULL}]
        /\ \A k \in Handle : k # h => t.ref[k] = r[k]
        /\ t.ref[h] = NULL
    BY <1>1, <2>2
  <2>5. RefsFor(t.ref)
    BY <2>4 DEF RefsFor, r
  <2>6. \A k \in Handle : Strong(t.ref, k) = IF k = h THEN Strong(r, h) - 1 ELSE Strong(r, k)
    BY <2>3, <2>4 DEF Strong, r
  <2>7. /\ t.inbox \in Seq(Request)
        /\ \/ t.inbox = q /\ \A i \in DOMAIN q : q[i] # Dead(h)
           \/ \E k \in DOMAIN q : q[k] = Dead(h) /\ Shrunk(q, t.inbox, k)
    BY <1>1, <2>2, ShrunkRemove
  <2>8. /\ Inbox(r, lv, ls, t.inbox)
        /\ \A k \in Handle : Cardinality(Adds(t.inbox, k)) = Cardinality(Adds(q, k))
        /\ \A i \in DOMAIN t.inbox : /\ t.inbox[i] # Dead(h)
                                     /\ \E j \in DOMAIN q : t.inbox[i] = q[j]
    <3>1. CASE t.inbox = q /\ \A i \in DOMAIN q : q[i] # Dead(h)
      BY <3>1 DEF r, q
    <3>2. ASSUME NEW k \in DOMAIN q, q[k] = Dead(h), Shrunk(q, t.inbox, k)
          PROVE  <2>8!2 /\ <2>8!3 /\ <2>8!1
      <4>0. Inbox(r, lv, ls, q)
        BY DEF r, q
      <4>1. /\ Inbox(r, lv, ls, t.inbox)
            /\ \A i \in DOMAIN t.inbox : \E j \in DOMAIN q : j # k /\ t.inbox[i] = q[j]
        <5>1. PICK p \in Seq(Request) : p = t.inbox
          BY <2>7
        <5>2. Shrunk(q, p, k)
          BY <3>2, <5>1
        <5>3. Inbox(r, lv, ls, p)
          BY <4>0, <5>2, InboxShrunk
        <5>4. ASSUME NEW i \in DOMAIN p
              PROVE  \E j \in DOMAIN q : j # k /\ p[i] = q[j]
          BY <1>1, <5>2, ShrunkItem
        <5> QED BY <5>1, <5>3, <5>4
      <4>2. \A g \in Handle : k \notin Adds(q, g)
        BY <3>2, DeadFields DEF Adds
      <4>3. \A g \in Handle : Cardinality(Adds(t.inbox, g)) = Cardinality(Adds(q, g))
        BY <1>1, <2>7, <3>2, <4>2, ShrunkAdds
      <4>4. \A j \in DOMAIN q : j # k => q[j] # Dead(h)
        <5> SUFFICES ASSUME NEW j \in DOMAIN q, j # k, q[j] = Dead(h) PROVE FALSE
          OBVIOUS
        <5>1. j \in Nat /\ k \in Nat /\ (j < k \/ k < j)
          BY <1>1
        <5>2. MayFollow(Dead(h), Dead(h))
          BY <3>2, <5>1 DEF Inbox, q
        <5> QED BY <5>2, DeadFields DEF MayFollow
      <4> QED BY <4>1, <4>3, <4>4
    <3> QED BY <2>7, <3>1, <3>2
  <2>9. ASSUME NEW i \in DOMAIN t.inbox
        PROVE  Item(t.ref, lv, ls, t.inbox[i])
    <3>1. PICK j \in DOMAIN q : t.inbox[i] = q[j]
      BY <2>8
    <3>2. PICK w \in Request : w = q[j]
      BY <1>1
    <3>3. Item(r, lv, ls, w) /\ w.handle \in Handle \cup {0} /\ w # Dead(h)
      BY <2>8, <3>1, <3>2 DEF Inbox, Request, q, r
    <3>4. w.code = "add" => w.handle # h
      BY <2>3, <3>2 DEF Adds
    <3>5. w.code = "dead" => w.handle # h
      BY <3>3 DEF Item
    <3>6. Item(t.ref, lv, ls, w)
      BY <2>4, <3>3, <3>4, <3>5 DEF Item
    <3> QED BY <3>1, <3>2, <3>6
  <2>10. Inbox(t.ref, lv, ls, t.inbox)
    BY <2>8, <2>9 DEF Inbox
  <2> QED BY <2>4, <2>5, <2>6, <2>8, <2>10 DEF r, q, t
<1> QED BY <1>2, <1>3

LEMMA AcquiredKeeps ==
    ASSUME NEW s, IsDriver(s), NEW lv, NEW ls, NEW h \in Handle,
           RefsFor(s.ref), Inbox(s.ref, lv, ls, s.inbox), s.ref[h] # NULL
    PROVE  LET t == Acquired(s, h)
           IN /\ RefsFor(t.ref) /\ Inbox(t.ref, lv, ls, t.inbox) /\ t.inbox = s.inbox
              /\ \A k \in Handle : Strong(t.ref, k) = IF k = h THEN Strong(s.ref, h) + 1 ELSE Strong(s.ref, k)
              /\ \A k \in Handle : t.ref[k] # NULL =>
                    s.ref[k] # NULL /\ t.ref[k].service = s.ref[k].service
<1> DEFINE r == s.ref
           t == Acquired(s, h)
<1>1. r \in [Handle -> RefRec \cup {NULL}] /\ r[h] \in RefRec /\ r[h].strong \in Nat
  BY DEF RefsFor, RefRec
<1>2. t = [s EXCEPT !.ref[h].strong = @ + 1]
  BY DEF Acquired
<1>3. t.ref = [r EXCEPT ![h].strong = @ + 1] /\ t.inbox = s.inbox
  BY <1>2 DEF IsDriver
<1> HIDE DEF t, r
<1>4. /\ t.ref \in [Handle -> RefRec \cup {NULL}]
      /\ \A k \in Handle : k # h => t.ref[k] = r[k]
      /\ t.ref[h] \in RefRec
      /\ t.ref[h].strong = r[h].strong + 1
      /\ t.ref[h].service = r[h].service /\ t.ref[h].cookie = r[h].cookie
  BY <1>1, <1>3 DEF RefRec
<1>5. t.ref[h] # NULL
  BY <1>4, NoReference
<1>6. Kept(r, t.ref)
  BY <1>4, <1>5 DEF Kept
<1>7. RefsFor(t.ref)
  BY <1>1, <1>4, <1>5 DEF RefsFor, r
<1>8. Inbox(t.ref, lv, ls, t.inbox)
  BY <1>3, <1>6, InboxKept DEF r
<1>9. \A k \in Handle : Strong(t.ref, k) = IF k = h THEN Strong(r, h) + 1 ELSE Strong(r, k)
  BY <1>4, <1>5 DEF Strong, r
<1> QED BY <1>3, <1>4, <1>7, <1>8, <1>9 DEF r, t

LEMMA LinkedKeeps ==
    ASSUME NEW s, IsDriver(s), NEW ls, NEW h \in Handle, NEW nm \in Name,
           RefsFor(s.ref), Inbox(s.ref, live, ls, s.inbox), s.ref[h] # NULL,
           <<nm, s.ref[h].service>> \in Pairs
    PROVE  LET t == Linked(s, h, nm)
           IN /\ RefsFor(t.ref) /\ Inbox(t.ref, live, ls, t.inbox)
              /\ \A k \in Handle : Strong(t.ref, k) = Strong(s.ref, k)
              /\ \A k \in Handle : Cardinality(Adds(t.inbox, k)) = Cardinality(Adds(s.inbox, k))
              /\ \A k \in Handle : t.ref[k] # NULL =>
                    s.ref[k] # NULL /\ t.ref[k].service = s.ref[k].service
<1> DEFINE r == s.ref
           q == s.inbox
           t == Linked(s, h, nm)
<1>1. CASE r[h].cookie # NULL
  <2>1. t = s
    BY <1>1 DEF Linked
  <2> QED BY <2>1
<1>2. CASE r[h].cookie = NULL
  <2>1. /\ r \in [Handle -> RefRec \cup {NULL}] /\ r[h] \in RefRec /\ q \in Seq(Request)
        /\ nm # NULL
    BY ManagerAssumption DEF RefsFor, Inbox
  <2>2. /\ t.ref = [r EXCEPT ![h].cookie = nm]
        /\ t.inbox = IF r[h].service \in live THEN q ELSE <<Dead(h)>> \o q
    BY <1>2 DEF Linked
  <2> HIDE DEF t, r, q
  <2>3. /\ t.ref \in [Handle -> RefRec \cup {NULL}]
        /\ \A k \in Handle : k # h => t.ref[k] = r[k]
        /\ t.ref[h] \in RefRec
        /\ t.ref[h].strong = r[h].strong
        /\ t.ref[h].service = r[h].service /\ t.ref[h].cookie = nm
    BY <2>1, <2>2 DEF RefRec
  <2>4. t.ref[h] # NULL
    BY <2>3, NoReference
  <2>5. Kept(r, t.ref)
    BY <1>2, <2>3, <2>4 DEF Kept
  <2>6. RefsFor(t.ref)
    BY <2>3, <2>4 DEF RefsFor, r
  <2>7. Inbox(t.ref, live, ls, q)
    BY <2>5, InboxKept DEF r, q
  <2>8. \A k \in Handle : Strong(t.ref, k) = Strong(r, k)
    BY <2>3, <2>4 DEF Strong, r
  <2>9. CASE r[h].service \in live
    BY <2>2, <2>3, <2>6, <2>7, <2>8, <2>9 DEF r, q, t
  <2>10. CASE r[h].service \notin live
    <3>1. Dead(h) \in Request /\ Dead(h).code = "dead" /\ Dead(h).handle = h
      BY DeadFields
    <3>2. Item(t.ref, live, ls, Dead(h))
      BY <2>1, <2>3, <2>4, <2>10, <3>1 DEF Item
    <3>3. ASSUME NEW i \in DOMAIN q
          PROVE  MayFollow(Dead(h), q[i])
      <4>1. PICK w \in Request : w = q[i]
        BY <2>1
      <4>2. Item(r, live, ls, w)
        BY <4>1 DEF Inbox, r, q
      <4>3. w.code = "dead" => w.handle # h
        BY <1>2, <4>2 DEF Item, r
      <4> QED BY <3>1, <4>1, <4>3 DEF MayFollow
    <3>4. Inbox(t.ref, live, ls, t.inbox)
      <4>1. t.inbox = <<Dead(h)>> \o q
        BY <2>2, <2>10
      <4>2. Inbox(t.ref, live, ls, <<Dead(h)>> \o q)
        BY <2>7, <3>1, <3>2, <3>3, InboxPrepend
      <4> QED BY <4>1, <4>2
    <3>5. \A k \in Handle : Cardinality(Adds(t.inbox, k)) = Cardinality(Adds(q, k))
      <4> TAKE k \in Handle
      <4>0. PICK p : p = <<Dead(h)>> \o q
        OBVIOUS
      <4>1. p \in Seq(Request) /\ p[1] = Dead(h) /\ Shrunk(p, q, 1)
        BY <2>1, <3>1, <4>0, ShrunkPrepend
      <4>3. 1 \notin Adds(p, k)
        BY <3>1, <4>1 DEF Adds
      <4>4. Cardinality(Adds(q, k)) = Cardinality(Adds(p, k))
        BY <2>1, <4>1, <4>3, ShrunkAdds
      <4> QED BY <2>2, <2>10, <4>0, <4>4
    <3> QED BY <2>3, <2>6, <2>8, <3>4, <3>5 DEF r, q, t
  <2> QED BY <2>9, <2>10
<1> QED BY <1>1, <1>2

\* binder_get_ref_for_node finds the handle of the service, or a free one: there are as
\* many handles as services.
LEMMA DescKeeps ==
    ASSUME NEW s, NEW svc \in Service, RefsFor(s.ref)
    PROVE  LET d == DescFor(s, svc)
           IN /\ d \in Handle
              /\ \/ s.ref[d] # NULL /\ s.ref[d].service = svc
                 \/ s.ref[d] = NULL /\ \A k \in Handle : s.ref[k] # NULL => s.ref[k].service # svc
<1> DEFINE d == DescFor(s, svc)
           r == s.ref
           H == HandleOf(s, svc)
           F == {h \in Handle : r[h] = NULL}
<1>1. CASE H # {}
  <2>1. d \in H
    BY <1>1 DEF DescFor
  <2> QED BY <2>1 DEF HandleOf
<1>2. CASE H = {}
  <2>1. \A k \in Handle : r[k] # NULL => r[k].service # svc
    BY <1>2 DEF HandleOf
  <2>2. F # {}
    <3> SUFFICES ASSUME F = {} PROVE FALSE
      OBVIOUS
    <3> DEFINE f == [h \in Handle |-> r[h].service]
               T == Service \ {svc}
    <3>1. \A h \in Handle : r[h] # NULL /\ r[h] \in RefRec /\ r[h].service \in T
      BY <2>1 DEF RefsFor, RefRec
    <3>2. f \in [Handle -> T]
      BY <3>1
    <3>3. /\ IsFiniteSet(Service) /\ Cardinality(Service) \in Nat
          /\ IsFiniteSet(T) /\ Cardinality(T) = Cardinality(Service) - 1
      BY ManagerAssumption, FS_CardinalityType, FS_RemoveElement
    <3>4. IsFiniteSet(Handle) /\ Cardinality(Handle) = Cardinality(Service)
      <4>0. Cardinality(Service) # 0
        BY <3>3, FS_EmptySet
      <4>1. /\ IsFiniteSet(1 .. Cardinality(Service))
            /\ Cardinality(1 .. Cardinality(Service)) =
                  IF 1 > Cardinality(Service) THEN 0 ELSE Cardinality(Service) - 1 + 1
        BY <3>3, FS_Interval
      <4> QED BY <3>3, <4>0, <4>1 DEF Handle
    <3>5. Cardinality(T) < Cardinality(Handle)
      BY <3>3, <3>4
    <3> HIDE DEF f, T
    <3>6. \E x, y \in Handle : x # y /\ f[x] = f[y]
      BY <3>2, <3>3, <3>4, <3>5, FS_PigeonHole
    <3> QED BY <3>1, <3>6 DEF RefsFor, f
  <2>3. Min(F) \in F
    BY <2>2, MinIn, HandleNat
  <2>4. d = Min(F)
    BY <1>2 DEF DescFor
  <2> QED BY <2>1, <2>3, <2>4
<1> QED BY <1>1, <1>2

LEMMA ReceivedKeeps ==
    ASSUME NEW s, IsDriver(s), NEW lv, NEW ls, NEW svc \in Service,
           RefsFor(s.ref), Inbox(s.ref, lv, ls, s.inbox)
    PROVE  LET t == Received(s, svc)
               d == DescFor(s, svc)
           IN /\ RefsFor(t.ref) /\ Inbox(t.ref, lv, ls, t.inbox) /\ t.inbox = s.inbox
              /\ d \in Handle /\ t.ref[d] # NULL /\ t.ref[d].service = svc
              /\ \A k \in Handle : Strong(t.ref, k) = IF k = d THEN Strong(s.ref, d) + 1 ELSE Strong(s.ref, k)
              /\ \A k \in Handle : s.ref[k] # NULL =>
                    t.ref[k] # NULL /\ t.ref[k].service = s.ref[k].service
<1> DEFINE r == s.ref
           d == DescFor(s, svc)
           t == Received(s, svc)
           new == IF r[d] = NULL THEN [service |-> svc, strong |-> 1, cookie |-> NULL, told |-> FALSE]
                  ELSE [r[d] EXCEPT !.strong = r[d].strong + 1]
<1>1. /\ d \in Handle
      /\ \/ r[d] # NULL /\ r[d].service = svc
         \/ r[d] = NULL /\ \A k \in Handle : r[k] # NULL => r[k].service # svc
  BY DescKeeps
<1>2. t = [s EXCEPT !.ref[d] = new]
  BY DEF Received
<1>3. t.ref = [r EXCEPT ![d] = new] /\ t.inbox = s.inbox
  BY <1>2 DEF IsDriver
<1>4. r \in [Handle -> RefRec \cup {NULL}]
  BY DEF RefsFor
<1> HIDE DEF t, r, d
<1>5. /\ new \in RefRec /\ new.service = svc
      /\ new.strong = (IF r[d] = NULL THEN 0 ELSE r[d].strong) + 1 /\ new.strong \in Nat \ {0}
      /\ new.cookie = IF r[d] = NULL THEN NULL ELSE r[d].cookie
  <2>1. CASE r[d] = NULL
    BY <2>1 DEF RefRec
  <2>2. CASE r[d] # NULL
    BY <1>1, <1>4, <2>2 DEF RefRec
  <2> QED BY <2>1, <2>2
<1> HIDE DEF new
<1>6. /\ t.ref \in [Handle -> RefRec \cup {NULL}]
      /\ \A k \in Handle : k # d => t.ref[k] = r[k]
      /\ t.ref[d] = new /\ new # NULL
  BY <1>1, <1>3, <1>4, <1>5, NoReference
<1>7. Kept(r, t.ref)
  BY <1>1, <1>5, <1>6 DEF Kept
<1>8. RefsFor(t.ref)
  <2>1. \A h \in Handle : t.ref[h] # NULL => t.ref[h].strong # 0
    BY <1>5, <1>6 DEF RefsFor, r
  <2>2. \A h, k \in Handle : t.ref[h] # NULL /\ t.ref[k] # NULL /\ t.ref[h].service = t.ref[k].service => h = k
    BY <1>1, <1>5, <1>6 DEF RefsFor, r
  <2>3. \A h \in Handle : t.ref[h] # NULL /\ t.ref[h].cookie # NULL => <<t.ref[h].cookie, t.ref[h].service>> \in Pairs
    BY <1>1, <1>5, <1>6 DEF RefsFor, r
  <2> QED BY <1>6, <2>1, <2>2, <2>3 DEF RefsFor
<1>9. Inbox(t.ref, lv, ls, t.inbox)
  BY <1>3, <1>7, InboxKept DEF r
<1>10. \A k \in Handle : Strong(t.ref, k) = IF k = d THEN Strong(r, d) + 1 ELSE Strong(r, k)
  BY <1>5, <1>6 DEF Strong
<1>11. \A k \in Handle : r[k] # NULL => t.ref[k] # NULL /\ t.ref[k].service = r[k].service
  BY <1>7 DEF Kept
<1> QED BY <1>1, <1>3, <1>5, <1>6, <1>8, <1>9, <1>10, <1>11 DEF r, t, d

-----------------------------------------------------------------------------
(* The steps of the clients *)

LEMMA CountsNat ==
    ASSUME ManagerInv, NEW h
    PROVE  Cardinality(Entries(svclist, h)) \in Nat /\ Cardinality(Adds(inbox, h)) \in Nat
<1>1. svclist \in Seq(Entry) /\ inbox \in Seq(Request)
  BY DEF ManagerInv, ManagerTypeOK, InboxOK, Inbox
<1> QED BY <1>1, IndicesFinite DEF Entries, Adds

\* A handle in the list has a reference.
LEMMA EntryHeld ==
    ASSUME NEW list \in Seq(Entry), NEW q \in Seq(Request), NEW o, NEW r, NEW h \in Handle,
           NEW i \in DOMAIN list, list[i].handle = h,
           Strong(r, h) = Cardinality(Entries(list, h)) + Cardinality(Adds(q, h)) + Pending(o, h)
    PROVE  r[h] # NULL /\ Cardinality(Entries(list, h)) > 0
<1>1. /\ IsFiniteSet(Entries(list, h)) /\ Cardinality(Entries(list, h)) \in Nat
      /\ Cardinality(Adds(q, h)) \in Nat
  BY IndicesFinite DEF Entries, Adds
<1>2. Cardinality(Entries(list, h)) # 0
  <2>1. i \in Entries(list, h)
    BY DEF Entries
  <2> QED BY <1>1, <2>1, FS_EmptySet
<1>3. Pending(o, h) \in Nat
  BY DEF Pending
<1> QED BY <1>1, <1>2, <1>3 DEF Strong

LEMMA EntryHandle ==
    ASSUME NEW list \in Seq(Entry), NEW i \in DOMAIN list
    PROVE  /\ list[i] \in Entry /\ list[i].name \in Name
           /\ list[i].handle # 0 => list[i].handle \in Handle
<1>1. PICK e \in Entry : e = list[i]
  OBVIOUS
<1>2. e.name \in Name /\ e.handle \in Handle \cup {0}
  BY DEF Entry
<1> QED BY <1>1, <1>2

LEMMA NamesAre ==
    ASSUME NEW list \in Seq(Entry)
    PROVE  NamesIn(list) \subseteq Name
<1> SUFFICES ASSUME NEW i \in DOMAIN list PROVE list[i].name \in Name
  BY DEF NamesIn
<1> QED BY EntryHandle

LEMMA DriverIs ==
    /\ IsDriver(Driver) /\ Driver.ref = ref /\ Driver.inbox = inbox
    /\ IsDriver(Rest) /\ Rest.ref = ref /\ Rest.inbox = Tail(inbox)
<1>1. IsDriver(Driver) /\ Driver.ref = ref /\ Driver.inbox = inbox
  BY DEF IsDriver, Driver
<1>2. Rest = [ref |-> ref, inbox |-> Tail(inbox)]
  <2>1. PICK q : q = Tail(inbox)
    OBVIOUS
  <2>2. Rest = [Driver EXCEPT !.inbox = q]
    BY <1>1, <2>1 DEF Rest
  <2>3. [Driver EXCEPT !.inbox = q] = [ref |-> ref, inbox |-> q]
    BY DEF Driver
  <2> QED BY <2>1, <2>2, <2>3
<1>3. IsDriver(Rest) /\ Rest.ref = ref /\ Rest.inbox = Tail(inbox)
  BY <1>2 DEF IsDriver
<1> QED BY <1>1, <1>3

LEMMA BlankFields ==
    /\ Blank \in Request /\ Blank.code = "other" /\ Blank.handle = 0
    /\ NoAnswer \in [found: Service \cup {NULL}, name: Name \cup {NULL}, isolated: BOOLEAN]
    /\ NoAnswer.name = NULL
BY DEF Blank, Request, NoAnswer

\* A request w without a handle waits for servicemanager.
LEMMA AskKeeps ==
    ASSUME ManagerInv, NEW w \in Request, Ask(w), w.handle = 0,
           Item(ref, live, lister', w), Inbox(ref, live, lister', inbox),
           \A i \in DOMAIN inbox : MayFollow(inbox[i], w),
           UNCHANGED <<live, ref, svclist, op, published, relayed>>
    PROVE  RefsOK' /\ InboxOK' /\ ListOK' /\ OpOK' /\ Balanced' /\ (Gone => Gone')
<1>1. inbox' = Append(inbox, w) /\ inbox \in Seq(Request)
  BY DEF Ask, ManagerInv, InboxOK, Inbox
<1>2. PICK ls : ls = lister'
  OBVIOUS
<1>3. Inbox(ref, live, ls, Append(inbox, w))
  BY <1>2, InboxAppend
<1>4. RefsOK' /\ ListOK' /\ OpOK' /\ (Gone => Gone')
  BY DEF ManagerInv, RefsOK, ListOK, OpOK, Gone
<1>5. ASSUME NEW h \in Handle
      PROVE  Cardinality(Adds(Append(inbox, w), h)) = Cardinality(Adds(inbox, h))
  <2>1. h # 0
    BY HandleNat
  <2>2. Cardinality(Adds(Append(inbox, w), h)) = Cardinality(Adds(inbox, h)) + 0
    BY <1>1, <2>1, AppendAdds
  <2> QED BY <2>2, CountsNat
<1>6. Balanced'
  BY <1>1, <1>5 DEF ManagerInv, Balanced
<1> QED BY <1>1, <1>2, <1>3, <1>4, <1>6 DEF InboxOK

LEMMA ListingSame ==
    ASSUME ListingOK, UNCHANGED <<svclist, lister>>
    PROVE  ListingOK'
BY DEF ListingOK, ListComplete

LEMMA AskPlainKeeps ==
    ASSUME ManagerInv,
           AskAddNothing \/ AskOther \/ \E nm \in Name, isolated \in Isolations : AskFind(nm, isolated)
    PROVE  ManagerInv' /\ (Gone => Gone')
<1>1. PICK w \in Request : /\ Ask(w) /\ w.handle = 0
                           /\ w.code \in {"add", "other", "find"}
                           /\ w.code = "find" => w.name \in Name
  <2>1. CASE AskAddNothing
    <3> DEFINE w == [Blank EXCEPT !.code = "add"]
    <3>1. Ask(w)
      BY <2>1 DEF AskAddNothing
    <3>2. w \in Request /\ w.handle = 0 /\ w.code = "add"
      BY DEF Blank, Request
    <3> QED BY <3>1, <3>2
  <2>2. CASE AskOther
    BY <2>2, BlankFields DEF AskOther
  <2>3. ASSUME NEW nm \in Name, NEW isolated \in Isolations, AskFind(nm, isolated)
        PROVE  \E w \in Request : /\ Ask(w) /\ w.handle = 0
                                  /\ w.code \in {"add", "other", "find"}
                                  /\ w.code = "find" => w.name \in Name
    <3> DEFINE w == [Blank EXCEPT !.code = "find", !.name = nm, !.isolated = isolated]
    <3>1. Ask(w)
      BY <2>3 DEF AskFind
    <3>2. isolated \in BOOLEAN
      BY ManagerAssumption
    <3>3. w \in Request /\ w.handle = 0 /\ w.code = "find" /\ w.name = nm
      BY <3>2 DEF Blank, Request
    <3> QED BY <3>1, <3>3
  <2> QED BY <2>1, <2>2, <2>3
<1>2. UNCHANGED <<live, ref, svclist, op, published, relayed, lister>> /\ answer' = NoAnswer
  BY DEF AskAddNothing, AskOther, AskFind
<1>3. Item(ref, live, lister', w)
  BY <1>1 DEF Item
<1>4. ASSUME NEW i \in DOMAIN inbox
      PROVE  MayFollow(inbox[i], w)
  <2>1. PICK x \in Request : x = inbox[i]
    BY DEF ManagerInv, InboxOK, Inbox
  <2>2. Item(ref, live, lister, x)
    BY <2>1 DEF ManagerInv, InboxOK, Inbox
  <2>3. x.code = "dead" => x.handle # 0
    BY <2>2, HandleNat DEF Item
  <2> QED BY <1>1, <2>1, <2>3 DEF MayFollow
<1>5. RefsOK' /\ InboxOK' /\ ListOK' /\ OpOK' /\ Balanced' /\ (Gone => Gone')
  <2>1. Inbox(ref, live, lister', inbox)
    BY <1>2 DEF ManagerInv, InboxOK
  <2> QED BY <1>1, <1>2, <1>3, <1>4, <2>1, AskKeeps
<1>6. ManagerTypeOK' /\ ListingOK'
  BY <1>2, ListingSame, BlankFields DEF ManagerInv, ManagerTypeOK
<1> QED BY <1>5, <1>6 DEF ManagerInv

LEMMA AskListKeeps ==
    ASSUME ManagerInv, AskList
    PROVE  ManagerInv' /\ (Gone => Gone')
<1> DEFINE w == [Blank EXCEPT !.code = "list", !.n = lister.n]
<1>1. /\ lister.state = "idle" /\ Ask(w)
      /\ lister' = [lister EXCEPT !.state = "asked", !.n = @ + 1,
                                  !.unseen = IF lister.n = 0 THEN NamesIn(svclist) ELSE @]
      /\ answer' = NoAnswer
      /\ UNCHANGED <<live, ref, svclist, op, published, relayed>>
  BY DEF AskList
<1>2. /\ lister \in [n: Nat, unseen: SUBSET Name, state: {"idle", "asked", "done"}]
      /\ svclist \in Seq(Entry)
  BY DEF ManagerInv, ManagerTypeOK
<1>3. w \in Request /\ w.handle = 0 /\ w.code = "list" /\ w.n = lister.n
  BY <1>2 DEF Blank, Request
<1> HIDE DEF w
<1>4. NamesIn(svclist) \subseteq Name
  BY <1>2, NamesAre
<1>5. /\ lister'.state = "asked" /\ lister'.n = lister.n + 1
      /\ lister'.unseen = IF lister.n = 0 THEN NamesIn(svclist) ELSE lister.unseen
      /\ lister' \in [n: Nat, unseen: SUBSET Name, state: {"idle", "asked", "done"}]
  <2>1. PICK b \in SUBSET Name : b = IF lister.n = 0 THEN NamesIn(svclist) ELSE lister.unseen
    BY <1>2, <1>4
  <2>2. lister' = [lister EXCEPT !.state = "asked", !.n = lister.n + 1, !.unseen = b]
    BY <1>1, <2>1
  <2>3. PICK m \in Nat : m = lister.n + 1
    BY <1>2
  <2>4. lister' = [lister EXCEPT !.state = "asked", !.n = m, !.unseen = b]
    BY <2>2, <2>3
  <2>5. lister'.state = "asked" /\ lister'.n = m /\ lister'.unseen = b
    BY <1>2, <2>4
  <2>6. lister' \in [n: Nat, unseen: SUBSET Name, state: {"idle", "asked", "done"}]
    BY <1>2, <2>4
  <2> QED BY <2>1, <2>3, <2>5, <2>6
<1>6. PICK v \in Request : v = w
  BY <1>3
<1>7. Item(ref, live, lister', v)
  BY <1>3, <1>5, <1>6 DEF Item
<1>8. ASSUME NEW i \in DOMAIN inbox
      PROVE  Item(ref, live, lister', inbox[i]) /\ MayFollow(inbox[i], v)
  <2>1. PICK x \in Request : x = inbox[i]
    BY DEF ManagerInv, InboxOK, Inbox
  <2>2. Item(ref, live, lister, x)
    BY <2>1 DEF ManagerInv, InboxOK, Inbox
  <2>3. x.code # "list"
    BY <1>1, <2>2 DEF Item
  <2>4. Item(ref, live, lister', x)
    BY <2>2, <2>3 DEF Item
  <2> QED BY <1>3, <1>6, <2>1, <2>3, <2>4 DEF MayFollow
<1>9. RefsOK' /\ InboxOK' /\ ListOK' /\ OpOK' /\ Balanced' /\ (Gone => Gone')
  <2>1. Inbox(ref, live, lister', inbox)
    BY <1>8 DEF ManagerInv, InboxOK, Inbox
  <2> QED BY <1>1, <1>3, <1>6, <1>7, <1>8, <2>1, AskKeeps
<1>10. ManagerTypeOK'
  BY <1>1, <1>5, BlankFields DEF ManagerInv, ManagerTypeOK
<1>11. ListingOK'
  <2>1. ASSUME NEW nm \in lister'.unseen
        PROVE  \E i \in DOMAIN svclist : svclist[i].name = nm /\ (i > lister'.n \/ i = lister'.n)
    <3>1. CASE lister.n = 0
      <4>1. PICK i \in DOMAIN svclist : svclist[i].name = nm
        BY <1>5, <2>1, <3>1 DEF NamesIn
      <4>2. i \in Nat /\ i >= 1
        BY <1>2
      <4> QED BY <1>5, <3>1, <4>1, <4>2
    <3>2. CASE lister.n # 0
      <4>1. PICK i \in DOMAIN svclist : svclist[i].name = nm /\ i > lister.n
        BY <1>1, <1>5, <2>1, <3>2 DEF ManagerInv, ListingOK
      <4>2. i \in Nat
        BY <1>2
      <4> QED BY <1>2, <1>5, <4>1, <4>2
    <3> QED BY <3>1, <3>2
  <2> QED BY <1>1, <1>5, <2>1 DEF ListingOK, ListComplete
<1> QED BY <1>9, <1>10, <1>11 DEF ManagerInv

LEMMA AskAddKeeps ==
    ASSUME ManagerInv, NEW nm \in Name, NEW svc \in Service, NEW isolated \in Isolations,
           AskAdd(nm, svc, isolated)
    PROVE  ManagerInv' /\ (Gone => Gone')
<1>1. PICK s : s = Driver
  OBVIOUS
<1>2. PICK t : t = Received(s, svc)
  OBVIOUS
<1>3. PICK d : d = DescFor(s, svc)
  OBVIOUS
<1> DEFINE w == [code |-> "add", name |-> nm, handle |-> d, isolated |-> isolated, n |-> 0]
<1>4. /\ <<nm, svc>> \in Pairs
      /\ ref' = t.ref /\ inbox' = Append(t.inbox, w)
      /\ answer' = NoAnswer
      /\ relayed \subseteq relayed' /\ relayed' \subseteq relayed \cup {nm}
      /\ UNCHANGED <<live, svclist, op, published, lister>>
  BY <1>1, <1>2, <1>3 DEF AskAdd
<1>5. IsDriver(s) /\ s.ref = ref /\ s.inbox = inbox
  BY <1>1, DriverIs
<1>6. /\ RefsFor(t.ref) /\ Inbox(t.ref, live, lister, t.inbox) /\ t.inbox = inbox
      /\ d \in Handle /\ t.ref[d] # NULL /\ t.ref[d].service = svc
      /\ \A k \in Handle : Strong(t.ref, k) = IF k = d THEN Strong(ref, d) + 1 ELSE Strong(ref, k)
      /\ \A k \in Handle : ref[k] # NULL => t.ref[k] # NULL /\ t.ref[k].service = ref[k].service
  <2>1. RefsFor(s.ref) /\ Inbox(s.ref, live, lister, s.inbox)
    BY <1>5 DEF ManagerInv, RefsOK, InboxOK
  <2>2. /\ RefsFor(t.ref) /\ Inbox(t.ref, live, lister, t.inbox) /\ t.inbox = s.inbox
        /\ d \in Handle /\ t.ref[d] # NULL /\ t.ref[d].service = svc
        /\ \A k \in Handle : Strong(t.ref, k) = IF k = d THEN Strong(s.ref, d) + 1 ELSE Strong(s.ref, k)
        /\ \A k \in Handle : s.ref[k] # NULL => t.ref[k] # NULL /\ t.ref[k].service = s.ref[k].service
    <3>1. RefsFor(s.ref) /\ Inbox(s.ref, live, lister, s.inbox) /\ IsDriver(s)
      BY <1>5, <2>1
    <3> HIDE <1>5, <2>1
    <3>2. LET u == Received(s, svc)
              e == DescFor(s, svc)
          IN /\ RefsFor(u.ref) /\ Inbox(u.ref, live, lister, u.inbox) /\ u.inbox = s.inbox
             /\ e \in Handle /\ u.ref[e] # NULL /\ u.ref[e].service = svc
             /\ \A k \in Handle : Strong(u.ref, k) = IF k = e THEN Strong(s.ref, e) + 1 ELSE Strong(s.ref, k)
             /\ \A k \in Handle : s.ref[k] # NULL => u.ref[k] # NULL /\ u.ref[k].service = s.ref[k].service
      BY <3>1, ReceivedKeeps
    <3> QED BY <1>2, <1>3, <3>2
  <2> QED BY <1>5, <2>2
<1>7. w \in Request /\ w.code = "add" /\ w.handle = d /\ w.name = nm
  BY <1>6, ManagerAssumption DEF Request
<1> HIDE DEF w
<1>8. Item(t.ref, live, lister, w)
  BY <1>4, <1>6, <1>7 DEF Item
<1>9. ASSUME NEW i \in DOMAIN inbox
      PROVE  MayFollow(inbox[i], w)
  <2>1. PICK x \in Request : x = inbox[i]
    BY DEF ManagerInv, InboxOK, Inbox
  <2> QED BY <1>7, <2>1 DEF MayFollow
<1>10. Inbox(t.ref, live, lister, Append(inbox, w))
  BY <1>6, <1>7, <1>8, <1>9, InboxAppend
<1>11. RefsOK' /\ InboxOK'
  BY <1>4, <1>6, <1>10 DEF RefsOK, InboxOK
<1>12. ManagerTypeOK' /\ ListingOK' /\ OpOK' /\ (Gone => Gone')
  BY <1>4, ListingSame, BlankFields DEF ManagerInv, ManagerTypeOK, OpOK, Gone
<1>13. ListOK'
  <2>1. \A i \in DOMAIN svclist : svclist[i].handle # 0 => svclist[i].handle \in Handle
    BY EntryHandle DEF ManagerInv, ManagerTypeOK
  <2> QED BY <1>4, <1>6, <2>1 DEF ManagerInv, ListOK
<1>14. ASSUME NEW h \in Handle
       PROVE  Strong(ref', h) = Cardinality(Entries(svclist', h)) + Cardinality(Adds(inbox', h)) + Pending(op', h)
  <2>1. Cardinality(Adds(Append(inbox, w), h)) = Cardinality(Adds(inbox, h)) + (IF h = d THEN 1 ELSE 0)
    BY <1>6, <1>7, AppendAdds DEF Inbox
  <2>2. Strong(ref, h) = Cardinality(Entries(svclist, h)) + Cardinality(Adds(inbox, h)) + Pending(op, h)
    BY DEF ManagerInv, Balanced
  <2>3. Pending(op, h) \in Nat
    BY DEF Pending
  <2> QED BY <1>4, <1>6, <2>1, <2>2, <2>3, CountsNat
<1> QED BY <1>11, <1>12, <1>13, <1>14 DEF ManagerInv, Balanced

\* At most one notification is queued when a service stops, for the handle it has.
LEMMA StopTells ==
    ASSUME ManagerInv, NEW svc \in Service, Stop(svc)
    PROVE  \/ inbox' = inbox
           \/ \E h \in Handle : /\ inbox' = Append(inbox, Dead(h))
                                /\ ref[h] # NULL /\ ref[h].cookie # NULL /\ ref[h].service = svc
<1> DEFINE told == {h \in HandleOf(Driver, svc) : ref[h].cookie # NULL}
<1>1. inbox' = inbox \o [i \in 1 .. Cardinality(told) |-> Dead(CHOOSE h \in told : TRUE)]
  BY DEF Stop
<1>2. inbox \in Seq(Request)
  BY DEF ManagerInv, InboxOK, Inbox
<1>3. \/ inbox' = inbox
      \/ \E h \in Handle : /\ inbox' = Append(inbox, Dead(h))
                           /\ ref[h] # NULL /\ ref[h].cookie # NULL /\ ref[h].service = svc
  <2>1. CASE told = {}
    <3>1. Cardinality(told) = 0
      BY <2>1, FS_EmptySet
    <3> HIDE DEF told
    <3>2. [i \in 1 .. Cardinality(told) |-> Dead(CHOOSE h \in told : TRUE)] = <<>>
      BY <3>1
    <3>3. inbox \o <<>> = inbox
      BY <1>2
    <3> QED BY <1>1, <3>2, <3>3
  <2>2. CASE told # {}
    <3>1. PICK h : h \in told
      BY <2>2
    <3>2. h \in Handle /\ ref[h] # NULL /\ ref[h].service = svc /\ ref[h].cookie # NULL
      BY <3>1, DriverIs DEF HandleOf
    <3>3. told = {h}
      BY <3>1, <3>2, DriverIs DEF HandleOf, ManagerInv, RefsOK, RefsFor
    <3> HIDE DEF told
    <3>4. Cardinality(told) = 1 /\ (CHOOSE k \in told : TRUE) = h
      BY <3>3, FS_Singleton
    <3>5. PICK x \in Request : x = Dead(h)
      BY <3>2, DeadFields
    <3>6. [i \in 1 .. Cardinality(told) |-> Dead(CHOOSE k \in told : TRUE)] = [i \in 1 .. 1 |-> x]
      <4>1. Dead(CHOOSE k \in told : TRUE) = x
        BY <3>4, <3>5
      <4> QED BY <3>4, <4>1
    <3>7. [i \in 1 .. 1 |-> x] = <<x>>
      OBVIOUS
    <3>8. inbox' = inbox \o <<x>>
      BY <1>1, <3>6, <3>7
    <3>9. inbox \o <<x>> = Append(inbox, x)
      BY <1>2
    <3> QED BY <3>2, <3>5, <3>8, <3>9
  <2> QED BY <2>1, <2>2
<1> QED BY <1>3

LEMMA StopKeeps ==
    ASSUME ManagerInv, NEW svc \in Service, Stop(svc)
    PROVE  ManagerInv' /\ (Gone => Gone')
<1>1. /\ svc \in live /\ live' = live \ {svc}
      /\ answer' = NoAnswer
      /\ UNCHANGED <<ref, svclist, op, published, relayed, lister>>
  BY DEF Stop
<1>2. inbox \in Seq(Request)
  BY DEF ManagerInv, InboxOK, Inbox
<1>3. \/ inbox' = inbox
      \/ \E h \in Handle : /\ inbox' = Append(inbox, Dead(h))
                           /\ ref[h] # NULL /\ ref[h].cookie # NULL /\ ref[h].service = svc
  BY StopTells
<1>4. Inbox(ref, live', lister, inbox)
  <2>1. ASSUME NEW i \in DOMAIN inbox
        PROVE  Item(ref, live', lister, inbox[i])
    <3>1. Item(ref, live, lister, inbox[i])
      BY DEF ManagerInv, InboxOK, Inbox
    <3> QED BY <1>1, <3>1 DEF Item
  <2> QED BY <2>1 DEF ManagerInv, InboxOK, Inbox
<1>5. RefsOK' /\ ListOK' /\ OpOK' /\ ListingOK' /\ (Gone => Gone')
  BY <1>1, ListingSame DEF ManagerInv, RefsOK, ListOK, OpOK, Gone
<1>6. ManagerTypeOK'
  BY <1>1, BlankFields DEF ManagerInv, ManagerTypeOK
<1>7. InboxOK' /\ Balanced'
  <2>1. CASE inbox' = inbox
    BY <1>1, <1>4, <2>1 DEF InboxOK, Balanced, ManagerInv
  <2>2. ASSUME NEW h \in Handle, inbox' = Append(inbox, Dead(h)),
               ref[h] # NULL, ref[h].cookie # NULL, ref[h].service = svc
        PROVE  InboxOK' /\ Balanced'
    <3>1. Dead(h) \in Request /\ Dead(h).code = "dead" /\ Dead(h).handle = h
      BY DeadFields
    <3>2. PICK lv : lv = live'
      OBVIOUS
    <3>3. Item(ref, lv, lister, Dead(h))
      BY <1>1, <2>2, <3>1, <3>2 DEF Item
    <3>4. ASSUME NEW i \in DOMAIN inbox
          PROVE  MayFollow(inbox[i], Dead(h))
      <4>1. PICK x \in Request : x = inbox[i]
        BY <1>2
      <4>2. Item(ref, live, lister, x)
        BY <4>1 DEF ManagerInv, InboxOK, Inbox
      <4>3. x.code = "dead" => x.handle # h
        BY <1>1, <2>2, <4>2 DEF Item
      <4> QED BY <3>1, <4>1, <4>3 DEF MayFollow
    <3>5. Inbox(ref, lv, lister, Append(inbox, Dead(h)))
      BY <1>4, <3>1, <3>2, <3>3, <3>4, InboxAppend
    <3>6. \A k \in Handle : Cardinality(Adds(Append(inbox, Dead(h)), k)) = Cardinality(Adds(inbox, k))
      <4> TAKE k \in Handle
      <4>1. Cardinality(Adds(Append(inbox, Dead(h)), k)) = Cardinality(Adds(inbox, k)) + 0
        BY <1>2, <3>1, AppendAdds
      <4> QED BY <4>1, CountsNat
    <3> QED BY <1>1, <2>2, <3>2, <3>5, <3>6 DEF InboxOK, Balanced, ManagerInv
  <2> QED BY <1>3, <2>1, <2>2
<1> QED BY <1>5, <1>6, <1>7 DEF ManagerInv

-----------------------------------------------------------------------------
(* The steps of servicemanager *)

\* The next item, and the inbox behind it.
LEMMA TakeHead ==
    ASSUME ManagerInv, inbox # <<>>
    PROVE  /\ Head(inbox) \in Request /\ Item(ref, live, lister, Head(inbox))
           /\ Inbox(ref, live, lister, Tail(inbox)) /\ Tail(inbox) \in Seq(Request)
           /\ \A i \in DOMAIN Tail(inbox) : MayFollow(Head(inbox), Tail(inbox)[i])
           /\ \A h \in Handle :
                 /\ Cardinality(Adds(Tail(inbox), h)) \in Nat
                 /\ Cardinality(Adds(inbox, h)) \in Nat
                 /\ Cardinality(Adds(inbox, h)) = Cardinality(Adds(Tail(inbox), h))
                       + (IF Head(inbox).code = "add" /\ Head(inbox).handle = h THEN 1 ELSE 0)
<1> DEFINE q == Tail(inbox)
<1>1. inbox \in Seq(Request) /\ Inbox(ref, live, lister, inbox)
  BY DEF ManagerInv, InboxOK, Inbox
<1>2. q \in Seq(Request) /\ Shrunk(inbox, q, 1)
  BY <1>1, ShrunkTail
<1>3. /\ DOMAIN inbox = 1 .. Len(inbox) /\ Len(inbox) \in Nat /\ 1 \in DOMAIN inbox
      /\ Head(inbox) = inbox[1] /\ Head(inbox) \in Request
      /\ DOMAIN q = 1 .. Len(inbox) - 1
      /\ \A i \in DOMAIN q : q[i] = inbox[i + 1] /\ i + 1 \in DOMAIN inbox /\ 1 < i + 1
  BY <1>1
<1>4. Item(ref, live, lister, Head(inbox))
  BY <1>1, <1>3 DEF Inbox
<1> HIDE DEF q
<1>5. Inbox(ref, live, lister, q)
  BY <1>1, <1>2, InboxShrunk
<1>6. \A i \in DOMAIN q : MayFollow(Head(inbox), q[i])
  BY <1>1, <1>3 DEF Inbox
<1>7. ASSUME NEW h \in Handle
      PROVE  /\ Cardinality(Adds(q, h)) \in Nat
             /\ Cardinality(Adds(inbox, h)) \in Nat
             /\ Cardinality(Adds(inbox, h)) = Cardinality(Adds(q, h))
                   + (IF Head(inbox).code = "add" /\ Head(inbox).handle = h THEN 1 ELSE 0)
  <2>1. Cardinality(Adds(q, h)) \in Nat /\ Cardinality(Adds(inbox, h)) \in Nat
    BY <1>1, <1>2, IndicesFinite DEF Adds
  <2>2. 1 \in Adds(inbox, h) <=> Head(inbox).code = "add" /\ Head(inbox).handle = h
    BY <1>3 DEF Adds
  <2>3. Cardinality(Adds(q, h)) =
          IF 1 \in Adds(inbox, h) THEN Cardinality(Adds(inbox, h)) - 1 ELSE Cardinality(Adds(inbox, h))
    BY <1>1, <1>2, ShrunkAdds
  <2> QED BY <2>1, <2>2, <2>3
<1> QED BY <1>2, <1>3, <1>4, <1>5, <1>6, <1>7 DEF q

LEMMA FindIndex ==
    ASSUME NEW list \in Seq(Entry), NEW nm
    PROVE  /\ nm \in NamesIn(list) => /\ find_svc(list, nm) \in DOMAIN list
                                      /\ list[find_svc(list, nm)].name = nm
                                      /\ find_svc(list, nm) # 0
           /\ nm \notin NamesIn(list) => find_svc(list, nm) = 0
<1>1. CASE nm \in NamesIn(list)
  <2>1. \E i \in DOMAIN list : list[i].name = nm
    BY <1>1 DEF NamesIn
  <2>2. find_svc(list, nm) \in DOMAIN list /\ list[find_svc(list, nm)].name = nm
    BY <1>1, <2>1 DEF find_svc
  <2>3. 0 \notin DOMAIN list
    OBVIOUS
  <2> QED BY <1>1, <2>2, <2>3
<1>2. CASE nm \notin NamesIn(list)
  BY <1>2 DEF find_svc
<1> QED BY <1>1, <1>2

\* s is the driver behind the item just read: at most a notification was marked as told.
Onward(s) ==
    /\ IsDriver(s) /\ s.inbox = Tail(inbox)
    /\ RefsFor(s.ref) /\ Kept(ref, s.ref)
    /\ \A g \in Handle : Strong(s.ref, g) = Strong(ref, g)
    /\ \A g \in Handle : s.ref[g] # NULL => ref[g] # NULL /\ s.ref[g].service = ref[g].service

LEMMA RestOnward ==
    ASSUME ManagerInv
    PROVE  Onward(Rest)
<1>1. Kept(ref, ref)
  BY DEF Kept
<1> QED BY <1>1, DriverIs DEF Onward, ManagerInv, RefsOK

LEMMA ToldOnward ==
    ASSUME ManagerInv, NEW h \in Handle, ref[h] # NULL
    PROVE  Onward([Rest EXCEPT !.ref[h].told = TRUE])
<1>1. PICK r, x : r = ref /\ x = Rest /\ x.ref = r /\ x.inbox = Tail(inbox) /\ IsDriver(x)
  BY DriverIs
<1>2. PICK s : s = [x EXCEPT !.ref[h].told = TRUE]
  OBVIOUS
<1>3. PICK t : t = [r EXCEPT ![h].told = TRUE]
  OBVIOUS
<1>4. s.ref = t /\ s.inbox = x.inbox /\ s = [ref |-> s.ref, inbox |-> s.inbox]
  BY <1>1, <1>2, <1>3 DEF IsDriver
<1>5. IsDriver(s) /\ s.ref = t /\ s.inbox = Tail(inbox)
  BY <1>1, <1>4 DEF IsDriver
<1>6. r \in [Handle -> RefRec \cup {NULL}] /\ r[h] \in RefRec
  BY <1>1 DEF ManagerInv, RefsOK, RefsFor
<1>7. /\ t \in [Handle -> RefRec \cup {NULL}] /\ \A k \in Handle : k # h => t[k] = r[k]
      /\ t[h] \in RefRec /\ t[h].service = r[h].service /\ t[h].strong = r[h].strong
      /\ t[h].cookie = r[h].cookie
  BY <1>3, <1>6 DEF RefRec
<1>8. t[h] # NULL /\ r[h] # NULL
  BY <1>1, <1>7, NoReference
<1>9. Kept(r, t) /\ \A g \in Handle : t[g] # NULL => r[g] # NULL /\ t[g].service = r[g].service
  BY <1>7, <1>8 DEF Kept
<1>10. RefsFor(t)
  <2>1. RefsFor(r)
    BY <1>1 DEF ManagerInv, RefsOK
  <2> QED BY <1>7, <1>8, <2>1 DEF RefsFor
<1>11. \A g \in Handle : Strong(t, g) = Strong(r, g)
  BY <1>7, <1>8 DEF Strong
<1>12. Onward(s)
  BY <1>1, <1>5, <1>9, <1>10, <1>11 DEF Onward
<1> QED BY <1>1, <1>2, <1>12

\* An item that holds no handle goes, and the list stays.
LEMMA TakeKeeps ==
    ASSUME ManagerInv, inbox # <<>>, NEW s, Onward(s), Becomes(s),
           Head(inbox).code # "add" \/ Head(inbox).handle = 0,
           Inbox(ref, live, lister', Tail(inbox)),
           UNCHANGED <<live, svclist, op, published, relayed>>
    PROVE  RefsOK' /\ InboxOK' /\ ListOK' /\ OpOK' /\ Balanced' /\ (Gone => Gone')
<1>1. ref' = s.ref /\ inbox' = Tail(inbox)
  BY DEF Becomes, Onward
<1>2. RefsOK' /\ InboxOK' /\ ListOK' /\ OpOK' /\ (Gone => Gone')
  <2>1. PICK r, q, ls : r = s.ref /\ q = Tail(inbox) /\ ls = lister'
    OBVIOUS
  <2>2. Inbox(r, live, ls, q)
    BY <2>1, InboxKept DEF Onward
  <2>3. \A g \in Handle : ref[g] # NULL => r[g] # NULL /\ r[g].service = ref[g].service
    BY <2>1 DEF Onward, Kept
  <2>4. \A i \in DOMAIN svclist : svclist[i].handle # 0 => svclist[i].handle \in Handle
    BY EntryHandle DEF ManagerInv, ManagerTypeOK
  <2>5. ListOK'
    BY <1>1, <2>1, <2>3, <2>4 DEF ManagerInv, ListOK
  <2>6. RefsOK' /\ InboxOK'
    BY <1>1, <2>1, <2>2 DEF RefsOK, InboxOK, Onward
  <2> QED BY <2>5, <2>6 DEF ManagerInv, OpOK, Gone
<1>3. ASSUME NEW h \in Handle
      PROVE  Cardinality(Adds(Tail(inbox), h)) = Cardinality(Adds(inbox, h))
  <2>1. h # 0
    BY HandleNat
  <2>2. PICK w : w = Head(inbox)
    OBVIOUS
  <2>3. Cardinality(Adds(inbox, h)) = Cardinality(Adds(Tail(inbox), h)) + 0
    BY <2>1, <2>2, TakeHead
  <2> QED BY <2>3, TakeHead
<1>4. Balanced'
  BY <1>1, <1>3 DEF ManagerInv, Balanced, Onward
<1> QED BY <1>2, <1>4

\* The answer is the service last added under the name, or there is a reason for none.
LEMMA FindAnswered ==
    ASSUME ManagerInv, Find
    PROVE  /\ answer' \in [found: Service \cup {NULL}, name: Name \cup {NULL}, isolated: BOOLEAN]
           /\ Gone => FindAnswers'
<1>1. PICK w \in Request : w = Head(inbox) /\ w.code = "find" /\ w.name \in Name /\ w.isolated \in BOOLEAN
  BY TakeHead DEF Find, NextIs, Item, Request
<1>2. PICK k : k = find_svc(svclist, w.name)
  OBVIOUS
<1>3. PICK h : h = do_find_service(w.name, w.isolated)
  OBVIOUS
<1>4. h = IF k # 0 /\ svclist[k].handle # 0 /\ (svclist[k].allow_isolated \/ ~w.isolated)
          THEN svclist[k].handle ELSE 0
  BY <1>2, <1>3 DEF do_find_service, HasHandle
<1>5. PICK f : f = IF h = 0 \/ ref[h] = NULL THEN NULL ELSE ref[h].service
  OBVIOUS
<1>6. answer' = [found |-> f, name |-> w.name, isolated |-> w.isolated]
  BY <1>1, <1>3, <1>5 DEF Find
<1>7. svclist \in Seq(Entry)
  BY DEF ManagerInv, ManagerTypeOK
<1>8. /\ k # 0 => k \in DOMAIN svclist /\ svclist[k].name = w.name
      /\ k = 0 => published[w.name] = NULL
  BY <1>1, <1>2, <1>7, FindIndex DEF ManagerInv, ListOK
<1>9. CASE h # 0
  <2>1. k \in DOMAIN svclist /\ svclist[k].handle = h /\ h \in Handle /\ svclist[k].name = w.name
    BY <1>4, <1>7, <1>8, <1>9, EntryHandle
  <2>2. ref[h] # NULL /\ ref[h].service = published[w.name]
    BY <1>9, <2>1 DEF ManagerInv, ListOK
  <2>3. f = published[w.name]
    BY <1>5, <1>9, <2>2
  <2>4. f \in Service \cup {NULL}
    BY <1>1, <2>3 DEF ManagerInv, ManagerTypeOK
  <2>5. published' = published /\ live' = live /\ relayed' = relayed
    BY DEF Find
  <2> QED BY <1>1, <1>6, <2>3, <2>4, <2>5 DEF FindAnswers
<1>10. CASE h = 0
  <2>1. f = NULL
    BY <1>5, <1>10
  <2>2. published' = published /\ live' = live /\ relayed' = relayed
    BY DEF Find
  <2>3. k = 0 \/ svclist[k].handle = 0 \/ w.isolated
    <3>1. ASSUME k # 0, svclist[k].handle # 0, ~w.isolated
          PROVE  FALSE
      BY <1>4, <1>10, <3>1
    <3> QED BY <3>1
  <2>4. Gone => \/ published[w.name] = NULL \/ published[w.name] \notin live
                \/ w.isolated \/ w.name \in relayed
    BY <1>8, <2>3 DEF Gone
  <2>5. answer'.found = NULL /\ answer'.name = w.name /\ answer'.isolated = w.isolated
    BY <1>6, <2>1
  <2> QED BY <1>1, <1>6, <2>1, <2>2, <2>4, <2>5 DEF FindAnswers
<1> QED BY <1>9, <1>10

LEMMA TakePlainKeeps ==
    ASSUME ManagerInv, Find \/ FindDenied \/ Other
    PROVE  ManagerInv' /\ (Gone => Gone')
<1>1. /\ inbox # <<>> /\ Head(inbox).code # "add" /\ Becomes(Rest)
      /\ UNCHANGED <<live, svclist, op, published, relayed, lister>>
  BY DEF Find, FindDenied, Other, NextIs
<1>2. Inbox(ref, live, lister', Tail(inbox))
  BY <1>1, TakeHead
<1>3. RefsOK' /\ InboxOK' /\ ListOK' /\ OpOK' /\ Balanced' /\ (Gone => Gone')
  BY <1>1, <1>2, RestOnward, TakeKeeps
<1>4. answer' \in [found: Service \cup {NULL}, name: Name \cup {NULL}, isolated: BOOLEAN]
  <2>1. CASE Find
    BY <2>1, FindAnswered
  <2>2. CASE ~Find
    BY <2>2, BlankFields DEF FindDenied, Other
  <2> QED BY <2>1, <2>2
<1>5. ManagerTypeOK' /\ ListingOK'
  BY <1>1, <1>4, ListingSame DEF ManagerInv, ManagerTypeOK
<1> QED BY <1>3, <1>5 DEF ManagerInv

LEMMA ListKeeps ==
    ASSUME ManagerInv, List \/ ListDenied
    PROVE  ManagerInv' /\ (Gone => Gone')
<1>1. /\ inbox # <<>> /\ Head(inbox).code = "list" /\ Becomes(Rest)
      /\ answer' = NoAnswer
      /\ UNCHANGED <<live, svclist, op, published, relayed>>
  BY DEF List, ListDenied, NextIs
<1>2. PICK w \in Request : w = Head(inbox) /\ w.code = "list" /\ w.n \in Nat
                           /\ lister.state = "asked" /\ lister.n = w.n + 1
  BY <1>1, TakeHead DEF Item, Request
<1>3. PICK q \in Seq(Request) : q = Tail(inbox)
  BY <1>1, TakeHead
<1>4. Inbox(ref, live, lister', q)
  <2>1. ASSUME NEW i \in DOMAIN q
        PROVE  Item(ref, live, lister', q[i])
    <3>1. Item(ref, live, lister, q[i]) /\ MayFollow(w, q[i])
      BY <1>1, <1>2, <1>3, TakeHead DEF Inbox
    <3>2. q[i].code # "list"
      BY <1>2, <3>1 DEF MayFollow
    <3> QED BY <3>1, <3>2 DEF Item
  <2>2. Inbox(ref, live, lister, q)
    BY <1>1, <1>3, TakeHead
  <2> QED BY <2>1, <2>2 DEF Inbox
<1>5. RefsOK' /\ InboxOK' /\ ListOK' /\ OpOK' /\ Balanced' /\ (Gone => Gone')
  BY <1>1, <1>3, <1>4, RestOnward, TakeKeeps
<1>6. /\ lister \in [n: Nat, unseen: SUBSET Name, state: {"idle", "asked", "done"}]
      /\ svclist \in Seq(Entry)
  BY DEF ManagerInv, ManagerTypeOK
<1>7. /\ lister' \in [n: Nat, unseen: SUBSET Name, state: {"idle", "asked", "done"}]
      /\ ListingOK'
  <2>1. CASE ListDenied
    <3>1. lister' = [n |-> 0, unseen |-> {}, state |-> "idle"]
      BY <2>1 DEF ListDenied, NotListing
    <3> QED BY <3>1 DEF ListingOK, ListComplete
  <2>2. CASE List
    <3>1. PICK listed : listed = ListedAt(w.n)
      OBVIOUS
    <3>2. lister' = IF listed = {} THEN [lister EXCEPT !.state = "done", !.n = 0]
                    ELSE [lister EXCEPT !.state = "idle", !.unseen = @ \ listed]
      BY <1>2, <2>2, <3>1 DEF List
    <3>3. listed = IF w.n + 1 \in DOMAIN svclist THEN {svclist[w.n + 1].name} ELSE {}
      BY <3>1 DEF ListedAt
    <3>4. \A nm \in lister.unseen : \E i \in DOMAIN svclist :
             svclist[i].name = nm /\ i \in Nat /\ (i > w.n + 1 \/ i = w.n + 1)
      <4>1. \A i \in DOMAIN svclist : i \in Nat
        BY <1>6
      <4> QED BY <1>2, <4>1 DEF ManagerInv, ListingOK
    <3>5. CASE listed = {}
      <4>1. w.n + 1 \notin DOMAIN svclist
        BY <3>3, <3>5
      <4>2. \A i \in DOMAIN svclist : i < w.n + 1
        BY <1>2, <1>6, <4>1
      <4>3. lister.unseen = {}
        <5> SUFFICES ASSUME NEW nm \in lister.unseen PROVE FALSE
          OBVIOUS
        <5>1. PICK i \in DOMAIN svclist : i \in Nat /\ (i > w.n + 1 \/ i = w.n + 1)
          BY <3>4
        <5> QED BY <1>2, <4>2, <5>1
      <4>4. lister' = [lister EXCEPT !.state = "done", !.n = 0]
        BY <3>2, <3>5
      <4>5. /\ lister'.state = "done" /\ lister'.unseen = lister.unseen
            /\ lister' \in [n: Nat, unseen: SUBSET Name, state: {"idle", "asked", "done"}]
        BY <1>6, <4>4
      <4> QED BY <4>3, <4>5 DEF ListingOK, ListComplete
    <3>6. CASE listed # {}
      <4>1. listed = {svclist[w.n + 1].name} /\ w.n + 1 \in DOMAIN svclist
        BY <3>3, <3>6
      <4>2. listed \subseteq Name
        BY <1>6, <4>1, EntryHandle
      <4>3. PICK rest \in SUBSET Name : rest = lister.unseen \ listed
        BY <1>6, <4>2
      <4>4. lister' = [lister EXCEPT !.state = "idle", !.unseen = rest]
        BY <3>2, <3>6, <4>3
      <4>5. lister'.state = "idle" /\ lister'.unseen = rest /\ lister'.n = w.n + 1
        BY <1>2, <1>6, <4>4
      <4>6. lister' \in [n: Nat, unseen: SUBSET Name, state: {"idle", "asked", "done"}]
        BY <1>6, <4>4
      <4>7. ASSUME NEW nm \in lister'.unseen
            PROVE  \E i \in DOMAIN svclist : svclist[i].name = nm /\ i > lister'.n
        <5>1. nm \in lister.unseen /\ nm # svclist[w.n + 1].name
          BY <4>1, <4>3, <4>5, <4>7
        <5>2. PICK i \in DOMAIN svclist : svclist[i].name = nm /\ i \in Nat /\ (i > w.n + 1 \/ i = w.n + 1)
          BY <3>4, <5>1
        <5> QED BY <4>5, <5>1, <5>2
      <4> QED BY <1>1, <4>5, <4>6, <4>7 DEF ListingOK, ListComplete
    <3> QED BY <3>5, <3>6
  <2> QED BY <2>1, <2>2
<1>8. ManagerTypeOK'
  BY <1>1, <1>7, BlankFields DEF ManagerInv, ManagerTypeOK
<1> QED BY <1>5, <1>7, <1>8 DEF ManagerInv

\* References come and go, but the list's stay.
LEMMA ListSame ==
    ASSUME ManagerInv, UNCHANGED <<svclist, published>>, inbox' \in Seq(Request), Balanced',
           \A k \in Handle : ref'[k] # NULL => ref[k] # NULL /\ ref'[k].service = ref[k].service
    PROVE  ListOK'
<1>1. svclist \in Seq(Entry)
  BY DEF ManagerInv, ManagerTypeOK
<1>2. ASSUME NEW i \in DOMAIN svclist, svclist[i].handle # 0
      PROVE  ref'[svclist[i].handle] # NULL /\ ref'[svclist[i].handle].service = ref[svclist[i].handle].service
  <2>1. PICK h \in Handle : h = svclist[i].handle
    BY <1>1, <1>2, EntryHandle
  <2>2. PICK q, o, r : q \in Seq(Request) /\ q = inbox' /\ o = op' /\ r = ref'
    OBVIOUS
  <2>3. Strong(r, h) = Cardinality(Entries(svclist, h)) + Cardinality(Adds(q, h)) + Pending(o, h)
    BY <2>2 DEF Balanced
  <2>4. r[h] # NULL
    BY <1>1, <2>1, <2>2, <2>3, EntryHeld
  <2> QED BY <2>1, <2>2, <2>4
<1> QED BY <1>2 DEF ManagerInv, ListOK

\* The count of a reference and what it is made of.
LEMMA CountIs ==
    ASSUME ManagerInv, NEW h \in Handle
    PROVE  /\ Strong(ref, h) = Cardinality(Entries(svclist, h)) + Cardinality(Adds(inbox, h)) + Pending(op, h)
           /\ Cardinality(Entries(svclist, h)) \in Nat /\ Cardinality(Adds(inbox, h)) \in Nat
           /\ Pending(op, h) \in {0, 1}
BY CountsNat DEF ManagerInv, Balanced, Pending

\* The entry of the do_add_service under way, whose handle has a reference.
LEMMA OpEntry ==
    ASSUME ManagerInv, op.pc # "idle"
    PROVE  /\ op.req.handle \in Handle /\ ref[op.req.handle] # NULL
           /\ op.req.name \in Name /\ <<op.req.name, ref[op.req.handle].service>> \in Pairs
           /\ Cardinality(Entries(svclist, op.req.handle)) > 0
<1>1. op.req.handle \in Handle /\ op.req.handle # 0
  BY HandleNat DEF ManagerInv, OpOK
<1>2. PICK i \in DOMAIN svclist : svclist[i].handle = op.req.handle /\ svclist[i].name = op.req.name
  BY DEF ManagerInv, OpOK
<1>3. svclist \in Seq(Entry) /\ inbox \in Seq(Request)
  BY DEF ManagerInv, ManagerTypeOK, InboxOK, Inbox
<1>4. svclist[i].name \in Name
  BY <1>3, EntryHandle
<1>5. /\ ref[op.req.handle] # NULL /\ ref[op.req.handle].service = published[svclist[i].name]
      /\ <<svclist[i].name, published[svclist[i].name]>> \in Pairs
  BY <1>1, <1>2 DEF ManagerInv, ListOK
<1>6. PICK h \in Handle : h = op.req.handle
  BY <1>1
<1>7. Cardinality(Entries(svclist, h)) > 0
  BY <1>2, <1>3, <1>6, CountIs, EntryHeld
<1> QED BY <1>1, <1>2, <1>4, <1>5, <1>6, <1>7

LEMMA RefuseAddKeeps ==
    ASSUME ManagerInv, RefuseAdd
    PROVE  ManagerInv' /\ (Gone => Gone')
<1>1. /\ inbox # <<>> /\ Head(inbox).code = "add" /\ op = Idle
      /\ Becomes(IF Head(inbox).handle = 0 THEN Rest ELSE Released(Rest, Head(inbox).handle))
      /\ answer' = NoAnswer
      /\ UNCHANGED <<live, svclist, op, published, relayed, lister>>
  BY DEF RefuseAdd, NextIs
<1>2. ManagerTypeOK' /\ ListingOK' /\ OpOK' /\ (Gone => Gone')
  BY <1>1, ListingSame, BlankFields DEF ManagerInv, ManagerTypeOK, OpOK, Gone
<1>3. CASE Head(inbox).handle = 0
  <2>1. Becomes(Rest) /\ Inbox(ref, live, lister', Tail(inbox))
    BY <1>1, <1>3, TakeHead
  <2>2. RefsOK' /\ InboxOK' /\ ListOK' /\ Balanced'
    BY <1>1, <1>3, <2>1, RestOnward, TakeKeeps
  <2> QED BY <1>2, <2>2 DEF ManagerInv
<1>4. CASE Head(inbox).handle # 0
  <2>1. PICK h \in Handle : h = Head(inbox).handle
    BY <1>1, <1>4, TakeHead DEF Request
  <2>2. ref[h] # NULL
    BY <1>1, <1>4, <2>1, TakeHead DEF Item
  <2>3. PICK s : s = Rest
    OBVIOUS
  <2>4. IsDriver(s) /\ s.ref = ref /\ s.inbox = Tail(inbox)
    BY <2>3, DriverIs
  <2>5. \A k \in Handle : /\ Cardinality(Adds(inbox, k)) = Cardinality(Adds(s.inbox, k)) + (IF k = h THEN 1 ELSE 0)
                          /\ Cardinality(Adds(s.inbox, k)) \in Nat
    BY <1>1, <2>1, <2>4, TakeHead
  <2>6. s.ref[h] # NULL /\ s.ref[h].strong > Cardinality(Adds(s.inbox, h))
    BY <2>2, <2>4, <2>5, CountIs DEF Strong
  <2>7. RefsFor(s.ref) /\ Inbox(s.ref, live, lister, s.inbox)
    BY <1>1, <2>4, TakeHead DEF ManagerInv, RefsOK
  <2>8. PICK t : t = Released(s, h)
    OBVIOUS
  <2>9. /\ RefsFor(t.ref) /\ Inbox(t.ref, live, lister, t.inbox)
        /\ \A k \in Handle : Strong(t.ref, k) = IF k = h THEN Strong(s.ref, h) - 1 ELSE Strong(s.ref, k)
        /\ \A k \in Handle : Cardinality(Adds(t.inbox, k)) = Cardinality(Adds(s.inbox, k))
        /\ \A k \in Handle : t.ref[k] # NULL => s.ref[k] # NULL /\ t.ref[k].service = s.ref[k].service
    BY <2>4, <2>6, <2>7, <2>8, ReleasedKeeps
  <2>10. ref' = t.ref /\ inbox' = t.inbox
    BY <1>1, <1>4, <2>1, <2>3, <2>8 DEF Becomes
  <2>11. RefsOK' /\ InboxOK'
    BY <1>1, <2>9, <2>10 DEF RefsOK, InboxOK
  <2>12. Balanced'
    <3>1. ASSUME NEW k \in Handle
          PROVE  Strong(t.ref, k) = Cardinality(Entries(svclist, k)) + Cardinality(Adds(t.inbox, k)) + Pending(op, k)
      <4>1. PICK a \in Nat, b \in Nat, c \in Nat, d \in {0, 1} :
               /\ a = Cardinality(Entries(svclist, k)) /\ b = Cardinality(Adds(inbox, k))
               /\ c = Cardinality(Adds(s.inbox, k)) /\ d = Pending(op, k)
        BY <2>5, CountIs
      <4>2. Strong(ref, k) = a + b + d /\ b = c + (IF k = h THEN 1 ELSE 0)
        BY <2>5, <4>1, CountIs
      <4>3. Strong(t.ref, k) = Strong(ref, k) - (IF k = h THEN 1 ELSE 0) /\ Cardinality(Adds(t.inbox, k)) = c
        BY <2>4, <2>9, <4>1, <4>2
      <4>4. Strong(t.ref, k) = a + c + d
        <5>1. CASE k = h
          <6>1. Strong(t.ref, k) = Strong(ref, k) - 1 /\ Strong(ref, k) = a + b + d /\ b = c + 1
            BY <4>2, <4>3, <5>1
          <6> QED BY <6>1
        <5>2. CASE k # h
          <6>1. Strong(t.ref, k) = Strong(ref, k) - 0 /\ Strong(ref, k) = a + b + d /\ b = c + 0
            BY <4>2, <4>3, <5>2
          <6> QED BY <6>1
        <5> QED BY <5>1, <5>2
      <4> QED BY <4>1, <4>3, <4>4
    <3> QED BY <1>1, <2>10, <3>1 DEF Balanced
  <2>13. ListOK'
    <3>1. inbox' \in Seq(Request)
      BY <2>9, <2>10 DEF Inbox
    <3> QED BY <1>1, <2>4, <2>9, <2>10, <2>12, <3>1, ListSame
  <2> QED BY <1>2, <2>11, <2>12, <2>13 DEF ManagerInv
<1> QED BY <1>3, <1>4

LEMMA AddAcquireKeeps ==
    ASSUME ManagerInv, AddAcquire
    PROVE  ManagerInv' /\ (Gone => Gone')
<1>1. /\ op.pc = "acquire" /\ Becomes(Acquired(Driver, op.req.handle))
      /\ op' = [op EXCEPT !.pc = "link"] /\ answer' = NoAnswer
      /\ UNCHANGED <<live, svclist, published, relayed, lister>>
  BY DEF AddAcquire
<1>2. op' \in [pc: {"idle", "acquire", "link", "reply"}, req: Request] /\ op'.pc = "link" /\ op'.req = op.req
  BY <1>1 DEF ManagerInv, ManagerTypeOK
<1>3. ManagerTypeOK' /\ ListingOK' /\ OpOK' /\ (Gone => Gone')
  BY <1>1, <1>2, ListingSame, BlankFields DEF ManagerInv, ManagerTypeOK, OpOK, Gone
<1>4. PICK h \in Handle : h = op.req.handle /\ ref[h] # NULL
  BY <1>1, OpEntry
<1>5. PICK s : s = Driver
  OBVIOUS
<1>6. /\ IsDriver(s) /\ s.ref = ref /\ s.inbox = inbox /\ s.ref[h] # NULL
      /\ RefsFor(s.ref) /\ Inbox(s.ref, live, lister, s.inbox)
  BY <1>4, <1>5, DriverIs DEF ManagerInv, RefsOK, InboxOK
<1>7. PICK t : t = Acquired(s, h)
  OBVIOUS
<1>8. /\ RefsFor(t.ref) /\ Inbox(t.ref, live, lister, t.inbox) /\ t.inbox = s.inbox
      /\ \A k \in Handle : Strong(t.ref, k) = IF k = h THEN Strong(s.ref, h) + 1 ELSE Strong(s.ref, k)
      /\ \A k \in Handle : t.ref[k] # NULL => s.ref[k] # NULL /\ t.ref[k].service = s.ref[k].service
  BY <1>6, <1>7, AcquiredKeeps
<1>9. ref' = t.ref /\ inbox' = t.inbox
  BY <1>1, <1>4, <1>5, <1>7 DEF Becomes
<1>10. RefsOK' /\ InboxOK'
  BY <1>1, <1>8, <1>9 DEF RefsOK, InboxOK
<1>11. Balanced'
  <2>1. ASSUME NEW k \in Handle
        PROVE  Strong(t.ref, k) = Cardinality(Entries(svclist, k)) + Cardinality(Adds(t.inbox, k)) + Pending(op', k)
    <3>1. Pending(op, k) = 0 /\ Pending(op', k) = IF k = h THEN 1 ELSE 0
      BY <1>1, <1>2, <1>4 DEF Pending
    <3> QED BY <1>6, <1>8, <3>1, CountIs
  <2> QED BY <1>1, <1>9, <2>1 DEF Balanced
<1>12. ListOK'
  <2>1. inbox' \in Seq(Request)
    BY <1>8, <1>9 DEF Inbox
  <2> QED BY <1>1, <1>6, <1>8, <1>9, <1>11, <2>1, ListSame
<1> QED BY <1>3, <1>10, <1>11, <1>12 DEF ManagerInv

LEMMA AddLinkKeeps ==
    ASSUME ManagerInv, AddLink
    PROVE  ManagerInv' /\ (Gone => Gone')
<1>1. /\ op.pc = "link" /\ Becomes(Linked(Driver, op.req.handle, op.req.name))
      /\ op' = [op EXCEPT !.pc = "reply"] /\ answer' = NoAnswer
      /\ UNCHANGED <<live, svclist, published, relayed, lister>>
  BY DEF AddLink
<1>2. op' \in [pc: {"idle", "acquire", "link", "reply"}, req: Request] /\ op'.pc = "reply" /\ op'.req = op.req
  BY <1>1 DEF ManagerInv, ManagerTypeOK
<1>3. ManagerTypeOK' /\ ListingOK' /\ OpOK' /\ (Gone => Gone')
  BY <1>1, <1>2, ListingSame, BlankFields DEF ManagerInv, ManagerTypeOK, OpOK, Gone
<1>4. PICK h \in Handle, nm \in Name :
         h = op.req.handle /\ ref[h] # NULL /\ nm = op.req.name /\ <<nm, ref[h].service>> \in Pairs
  BY <1>1, OpEntry
<1>5. PICK s : s = Driver
  OBVIOUS
<1>6. /\ IsDriver(s) /\ s.ref = ref /\ s.inbox = inbox
      /\ s.ref[h] # NULL /\ <<nm, s.ref[h].service>> \in Pairs
      /\ RefsFor(s.ref) /\ Inbox(s.ref, live, lister, s.inbox)
  BY <1>4, <1>5, DriverIs DEF ManagerInv, RefsOK, InboxOK
<1>7. PICK t : t = Linked(s, h, nm)
  OBVIOUS
<1>8. /\ RefsFor(t.ref) /\ Inbox(t.ref, live, lister, t.inbox)
      /\ \A k \in Handle : Strong(t.ref, k) = Strong(s.ref, k)
      /\ \A k \in Handle : Cardinality(Adds(t.inbox, k)) = Cardinality(Adds(s.inbox, k))
      /\ \A k \in Handle : t.ref[k] # NULL => s.ref[k] # NULL /\ t.ref[k].service = s.ref[k].service
  BY <1>6, <1>7, LinkedKeeps
<1>9. ref' = t.ref /\ inbox' = t.inbox
  BY <1>1, <1>4, <1>5, <1>7 DEF Becomes
<1>10. RefsOK' /\ InboxOK'
  BY <1>1, <1>8, <1>9 DEF RefsOK, InboxOK
<1>11. Balanced'
  <2>1. ASSUME NEW k \in Handle
        PROVE  Strong(t.ref, k) = Cardinality(Entries(svclist, k)) + Cardinality(Adds(t.inbox, k)) + Pending(op', k)
    <3>1. Pending(op', k) = Pending(op, k)
      BY <1>1, <1>2 DEF Pending
    <3> QED BY <1>6, <1>8, <3>1, CountIs
  <2> QED BY <1>1, <1>9, <2>1 DEF Balanced
<1>12. ListOK'
  <2>1. inbox' \in Seq(Request)
    BY <1>8, <1>9 DEF Inbox
  <2> QED BY <1>1, <1>6, <1>8, <1>9, <1>11, <2>1, ListSame
<1> QED BY <1>3, <1>10, <1>11, <1>12 DEF ManagerInv

LEMMA AddReplyKeeps ==
    ASSUME ManagerInv, AddReply
    PROVE  ManagerInv' /\ (Gone => Gone')
<1>1. /\ op.pc = "reply" /\ Becomes(Released(Driver, op.req.handle))
      /\ op' = Idle /\ answer' = NoAnswer
      /\ UNCHANGED <<live, svclist, published, relayed, lister>>
  BY DEF AddReply
<1>2. op' \in [pc: {"idle", "acquire", "link", "reply"}, req: Request] /\ op'.pc = "idle"
  BY <1>1, BlankFields DEF Idle
<1>3. ManagerTypeOK' /\ ListingOK' /\ OpOK' /\ (Gone => Gone')
  BY <1>1, <1>2, ListingSame, BlankFields DEF ManagerInv, ManagerTypeOK, OpOK, Gone
<1>4. PICK h \in Handle : h = op.req.handle /\ ref[h] # NULL /\ Cardinality(Entries(svclist, h)) > 0
  BY <1>1, OpEntry
<1>5. PICK s : s = Driver
  OBVIOUS
<1>6. /\ IsDriver(s) /\ s.ref = ref /\ s.inbox = inbox /\ s.ref[h] # NULL
      /\ RefsFor(s.ref) /\ Inbox(s.ref, live, lister, s.inbox)
  BY <1>4, <1>5, DriverIs DEF ManagerInv, RefsOK, InboxOK
<1>7. s.ref[h].strong > Cardinality(Adds(s.inbox, h))
  BY <1>4, <1>6, CountIs DEF Strong
<1>8. PICK t : t = Released(s, h)
  OBVIOUS
<1>9. /\ RefsFor(t.ref) /\ Inbox(t.ref, live, lister, t.inbox)
      /\ \A k \in Handle : Strong(t.ref, k) = IF k = h THEN Strong(s.ref, h) - 1 ELSE Strong(s.ref, k)
      /\ \A k \in Handle : Cardinality(Adds(t.inbox, k)) = Cardinality(Adds(s.inbox, k))
      /\ \A k \in Handle : t.ref[k] # NULL => s.ref[k] # NULL /\ t.ref[k].service = s.ref[k].service
  BY <1>6, <1>7, <1>8, ReleasedKeeps
<1>10. ref' = t.ref /\ inbox' = t.inbox
  BY <1>1, <1>4, <1>5, <1>8 DEF Becomes
<1>11. RefsOK' /\ InboxOK'
  BY <1>1, <1>9, <1>10 DEF RefsOK, InboxOK
<1>12. Balanced'
  <2>1. ASSUME NEW k \in Handle
        PROVE  Strong(t.ref, k) = Cardinality(Entries(svclist, k)) + Cardinality(Adds(t.inbox, k)) + Pending(op', k)
    <3>1. Pending(op', k) = 0 /\ Pending(op, k) = IF k = h THEN 1 ELSE 0
      BY <1>1, <1>2, <1>4 DEF Pending
    <3> QED BY <1>6, <1>9, <3>1, CountIs
  <2> QED BY <1>1, <1>10, <2>1 DEF Balanced
<1>13. ListOK'
  <2>1. inbox' \in Seq(Request)
    BY <1>9, <1>10 DEF Inbox
  <2> QED BY <1>1, <1>6, <1>9, <1>10, <1>12, <2>1, ListSame
<1> QED BY <1>3, <1>11, <1>12, <1>13 DEF ManagerInv

\* The claim of nm's entry goes with its handle.
LEMMA DeathReleasesKeeps ==
    ASSUME ManagerInv, op = Idle, inbox # <<>>, NEW s, Onward(s), NEW nm,
           NEW t, t = DeathReleases(s, nm), NEW k, k = find_svc(svclist, nm)
    PROVE  /\ RefsFor(t.ref) /\ Inbox(t.ref, live, lister, t.inbox)
           /\ \A g \in Handle : Strong(t.ref, g) =
                 Strong(ref, g) - (IF k # 0 /\ svclist[k].handle = g THEN 1 ELSE 0)
           /\ \A g \in Handle : Cardinality(Adds(t.inbox, g)) = Cardinality(Adds(Tail(inbox), g))
           /\ \A g \in Handle : t.ref[g] # NULL => ref[g] # NULL /\ t.ref[g].service = ref[g].service
<1>1. /\ IsDriver(s) /\ s.inbox = Tail(inbox) /\ RefsFor(s.ref) /\ Kept(ref, s.ref)
      /\ \A g \in Handle : Strong(s.ref, g) = Strong(ref, g)
      /\ \A g \in Handle : s.ref[g] # NULL => ref[g] # NULL /\ s.ref[g].service = ref[g].service
  BY DEF Onward
<1>3. Inbox(s.ref, live, lister, s.inbox)
  BY <1>1, TakeHead, InboxKept
<1>4. svclist \in Seq(Entry) /\ inbox \in Seq(Request)
  BY DEF ManagerInv, ManagerTypeOK, InboxOK, Inbox
<1>5. k # 0 => k \in DOMAIN svclist
  BY <1>4, FindIndex
<1>6. CASE k # 0 /\ svclist[k].handle # 0
  <2>1. PICK h \in Handle : h = svclist[k].handle
    BY <1>4, <1>5, <1>6, EntryHandle
  <2>2. t = Released(s, h)
    BY <1>6, <2>1 DEF DeathReleases, HasHandle
  <2>3. ref[h] # NULL /\ Cardinality(Entries(svclist, h)) > 0
    BY <1>4, <1>5, <1>6, <2>1, CountIs, EntryHeld
  <2>4. Cardinality(Adds(inbox, h)) >= Cardinality(Adds(Tail(inbox), h))
    <3>1. PICK w : w = Head(inbox)
      OBVIOUS
    <3>2. /\ Cardinality(Adds(Tail(inbox), h)) \in Nat /\ Cardinality(Adds(inbox, h)) \in Nat
          /\ Cardinality(Adds(inbox, h)) = Cardinality(Adds(Tail(inbox), h))
                + (IF w.code = "add" /\ w.handle = h THEN 1 ELSE 0)
      BY <3>1, TakeHead
    <3> QED BY <3>2
  <2>5. s.ref[h].strong > Cardinality(Adds(s.inbox, h))
    <3>1. Cardinality(Adds(Tail(inbox), h)) \in Nat
      BY TakeHead
    <3>2. s.ref[h] # NULL /\ s.ref[h].strong = Strong(ref, h)
      BY <1>1, <2>3 DEF Kept, Strong
    <3> QED BY <1>1, <2>3, <2>4, <3>1, <3>2, CountIs
  <2>6. /\ RefsFor(t.ref) /\ Inbox(t.ref, live, lister, t.inbox)
        /\ \A g \in Handle : Strong(t.ref, g) = IF g = h THEN Strong(s.ref, h) - 1 ELSE Strong(s.ref, g)
        /\ \A g \in Handle : Cardinality(Adds(t.inbox, g)) = Cardinality(Adds(s.inbox, g))
        /\ \A g \in Handle : t.ref[g] # NULL => s.ref[g] # NULL /\ t.ref[g].service = s.ref[g].service
    <3>1. s.ref[h] # NULL
      BY <1>1, <2>3 DEF Kept
    <3>3. LET u == Released(s, h)
          IN /\ RefsFor(u.ref) /\ Inbox(u.ref, live, lister, u.inbox)
             /\ \A g \in Handle : Strong(u.ref, g) = IF g = h THEN Strong(s.ref, h) - 1 ELSE Strong(s.ref, g)
             /\ \A g \in Handle : Cardinality(Adds(u.inbox, g)) = Cardinality(Adds(s.inbox, g))
             /\ \A g \in Handle : u.ref[g] # NULL => s.ref[g] # NULL /\ u.ref[g].service = s.ref[g].service
      BY <1>1, <1>3, <2>5, <3>1, ReleasedKeeps
    <3> QED BY <2>2, <3>3
  <2>7. \A g \in Handle : Strong(t.ref, g) =
           Strong(ref, g) - (IF k # 0 /\ svclist[k].handle = g THEN 1 ELSE 0)
    <3> TAKE g \in Handle
    <3>1. Strong(ref, g) \in Nat
      <4>1. PICK a \in Nat, b \in Nat, c \in {0, 1} : Strong(ref, g) = a + b + c
        BY CountIs
      <4> QED BY <4>1
    <3> QED BY <1>1, <1>6, <2>1, <2>6, <3>1
  <2> QED BY <1>1, <2>6, <2>7
<1>7. CASE ~(k # 0 /\ svclist[k].handle # 0)
  <2>1. t = s
    BY <1>7 DEF DeathReleases, HasHandle
  <2>2. \A g \in Handle : ~(k # 0 /\ svclist[k].handle = g) /\ Strong(ref, g) - 0 = Strong(ref, g)
    <3> TAKE g \in Handle
    <3>1. g # 0
      BY HandleNat
    <3>2. PICK a \in Nat, b \in Nat, c \in {0, 1} : Strong(ref, g) = a + b + c
      BY CountIs
    <3> QED BY <1>7, <3>1, <3>2
  <2>3. \A g \in Handle : Strong(t.ref, g) =
           Strong(ref, g) - (IF k # 0 /\ svclist[k].handle = g THEN 1 ELSE 0)
    BY <1>1, <2>1, <2>2
  <2> QED BY <1>1, <1>3, <2>1, <2>3
<1> QED BY <1>6, <1>7

\* new is list with the handle h in the entry of nm.
Relisted(list, new, nm, h) ==
    /\ new \in Seq(Entry)
    /\ \A i, j \in DOMAIN new : new[i].name = new[j].name => i = j
    /\ \E i \in DOMAIN new : new[i].name = nm /\ new[i].handle = h
    /\ \A i \in DOMAIN new : new[i].name # nm => \E j \in DOMAIN list : list[j] = new[i]
    /\ \A j \in DOMAIN list : \E i \in DOMAIN new : new[i].name = list[j].name /\ i >= j

\* The entries of g in new, when nm's entry is at k in list, or nowhere.
Recounted(list, new, k, h, g) ==
    Cardinality(Entries(new, g)) =
        Cardinality(Entries(list, g)) - (IF k # 0 /\ list[k].handle = g THEN 1 ELSE 0)
                                      + (IF h = g THEN 1 ELSE 0)

LEMMA EntryChanged ==
    ASSUME NEW list \in Seq(Entry), \A i, j \in DOMAIN list : list[i].name = list[j].name => i = j,
           NEW k \in DOMAIN list, NEW h, NEW new \in Seq(Entry), DOMAIN new = DOMAIN list,
           new[k].name = list[k].name, new[k].handle = h,
           \A i \in DOMAIN list : i # k => new[i] = list[i]
    PROVE  /\ Relisted(list, new, list[k].name, h)
           /\ \A g \in Handle : Recounted(list, new, k, h, g)
<1>1. DOMAIN list = 1 .. Len(list) /\ Len(list) \in Nat
  OBVIOUS
<1>2. \A i \in DOMAIN list : new[i].name = list[i].name
  OBVIOUS
<1>3. \A i \in DOMAIN new : new[i].name # list[k].name => \E j \in DOMAIN list : list[j] = new[i]
  BY <1>2
<1>4. \A j \in DOMAIN list : \E i \in DOMAIN new : new[i].name = list[j].name /\ i >= j
  <2> TAKE j \in DOMAIN list
  <2>1. j >= j
    BY <1>1
  <2> QED BY <1>2, <2>1
<1>5. \A i, j \in DOMAIN new : new[i].name = new[j].name => i = j
  BY <1>2
<1>6. Relisted(list, new, list[k].name, h)
  BY <1>3, <1>4, <1>5 DEF Relisted
<1>7. ASSUME NEW g \in Handle
      PROVE  Recounted(list, new, k, h, g)
  <2>1. \A i \in DOMAIN list : i # k => new[i].handle = list[i].handle
    OBVIOUS
  <2>2. Cardinality(Entries(new, g)) =
           Cardinality(Entries(list, g)) - (IF list[k].handle = g THEN 1 ELSE 0)
                                         + (IF new[k].handle = g THEN 1 ELSE 0)
    BY <2>1, ChangedEntries
  <2>3. k # 0
    BY <1>1
  <2> QED BY <2>2, <2>3 DEF Recounted
<1> QED BY <1>6, <1>7

LEMMA EntrySet ==
    ASSUME NEW list \in Seq(Entry), \A i, j \in DOMAIN list : list[i].name = list[j].name => i = j,
           NEW k \in DOMAIN list, NEW h \in Handle \cup {0}, NEW new,
           new = [i \in DOMAIN list |-> IF i = k THEN [list[i] EXCEPT !.handle = h] ELSE list[i]]
    PROVE  /\ Relisted(list, new, list[k].name, h)
           /\ \A g \in Handle : Recounted(list, new, k, h, g)
<1>1. DOMAIN list = 1 .. Len(list) /\ Len(list) \in Nat /\ \A i \in DOMAIN list : list[i] \in Entry
  OBVIOUS
<1>2. PICK e \in Entry : e = [list[k] EXCEPT !.handle = h] /\ e.handle = h /\ e.name = list[k].name
  BY <1>1 DEF Entry
<1>3. new = [i \in DOMAIN list |-> IF i = k THEN e ELSE list[i]]
  BY <1>2
<1>4. DOMAIN new = DOMAIN list /\ new[k] = e /\ \A i \in DOMAIN list : i # k => new[i] = list[i]
  BY <1>3
<1>5. new \in Seq(Entry)
  <2>1. new \in [1 .. Len(list) -> Entry]
    BY <1>1, <1>3
  <2> QED BY <1>1, <2>1
<1>6. PICK p \in Seq(Entry) : p = new
  BY <1>5
<1>7. /\ DOMAIN p = DOMAIN list /\ p[k].name = list[k].name /\ p[k].handle = h
      /\ \A i \in DOMAIN list : i # k => p[i] = list[i]
  BY <1>2, <1>4, <1>6
<1>8. /\ Relisted(list, p, list[k].name, h)
      /\ \A g \in Handle : Recounted(list, p, k, h, g)
  BY <1>7, EntryChanged
<1> QED BY <1>6, <1>8

LEMMA EntryNew ==
    ASSUME NEW list \in Seq(Entry), \A i, j \in DOMAIN list : list[i].name = list[j].name => i = j,
           NEW e \in Entry, e.name \notin NamesIn(list), NEW new, new = <<e>> \o list
    PROVE  /\ Relisted(list, new, e.name, e.handle)
           /\ \A g \in Handle : Recounted(list, new, 0, e.handle, g)
<1>1. /\ new \in Seq(Entry)
      /\ DOMAIN new = 1 .. Len(list) + 1 /\ DOMAIN list = 1 .. Len(list) /\ Len(list) \in Nat
      /\ new[1] = e
      /\ \A i \in DOMAIN list : i + 1 \in DOMAIN new /\ new[i + 1] = list[i]
      /\ \A i \in DOMAIN new : i # 1 => i - 1 \in DOMAIN list /\ new[i] = list[i - 1]
  BY PrependEntries
<1>2. \A i \in DOMAIN list : list[i].name # e.name
  BY DEF NamesIn
<1>3. ASSUME NEW i \in DOMAIN new, NEW j \in DOMAIN new, new[i].name = new[j].name
      PROVE  i = j
  <2>1. (i = 1) <=> (j = 1)
    BY <1>1, <1>2, <1>3
  <2>2. CASE i # 1
    <3>1. i - 1 = j - 1
      BY <1>1, <1>3, <2>1, <2>2
    <3> QED BY <1>1, <3>1
  <2> QED BY <2>1, <2>2
<1>4. \A i \in DOMAIN new : new[i].name # e.name => \E j \in DOMAIN list : list[j] = new[i]
  BY <1>1
<1>5. ASSUME NEW j \in DOMAIN list
      PROVE  \E i \in DOMAIN new : new[i].name = list[j].name /\ i >= j
  <2>1. j + 1 \in DOMAIN new /\ new[j + 1].name = list[j].name /\ j + 1 >= j
    BY <1>1
  <2> QED BY <2>1
<1>6. 1 \in DOMAIN new
  BY <1>1
<1>7. Relisted(list, new, e.name, e.handle)
  BY <1>1, <1>3, <1>4, <1>5, <1>6 DEF Relisted
<1>8. ASSUME NEW g \in Handle
      PROVE  Recounted(list, new, 0, e.handle, g)
  <2>1. Cardinality(Entries(new, g)) = Cardinality(Entries(list, g)) + (IF e.handle = g THEN 1 ELSE 0)
    BY PrependEntries
  <2>2. Cardinality(Entries(list, g)) \in Nat
    BY IndicesFinite DEF Entries
  <2> QED BY <2>1, <2>2 DEF Recounted
<1> QED BY <1>7, <1>8

\* What do_add_service and svcinfo_death have in common: the handle h takes the place of
\* the one in nm's entry, if there is one.
LEMMA RelistedKeeps ==
    ASSUME ManagerInv, op = Idle, inbox # <<>>, NEW nm \in Name, NEW h \in Handle \cup {0},
           NEW k, k = find_svc(svclist, nm), NEW s, Onward(s), Becomes(DeathReleases(s, nm)),
           Relisted(svclist, svclist', nm, h), \A g \in Handle : Recounted(svclist, svclist', k, h, g),
           \A g \in Handle : Pending(op', g) = 0,
           \A g \in Handle : (h = g) <=> (Head(inbox).code = "add" /\ Head(inbox).handle = g),
           \A n \in Name : n # nm => published'[n] = published[n],
           h # 0 => published'[nm] = ref[h].service /\ <<nm, ref[h].service>> \in Pairs,
           UNCHANGED <<live, relayed, lister>>
    PROVE  RefsOK' /\ InboxOK' /\ ListOK' /\ ListingOK' /\ Balanced'
<1>1. PICK new \in Seq(Entry) : new = svclist'
  BY DEF Relisted
<1>2. PICK t : t = DeathReleases(s, nm)
  OBVIOUS
<1>3. ref' = t.ref /\ inbox' = t.inbox
  BY <1>2 DEF Becomes
<1>4. /\ RefsFor(t.ref) /\ Inbox(t.ref, live, lister, t.inbox)
      /\ \A g \in Handle : Strong(t.ref, g) =
            Strong(ref, g) - (IF k # 0 /\ svclist[k].handle = g THEN 1 ELSE 0)
      /\ \A g \in Handle : Cardinality(Adds(t.inbox, g)) = Cardinality(Adds(Tail(inbox), g))
      /\ \A g \in Handle : t.ref[g] # NULL => ref[g] # NULL /\ t.ref[g].service = ref[g].service
  BY <1>2, DeathReleasesKeeps
<1>5. RefsOK' /\ InboxOK'
  BY <1>3, <1>4 DEF RefsOK, InboxOK
<1>6. ASSUME NEW g \in Handle
      PROVE  Strong(t.ref, g) = Cardinality(Entries(new, g)) + Cardinality(Adds(t.inbox, g)) + Pending(op', g)
  <2>1. PICK a \in Nat, b \in Nat, c \in Nat, x \in {0, 1}, y \in {0, 1} :
           /\ a = Cardinality(Entries(svclist, g)) /\ b = Cardinality(Adds(inbox, g))
           /\ c = Cardinality(Adds(Tail(inbox), g))
           /\ x = (IF k # 0 /\ svclist[k].handle = g THEN 1 ELSE 0)
           /\ y = (IF h = g THEN 1 ELSE 0)
    <3>1. /\ Cardinality(Entries(svclist, g)) \in Nat /\ Cardinality(Adds(inbox, g)) \in Nat
          /\ Cardinality(Adds(Tail(inbox), g)) \in Nat
      BY CountIs, TakeHead
    <3> QED BY <3>1
  <2>2. Pending(op, g) = 0
    BY DEF Pending, Idle
  <2>3. Strong(ref, g) = a + b + 0
    BY <2>1, <2>2, CountIs
  <2>4. b = c + y
    <3>1. PICK w : w = Head(inbox)
      OBVIOUS
    <3>2. b = c + (IF w.code = "add" /\ w.handle = g THEN 1 ELSE 0)
      BY <2>1, <3>1, TakeHead
    <3>3. (h = g) <=> (w.code = "add" /\ w.handle = g)
      BY <3>1
    <3> QED BY <2>1, <3>2, <3>3
  <2>5. Strong(t.ref, g) = Strong(ref, g) - x
    BY <1>4, <2>1
  <2>6. Cardinality(Entries(new, g)) = a - x + y
    BY <1>1, <2>1 DEF Recounted
  <2>7. Cardinality(Adds(t.inbox, g)) = c /\ Pending(op', g) = 0
    BY <1>4, <2>1
  <2> QED BY <2>3, <2>4, <2>5, <2>6, <2>7
<1>7. Balanced'
  BY <1>1, <1>3, <1>6 DEF Balanced
<1>8. ListOK'
  <2>1. \A i, j \in DOMAIN new : new[i].name = new[j].name => i = j
    BY <1>1 DEF Relisted
  <2>2. ASSUME NEW i \in DOMAIN new, new[i].handle # 0
        PROVE  /\ t.ref[new[i].handle] # NULL
               /\ t.ref[new[i].handle].service = published'[new[i].name]
               /\ <<new[i].name, published'[new[i].name]>> \in Pairs
    <3>1. PICK g \in Handle : g = new[i].handle
      BY <2>2, EntryHandle
    <3>2. PICK q, o : q \in Seq(Request) /\ q = t.inbox /\ o = op'
      BY <1>4 DEF Inbox
    <3>3. PICK r : r = t.ref
      OBVIOUS
    <3>4. Strong(r, g) = Cardinality(Entries(new, g)) + Cardinality(Adds(q, g)) + Pending(o, g)
      BY <1>6, <3>2, <3>3
    <3>5. r[g] # NULL
      BY <3>1, <3>2, <3>4, EntryHeld
    <3>6. t.ref[g] # NULL /\ t.ref[g].service = ref[g].service
      BY <1>4, <3>3, <3>5
    <3>7. CASE new[i].name = nm
      <4>1. PICK j \in DOMAIN new : new[j].name = nm /\ new[j].handle = h
        BY <1>1 DEF Relisted
      <4>2. g = h
        BY <2>1, <3>1, <3>7, <4>1
      <4> QED BY <2>2, <3>1, <3>6, <3>7, <4>2
    <3>8. CASE new[i].name # nm
      <4>1. PICK j \in DOMAIN svclist : svclist[j] = new[i]
        BY <1>1, <3>8 DEF Relisted
      <4>2. new[i].name \in Name
        BY EntryHandle
      <4>3. ref[g].service = published[new[i].name] /\ <<new[i].name, published[new[i].name]>> \in Pairs
        BY <2>2, <3>1, <4>1 DEF ManagerInv, ListOK
      <4> QED BY <3>1, <3>6, <3>8, <4>2, <4>3
    <3> QED BY <3>7, <3>8
  <2>3. ASSUME NEW n \in Name \ NamesIn(new)
        PROVE  published'[n] = NULL
    <3>1. \A i \in DOMAIN new : new[i].name # n
      BY DEF NamesIn
    <3>2. n # nm
      BY <1>1, <3>1 DEF Relisted
    <3>3. \A j \in DOMAIN svclist : svclist[j].name # n
      BY <1>1, <3>1 DEF Relisted
    <3>4. n \notin NamesIn(svclist)
      BY <3>3 DEF NamesIn
    <3> QED BY <3>2, <3>4 DEF ManagerInv, ListOK
  <2> QED BY <1>1, <1>3, <2>1, <2>2, <2>3 DEF ListOK
<1>9. ListingOK'
  <2>1. ASSUME lister.state \in {"idle", "asked"}, NEW n \in lister.unseen
        PROVE  \E i \in DOMAIN new : /\ new[i].name = n
                                     /\ i > lister.n \/ (lister.state = "asked" /\ i = lister.n)
    <3>1. PICK j \in DOMAIN svclist : /\ svclist[j].name = n
                                      /\ j > lister.n \/ (lister.state = "asked" /\ j = lister.n)
      BY <2>1 DEF ManagerInv, ListingOK
    <3>2. PICK i \in DOMAIN new : new[i].name = svclist[j].name /\ i >= j
      BY <1>1 DEF Relisted
    <3>3. i \in Nat /\ j \in Nat /\ lister.n \in Nat
      BY DEF ManagerInv, ManagerTypeOK
    <3>4. i > lister.n \/ (lister.state = "asked" /\ i = lister.n)
      BY <3>1, <3>2, <3>3
    <3> QED BY <3>1, <3>2, <3>4
  <2> QED BY <1>1, <2>1 DEF ManagerInv, ListingOK, ListComplete
<1> QED BY <1>5, <1>7, <1>8, <1>9

LEMMA StartAddKeeps ==
    ASSUME ManagerInv, StartAdd
    PROVE  /\ ManagerInv' /\ (Gone => Gone')
           /\ \E nm \in Name, h \in Handle :
                 /\ Relisted(svclist, svclist', nm, h) /\ ref[h] # NULL
                 /\ published' = [published EXCEPT ![nm] = ref[h].service]
<1>1. PICK w \in Request : w = Head(inbox)
  BY TakeHead DEF StartAdd, NextIs
<1>2. /\ op = Idle /\ inbox # <<>> /\ w.code = "add" /\ w.handle # 0
      /\ Becomes(DeathReleases(Rest, w.name))
      /\ svclist' = NewList(w)
      /\ op' = [pc |-> "acquire", req |-> w]
      /\ published' = [published EXCEPT ![w.name] = ref[w.handle].service]
      /\ answer' = NoAnswer
      /\ UNCHANGED <<live, relayed, lister>>
  BY <1>1 DEF StartAdd, NextIs
<1>3. Item(ref, live, lister, w) /\ w.handle \in Handle /\ w.isolated \in BOOLEAN
  BY <1>1, <1>2, TakeHead DEF Request
<1>4. PICK nm \in Name, h \in Handle :
         nm = w.name /\ h = w.handle /\ ref[h] # NULL /\ <<nm, ref[h].service>> \in Pairs
  BY <1>2, <1>3 DEF Item
<1>5. /\ svclist \in Seq(Entry) /\ published \in [Name -> Service \cup {NULL}]
      /\ \A i, j \in DOMAIN svclist : svclist[i].name = svclist[j].name => i = j
  BY DEF ManagerInv, ManagerTypeOK, ListOK
<1>6. PICK k : k = find_svc(svclist, nm)
  OBVIOUS
<1>7. PICK new : new = svclist'
  OBVIOUS
<1>8. Relisted(svclist, new, nm, h) /\ \A g \in Handle : Recounted(svclist, new, k, h, g)
  <2>1. CASE nm \in NamesIn(svclist)
    <3>1. k \in DOMAIN svclist /\ svclist[k].name = nm
      BY <1>5, <1>6, <2>1, FindIndex
    <3>2. new = [svclist EXCEPT ![k].handle = h]
      BY <1>2, <1>4, <1>6, <1>7, <2>1 DEF NewList
    <3>3. new = [i \in DOMAIN svclist |-> IF i = k THEN [svclist[i] EXCEPT !.handle = h] ELSE svclist[i]]
      BY <1>5, <3>1, <3>2
    <3> QED BY <1>5, <3>1, <3>3, EntrySet
  <2>2. CASE nm \notin NamesIn(svclist)
    <3>1. k = 0
      BY <1>5, <1>6, <2>2, FindIndex
    <3>2. PICK e \in Entry : /\ e = [name |-> nm, handle |-> h, allow_isolated |-> w.isolated]
                             /\ e.name = nm /\ e.handle = h
      <4> DEFINE x == [name |-> nm, handle |-> h, allow_isolated |-> w.isolated]
      <4>1. x \in Entry /\ x.name = nm /\ x.handle = h
        BY <1>3 DEF Entry
      <4> QED BY <4>1
    <3>3. new = <<e>> \o svclist
      BY <1>2, <1>4, <1>7, <2>2, <3>2 DEF NewList
    <3>4. /\ Relisted(svclist, new, e.name, e.handle)
          /\ \A g \in Handle : Recounted(svclist, new, 0, e.handle, g)
      BY <1>5, <2>2, <3>2, <3>3, EntryNew
    <3> QED BY <3>1, <3>2, <3>4
  <2> QED BY <2>1, <2>2
<1>9. /\ published' = [published EXCEPT ![nm] = ref[h].service]
      /\ published'[nm] = ref[h].service /\ ref[h].service \in Service
      /\ \A n \in Name : n # nm => published'[n] = published[n]
      /\ published' \in [Name -> Service \cup {NULL}]
  <2>1. ref[h].service \in Service
    BY <1>4 DEF ManagerInv, RefsOK, RefsFor, RefRec
  <2>2. published' = [published EXCEPT ![nm] = ref[h].service]
    BY <1>2, <1>4
  <2> QED BY <1>5, <2>1, <2>2
<1>10. op'.pc = "acquire" /\ op'.req = w /\ \A g \in Handle : Pending(op', g) = 0
  BY <1>2 DEF Pending
<1>11. h # 0 /\ \A g \in Handle : (h = g) <=> (Head(inbox).code = "add" /\ Head(inbox).handle = g)
  BY <1>1, <1>2, <1>4
<1>12. RefsOK' /\ InboxOK' /\ ListOK' /\ ListingOK' /\ Balanced'
  <2>1. Becomes(DeathReleases(Rest, nm))
    BY <1>2, <1>4
  <2>2. PICK s : s = Rest /\ Onward(s)
    BY RestOnward
  <2> QED BY <1>2, <1>4, <1>6, <1>7, <1>8, <1>9, <1>10, <1>11, <2>1, <2>2, RelistedKeeps
<1>13. ManagerTypeOK'
  <2>1. svclist' \in Seq(Entry)
    BY <1>7, <1>8 DEF Relisted
  <2>2. op' \in [pc: {"idle", "acquire", "link", "reply"}, req: Request]
    BY <1>2
  <2> QED BY <1>2, <1>9, <2>1, <2>2, BlankFields DEF ManagerInv, ManagerTypeOK
<1>14. OpOK'
  <2>1. \E i \in DOMAIN new : new[i].name = nm /\ new[i].handle = h
    BY <1>8 DEF Relisted
  <2> QED BY <1>4, <1>7, <1>10, <2>1 DEF OpOK
<1>15. Gone => Gone'
  <2> SUFFICES ASSUME Gone, NEW i \in DOMAIN new, new[i].handle = 0
               PROVE  published'[new[i].name] \notin live \/ new[i].name \in relayed
    BY <1>2, <1>7 DEF Gone
  <2>1. new[i].name # nm
    <3> SUFFICES ASSUME new[i].name = nm PROVE FALSE
      OBVIOUS
    <3>1. PICK j \in DOMAIN new : new[j].name = nm /\ new[j].handle = h
      BY <1>8 DEF Relisted
    <3>2. i = j
      BY <1>8, <3>1 DEF Relisted
    <3> QED BY <1>11, <3>1, <3>2
  <2>2. PICK j \in DOMAIN svclist : svclist[j] = new[i]
    BY <1>8, <2>1 DEF Relisted
  <2>3. new[i].name \in Name
    BY <1>5, <2>2, EntryHandle
  <2> QED BY <1>9, <2>1, <2>2, <2>3 DEF Gone
<1> QED BY <1>4, <1>7, <1>8, <1>9, <1>12, <1>13, <1>14, <1>15 DEF ManagerInv

\* When the death of its service is handled, the entry of that name is the one with its
\* handle, or a request made after the death waits, which held the reference.
LEMMA DeadEntry ==
    ASSUME ManagerInv, OneName, DeathsOK, NextIs("dead"), NEW h, h = Head(inbox).handle
    PROVE  /\ ref[h].service \notin live
           /\ \/ ref[h].cookie \in relayed
              \/ \E i \in DOMAIN svclist : svclist[i].name = ref[h].cookie /\ svclist[i].handle = h
<1>1. op = Idle /\ inbox # <<>> /\ Head(inbox).code = "dead"
  BY DEF NextIs
<1>2. PICK w \in Request : w = Head(inbox) /\ w.code = "dead" /\ h = w.handle
  BY <1>1, TakeHead
<1>3. /\ h \in Handle /\ ref[h] # NULL /\ ref[h].cookie # NULL /\ ref[h].service \notin live
  BY <1>1, <1>2, TakeHead DEF Item
<1>4. <<ref[h].cookie, ref[h].service>> \in Pairs
  BY <1>3 DEF ManagerInv, RefsOK, RefsFor
<1>5. inbox \in Seq(Request) /\ 1 \in DOMAIN inbox /\ inbox[1] = w
  <2>1. inbox \in Seq(Request)
    BY DEF ManagerInv, InboxOK, Inbox
  <2> QED BY <1>1, <1>2, <2>1
<1>6. h # 0
  BY <1>3, HandleNat
<1>7. CASE Adds(inbox, h) # {}
  <2>1. PICK j \in DOMAIN inbox : inbox[j].code = "add" /\ inbox[j].handle = h
    BY <1>7 DEF Adds
  <2>2. PICK x \in Request : x = inbox[j]
    BY <1>5
  <2>3. Item(ref, live, lister, x)
    BY <2>2 DEF ManagerInv, InboxOK, Inbox
  <2>4. <<x.name, ref[h].service>> \in Pairs
    BY <1>6, <2>1, <2>2, <2>3 DEF Item
  <2>5. x.name = ref[h].cookie
    BY <1>4, <2>4 DEF OneName
  <2>6. 1 < j
    <3>1. j # 1
      BY <1>2, <1>5, <2>1
    <3> QED BY <1>5, <3>1
  <2>7. Late(inbox, 1, j)
    BY <1>2, <1>5, <2>1, <2>6 DEF Late
  <2>8. x.name \in relayed \/ <<h, x.name>> \in Placed(svclist)
    BY <1>1, <1>5, <2>1, <2>2, <2>7 DEF DeathsOK, Overtaken, Idle
  <2> QED BY <1>3, <2>5, <2>8 DEF Placed
<1>8. CASE Adds(inbox, h) = {}
  <2>1. Cardinality(Adds(inbox, h)) = 0
    BY <1>8, FS_EmptySet
  <2>2. Strong(ref, h) \in Nat /\ Strong(ref, h) # 0
    <3>1. ref \in [Handle -> RefRec \cup {NULL}] /\ ref[h].strong # 0
      BY <1>3 DEF ManagerInv, RefsOK, RefsFor
    <3>2. ref[h] \in RefRec
      BY <1>3, <3>1
    <3> QED BY <1>3, <3>1, <3>2 DEF Strong, RefRec
  <2>3. Pending(op, h) = 0
    BY <1>1 DEF Pending, Idle
  <2>4. Cardinality(Entries(svclist, h)) # 0
    BY <1>3, <2>1, <2>2, <2>3, CountIs
  <2>5. Entries(svclist, h) # {}
    BY <2>4, FS_EmptySet
  <2>6. PICK i \in DOMAIN svclist : svclist[i].handle = h
    BY <2>5 DEF Entries
  <2>7. <<svclist[i].name, ref[h].service>> \in Pairs
    BY <1>6, <2>6 DEF ManagerInv, ListOK
  <2>8. svclist[i].name = ref[h].cookie
    BY <1>4, <2>7 DEF OneName
  <2> QED BY <1>3, <2>6, <2>8
<1> QED BY <1>7, <1>8

LEMMA HandleDeathKeeps ==
    ASSUME ManagerInv, HandleDeath
    PROVE  /\ ManagerInv'
           /\ OneName /\ DeathsOK /\ Gone => Gone'
           /\ OneName /\ DeathsOK =>
                 \/ svclist' = svclist
                 \/ \E i \in DOMAIN svclist, nm \in Name :
                       /\ svclist[i].name = nm /\ (published[nm] \notin live \/ nm \in relayed)
                       /\ Relisted(svclist, svclist', nm, 0)
<1>1. PICK w \in Request : w = Head(inbox)
  BY TakeHead DEF HandleDeath, NextIs
<1>2. PICK nm : nm = ref[w.handle].cookie
  OBVIOUS
<1>3. /\ NextIs("dead") /\ op = Idle /\ inbox # <<>> /\ w.code = "dead"
      /\ Becomes(DeathReleases([Rest EXCEPT !.ref[w.handle].told = TRUE], nm))
      /\ svclist' = [i \in DOMAIN svclist |->
                        IF svclist[i].name = nm THEN [svclist[i] EXCEPT !.handle = 0]
                        ELSE svclist[i]]
      /\ answer' = NoAnswer
      /\ UNCHANGED <<live, op, published, relayed, lister>>
  BY <1>1, <1>2 DEF HandleDeath, NextIs
<1>4. w.handle \in Handle /\ ref[w.handle] # NULL /\ nm # NULL
  BY <1>1, <1>2, <1>3, TakeHead DEF Item
<1>5. nm \in Name
  <2>1. ref[w.handle] \in RefRec
    BY <1>4 DEF ManagerInv, RefsOK, RefsFor
  <2> QED BY <1>2, <1>4, <2>1 DEF RefRec
<1>6. /\ svclist \in Seq(Entry)
      /\ \A i, j \in DOMAIN svclist : svclist[i].name = svclist[j].name => i = j
  BY DEF ManagerInv, ManagerTypeOK, ListOK
<1>7. PICK k : k = find_svc(svclist, nm)
  OBVIOUS
<1>8. \A g \in Handle : g # 0 /\ Pending(op', g) = 0
  BY <1>3, HandleNat DEF Pending, Idle
<1>9. OpOK'
  BY <1>3 DEF ManagerInv, OpOK, Idle
<1>12. PICK s : Onward(s) /\ Becomes(DeathReleases(s, nm))
  BY <1>3, <1>4, ToldOnward
<1>10. CASE nm \in NamesIn(svclist)
  <2>1. k \in DOMAIN svclist /\ svclist[k].name = nm
    BY <1>6, <1>7, <1>10, FindIndex
  <2>2. PICK new : new = svclist'
    OBVIOUS
  <2>3. new = [i \in DOMAIN svclist |-> IF i = k THEN [svclist[i] EXCEPT !.handle = 0] ELSE svclist[i]]
    <3>1. \A i \in DOMAIN svclist : (svclist[i].name = nm) <=> (i = k)
      BY <1>6, <2>1
    <3> QED BY <1>3, <2>2, <3>1
  <2>4. Relisted(svclist, new, nm, 0) /\ \A g \in Handle : Recounted(svclist, new, k, 0, g)
    BY <1>6, <2>1, <2>3, EntrySet
  <2>5. RefsOK' /\ InboxOK' /\ ListOK' /\ ListingOK' /\ Balanced'
    <3>1. \A g \in Handle : (0 = g) <=> (Head(inbox).code = "add" /\ Head(inbox).handle = g)
      BY <1>1, <1>3, <1>8
    <3>2. \A n \in Name : n # nm => published'[n] = published[n]
      BY <1>3
    <3>3. \A g \in Handle : Pending(op', g) = 0
      BY <1>8
    <3>4. PICK z : z = 0
      OBVIOUS
    <3>5. z \in Handle \cup {0}
      BY <3>4
    <3>6. /\ Relisted(svclist, svclist', nm, z) /\ \A g \in Handle : Recounted(svclist, svclist', k, z, g)
          /\ \A g \in Handle : (z = g) <=> (Head(inbox).code = "add" /\ Head(inbox).handle = g)
          /\ z # 0 => published'[nm] = ref[z].service /\ <<nm, ref[z].service>> \in Pairs
      BY <2>2, <2>4, <3>1, <3>4
    <3> QED BY <1>3, <1>5, <1>7, <1>12, <3>2, <3>3, <3>5, <3>6, RelistedKeeps
  <2>6. ManagerTypeOK'
    <3>1. svclist' \in Seq(Entry)
      BY <2>2, <2>4 DEF Relisted
    <3> QED BY <1>3, <3>1, BlankFields DEF ManagerInv, ManagerTypeOK
  <2>7. ASSUME OneName, DeathsOK
        PROVE  published[nm] \notin live \/ nm \in relayed
    <3>1. PICK h \in Handle : h = w.handle /\ h = Head(inbox).handle
      BY <1>1, <1>4
    <3>2. ref[h].service \notin live
      BY <1>3, <2>7, <3>1, DeadEntry
    <3>3. CASE nm \notin relayed
      <4>1. PICK i \in DOMAIN svclist : svclist[i].name = nm /\ svclist[i].handle = h
        BY <1>2, <1>3, <2>7, <3>1, <3>3, DeadEntry
      <4>2. h # 0
        BY <1>8
      <4>3. ref[h].service = published[nm]
        BY <4>1, <4>2 DEF ManagerInv, ListOK
      <4> QED BY <3>2, <4>3
    <3> QED BY <3>3
  <2>8. OneName /\ DeathsOK /\ Gone => Gone'
    <3> SUFFICES ASSUME OneName, DeathsOK, Gone, NEW i \in DOMAIN new, new[i].handle = 0
                 PROVE  published[new[i].name] \notin live \/ new[i].name \in relayed
      BY <1>3, <2>2 DEF Gone
    <3>1. CASE new[i].name = nm
      BY <2>7, <3>1
    <3>2. CASE new[i].name # nm
      <4>1. PICK j \in DOMAIN svclist : svclist[j] = new[i]
        BY <2>4, <3>2 DEF Relisted
      <4> QED BY <4>1 DEF Gone
    <3> QED BY <3>1, <3>2
  <2> QED BY <1>5, <1>9, <2>1, <2>2, <2>4, <2>5, <2>6, <2>7, <2>8 DEF ManagerInv
<1>11. CASE nm \notin NamesIn(svclist)
  <2>1. k = 0 /\ \A i \in DOMAIN svclist : svclist[i].name # nm
    BY <1>6, <1>7, <1>11, FindIndex DEF NamesIn
  <2>2. svclist' = svclist
    <3>1. svclist' = [i \in DOMAIN svclist |-> svclist[i]]
      BY <1>3, <2>1
    <3> QED BY <1>6, <3>1
  <2>3. Becomes(s)
    BY <1>7, <1>12, <2>1 DEF DeathReleases, HasHandle
  <2>4. RefsOK' /\ InboxOK' /\ ListOK' /\ Balanced' /\ (Gone => Gone')
    <3>1. Inbox(ref, live, lister', Tail(inbox)) /\ Head(inbox).code # "add"
      BY <1>1, <1>3, TakeHead
    <3> QED BY <1>3, <1>12, <2>2, <2>3, <3>1, TakeKeeps
  <2>5. ManagerTypeOK' /\ ListingOK'
    BY <1>3, <2>2, ListingSame, BlankFields DEF ManagerInv, ManagerTypeOK
  <2> QED BY <1>9, <2>2, <2>4, <2>5 DEF ManagerInv
<1> QED BY <1>10, <1>11

-----------------------------------------------------------------------------
(* The deaths that overtake requests *)

LEMMA OvertakenMore ==
    ASSUME NEW q, NEW placed, NEW names, NEW placed2, NEW names2, Overtaken(q, placed, names),
           placed \subseteq placed2, names \subseteq names2
    PROVE  Overtaken(q, placed2, names2)
BY DEF Overtaken

\* With an item gone the rest stays as it was, and with the first one gone no death is
\* the first that had overtaken its requests.
LEMMA OvertakenShrunk ==
    ASSUME NEW q \in Seq(Request), NEW p \in Seq(Request), NEW k, Shrunk(q, p, k),
           NEW placed, NEW names, Overtaken(q, placed, names)
    PROVE  Overtaken(p, placed, names) /\ (k = 1 => Overtaken(p, {}, names))
<1>1. /\ DOMAIN q = 1 .. Len(q) /\ Len(q) \in Nat /\ k \in 1 .. Len(q)
      /\ DOMAIN p = 1 .. Len(q) - 1
      /\ \A i \in 1 .. Len(q) - 1 : p[i] = q[IF i < k THEN i ELSE i + 1]
  BY DEF Shrunk
<1> DEFINE g(i) == IF i < k THEN i ELSE i + 1
<1>2. \A i \in DOMAIN p : g(i) \in DOMAIN q /\ p[i] = q[g(i)] /\ (g(i) = 1 => i = 1 /\ k # 1)
  BY <1>1
<1>3. \A i, j \in DOMAIN p : i < j => g(i) < g(j)
  BY <1>1
<1> HIDE DEF g
<1>4. ASSUME NEW i \in DOMAIN p, NEW j \in DOMAIN p, Late(p, i, j)
      PROVE  \/ p[j].name \in names
             \/ i = 1 /\ k # 1 /\ <<p[j].handle, p[j].name>> \in placed
  <2>1. Late(q, g(i), g(j))
    BY <1>2, <1>3, <1>4 DEF Late
  <2> QED BY <1>2, <2>1 DEF Overtaken
<1> QED BY <1>4 DEF Overtaken

LEMMA OvertakenAppend ==
    ASSUME NEW q \in Seq(Request), NEW w \in Request, NEW placed, NEW names,
           Overtaken(q, placed, names),
           \A i \in DOMAIN q : q[i].code = "dead" /\ w.code = "add" /\ q[i].handle = w.handle
                               => w.name \in names
    PROVE  Overtaken(Append(q, w), placed, names)
<1> DEFINE p == Append(q, w)
<1>1. /\ DOMAIN q = 1 .. Len(q) /\ Len(q) \in Nat
      /\ DOMAIN p = 1 .. Len(q) + 1 /\ p[Len(q) + 1] = w
      /\ \A i \in 1 .. Len(q) : p[i] = q[i]
  OBVIOUS
<1> HIDE DEF p
<1>2. ASSUME NEW i \in DOMAIN p, NEW j \in DOMAIN p, Late(p, i, j)
      PROVE  \/ p[j].name \in names
             \/ i = 1 /\ <<p[j].handle, p[j].name>> \in placed
  <2>1. i < j
    BY <1>2 DEF Late
  <2>2. i \in DOMAIN q /\ p[i] = q[i]
    BY <1>1, <2>1
  <2>3. CASE j \in DOMAIN q
    <3>1. p[j] = q[j]
      BY <1>1, <2>3
    <3>2. Late(q, i, j)
      BY <1>2, <2>2, <3>1 DEF Late
    <3> QED BY <2>2, <2>3, <3>1, <3>2 DEF Overtaken
  <2>4. CASE j = Len(q) + 1
    BY <1>1, <1>2, <2>2, <2>4 DEF Late
  <2> QED BY <1>1, <2>3, <2>4
<1> QED BY <1>2 DEF Overtaken, p

\* A death put first goes before requests of the service just placed.
LEMMA OvertakenPrepend ==
    ASSUME NEW q \in Seq(Request), NEW w \in Request, NEW placed, NEW names,
           Overtaken(q, {}, names),
           \A j \in DOMAIN q : q[j].code = "add" /\ q[j].handle = w.handle
                               => <<q[j].handle, q[j].name>> \in placed
    PROVE  Overtaken(<<w>> \o q, placed, names)
<1> DEFINE p == <<w>> \o q
<1>1. p \in Seq(Request) /\ p[1] = w /\ Shrunk(p, q, 1)
  BY ShrunkPrepend
<1>2. /\ DOMAIN p = 1 .. Len(q) + 1 /\ DOMAIN q = 1 .. Len(q) /\ Len(q) \in Nat
      /\ \A i \in 1 .. Len(q) : p[i + 1] = q[i]
  BY <1>1
<1> HIDE DEF p
<1>3. ASSUME NEW i \in DOMAIN p, i # 1
      PROVE  i - 1 \in DOMAIN q /\ p[i] = q[i - 1]
  <2>1. i - 1 \in 1 .. Len(q) /\ (i - 1) + 1 = i
    BY <1>2, <1>3
  <2> QED BY <1>2, <2>1
<1>4. ASSUME NEW i \in DOMAIN p, NEW j \in DOMAIN p, Late(p, i, j)
      PROVE  \/ p[j].name \in names
             \/ i = 1 /\ <<p[j].handle, p[j].name>> \in placed
  <2>1. i < j /\ j # 1 /\ i \in Nat /\ j \in Nat
    BY <1>2, <1>4 DEF Late
  <2>2. CASE i = 1
    BY <1>1, <1>3, <1>4, <2>1, <2>2 DEF Late
  <2>3. CASE i # 1
    <3>1. i - 1 < j - 1
      BY <2>1
    <3>2. Late(q, i - 1, j - 1)
      BY <1>3, <1>4, <2>1, <2>3, <3>1 DEF Late
    <3> QED BY <1>3, <2>1, <2>3, <3>2 DEF Overtaken
  <2> QED BY <2>2, <2>3
<1> QED BY <1>4 DEF Overtaken, p

LEMMA OvertakenReleased ==
    ASSUME NEW s, s.inbox \in Seq(Request), NEW h \in Handle, NEW placed, NEW names,
           Overtaken(s.inbox, placed, names)
    PROVE  Overtaken(Released(s, h).inbox, placed, names)
<1>1. CASE s.ref[h] = NULL
  BY <1>1 DEF Released
<1>2. CASE s.ref[h] # NULL /\ s.ref[h].strong > 1
  <2>1. Released(s, h) = [s EXCEPT !.ref[h].strong = @ - 1]
    BY <1>2 DEF Released
  <2>2. Released(s, h).inbox = s.inbox
    BY <2>1
  <2> QED BY <2>2
<1>3. CASE s.ref[h] # NULL /\ ~(s.ref[h].strong > 1)
  <2>1. PICK q \in Seq(Request) : q = s.inbox
    OBVIOUS
  <2>2. PICK p : p = RemoveFirst(q, Dead(h))
    OBVIOUS
  <2>3. Released(s, h).inbox = p
    BY <1>3, <2>1, <2>2 DEF Released
  <2>4. p \in Seq(Request) /\ (p = q \/ \E k \in DOMAIN q : Shrunk(q, p, k))
    BY <2>2, ShrunkRemove
  <2>5. Overtaken(p, placed, names)
    BY <2>1, <2>4, OvertakenShrunk
  <2> QED BY <2>3, <2>5
<1> QED BY <1>1, <1>2, <1>3

LEMMA OvertakenReleases ==
    ASSUME ManagerInv, NEW s, s.inbox \in Seq(Request), NEW nm, NEW placed, NEW names,
           Overtaken(s.inbox, placed, names)
    PROVE  Overtaken(DeathReleases(s, nm).inbox, placed, names)
<1>1. CASE HasHandle(nm)
  <2>1. PICK k : k = find_svc(svclist, nm) /\ k # 0 /\ svclist[k].handle # 0
    BY <1>1 DEF HasHandle
  <2>2. svclist \in Seq(Entry)
    BY DEF ManagerInv, ManagerTypeOK
  <2>3. k \in DOMAIN svclist
    BY <2>1, <2>2, FindIndex
  <2>4. PICK h \in Handle : h = svclist[k].handle
    BY <2>1, <2>2, <2>3, EntryHandle
  <2>5. DeathReleases(s, nm) = Released(s, h)
    BY <1>1, <2>1, <2>4 DEF DeathReleases
  <2> QED BY <2>5, OvertakenReleased
<1>2. CASE ~HasHandle(nm)
  BY <1>2 DEF DeathReleases
<1> QED BY <1>1, <1>2

\* With the first item taken, no request is behind the death of the service just added.
LEMMA OvertakenTail ==
    ASSUME ManagerInv, DeathsOK, inbox # <<>>
    PROVE  Tail(inbox) \in Seq(Request) /\ Overtaken(Tail(inbox), {}, relayed)
<1>1. inbox \in Seq(Request)
  BY DEF ManagerInv, InboxOK, Inbox
<1>2. PICK placed : Overtaken(inbox, placed, relayed)
  BY DEF DeathsOK
<1>3. Tail(inbox) \in Seq(Request) /\ Shrunk(inbox, Tail(inbox), 1)
  BY <1>1, ShrunkTail
<1> QED BY <1>1, <1>2, <1>3, OvertakenShrunk

\* Without placed pairs the deaths are in order at any place of the code.
LEMMA OvertakenAny ==
    ASSUME NEW q, Overtaken(q, {}, relayed), inbox' = q, relayed' = relayed
    PROVE  DeathsOK'
<1>1. PICK placed : placed = IF op'.pc \in {"idle", "reply"} THEN Placed(svclist') ELSE {}
  OBVIOUS
<1>2. Overtaken(q, placed, relayed)
  BY OvertakenMore
<1> QED BY <1>1, <1>2 DEF DeathsOK, Overtaken, Late, Placed

\* A request is put last, or the death of a service is.
LEMMA OvertakenAsked ==
    ASSUME ManagerInv, DeathsOK, NEW w \in Request, inbox' = Append(inbox, w),
           UNCHANGED <<op, svclist>>, relayed \subseteq relayed',
           \A i \in DOMAIN inbox : inbox[i].code = "dead" /\ w.code = "add"
                                   /\ inbox[i].handle = w.handle => w.name \in relayed'
    PROVE  DeathsOK'
<1>1. PICK placed : /\ placed = IF op.pc \in {"idle", "reply"} THEN Placed(svclist) ELSE {}
                    /\ Overtaken(inbox, placed, relayed)
  BY DEF DeathsOK
<1>2. PICK names : names = relayed'
  OBVIOUS
<1>3. Overtaken(inbox, placed, names)
  BY <1>1, <1>2, OvertakenMore
<1>4. inbox \in Seq(Request)
  BY DEF ManagerInv, InboxOK, Inbox
<1>5. Overtaken(Append(inbox, w), placed, names)
  BY <1>2, <1>3, <1>4, OvertakenAppend
<1> QED BY <1>1, <1>2, <1>5 DEF DeathsOK, Overtaken, Late, Placed

LEMMA AskAddDeaths ==
    ASSUME ManagerInv, DeathsOK, NEW nm \in Name, NEW svc \in Service, NEW isolated \in Isolations,
           AskAdd(nm, svc, isolated)
    PROVE  DeathsOK'
<1>1. PICK d : d = DescFor(Driver, svc)
  OBVIOUS
<1>2. /\ d \in Handle
      /\ ref[d] = NULL \/ ref[d].service = svc
      /\ Received(Driver, svc).inbox = inbox
  <2>1. PICK s : s = Driver /\ s.ref = ref /\ s.inbox = inbox /\ IsDriver(s)
    BY DriverIs
  <2>2. PICK e, x : e = DescFor(s, svc) /\ x = Received(s, svc)
    OBVIOUS
  <2>3. RefsFor(s.ref) /\ Inbox(s.ref, live, lister, s.inbox)
    BY <2>1 DEF ManagerInv, RefsOK, InboxOK
  <2>4. e \in Handle /\ (s.ref[e] = NULL \/ s.ref[e].service = svc)
    BY <2>2, <2>3, DescKeeps
  <2>5. x.inbox = s.inbox
    BY <2>1, <2>2, Zenon DEF Received, IsDriver
  <2>6. e = d /\ x = Received(Driver, svc)
    BY <1>1, <2>2, <2>1
  <2> QED BY <2>1, <2>4, <2>5, <2>6
<1> DEFINE w == [code |-> "add", name |-> nm, handle |-> d, isolated |-> isolated, n |-> 0]
<1>3. w \in Request /\ w.code = "add" /\ w.handle = d /\ w.name = nm
  BY <1>2, ManagerAssumption DEF Request
<1>4. /\ inbox' = Append(inbox, w) /\ relayed \subseteq relayed'
      /\ svc \notin live => nm \in relayed'
      /\ op' = op /\ svclist' = svclist
  BY <1>1, <1>2 DEF AskAdd
<1> HIDE DEF w
<1>5. ASSUME NEW i \in DOMAIN inbox, inbox[i].code = "dead", inbox[i].handle = w.handle
      PROVE  w.name \in relayed'
  <2>1. Item(ref, live, lister, inbox[i])
    BY DEF ManagerInv, InboxOK, Inbox
  <2>2. ref[d] # NULL /\ ref[d].service \notin live
    BY <1>3, <1>5, <2>1 DEF Item
  <2> QED BY <1>2, <1>3, <1>4, <2>2
<1> QED BY <1>3, <1>4, <1>5, OvertakenAsked

\* A request without a handle, and a death.
LEMMA PlainDeaths ==
    ASSUME ManagerInv, DeathsOK, NEW w \in Request, w.handle = 0 \/ w.code # "add",
           inbox' = Append(inbox, w), UNCHANGED <<op, svclist, relayed>>
    PROVE  DeathsOK'
<1>1. ASSUME NEW i \in DOMAIN inbox, inbox[i].code = "dead", w.code = "add", inbox[i].handle = w.handle
      PROVE  FALSE
  <2>1. Item(ref, live, lister, inbox[i])
    BY DEF ManagerInv, InboxOK, Inbox
  <2>2. inbox[i].handle \in Handle
    BY <1>1, <2>1 DEF Item
  <2> QED BY <1>1, <2>2, HandleNat
<1> QED BY <1>1, OvertakenAsked

LEMMA StopDeaths ==
    ASSUME ManagerInv, DeathsOK, NEW svc \in Service, Stop(svc)
    PROVE  DeathsOK'
<1>1. UNCHANGED <<op, svclist, relayed>>
  BY DEF Stop
<1>2. CASE inbox' = inbox
  BY <1>1, <1>2 DEF DeathsOK, Overtaken, Late, Placed
<1>3. ASSUME NEW h \in Handle, inbox' = Append(inbox, Dead(h))
      PROVE  DeathsOK'
  <2>1. Dead(h) \in Request /\ Dead(h).code = "dead"
    BY DeadFields
  <2> QED BY <1>1, <1>3, <2>1, PlainDeaths
<1> QED BY <1>2, <1>3, StopTells

\* The death of the service just added goes before requests for the same name only.
LEMMA AddLinkDeaths ==
    ASSUME ManagerInv, OneName, DeathsOK, AddLink
    PROVE  DeathsOK'
<1>1. PICK h \in Handle : h = op.req.handle
  BY OpEntry DEF AddLink
<1>2. PICK nm : nm = op.req.name
  OBVIOUS
<1>3. /\ op.pc = "link" /\ op'.pc = "reply"
      /\ inbox' = Linked(Driver, h, nm).inbox
      /\ svclist' = svclist /\ relayed' = relayed
  <2>1. op \in [pc: {"idle", "acquire", "link", "reply"}, req: Request]
    BY DEF ManagerInv, ManagerTypeOK
  <2> QED BY <1>1, <1>2, <2>1 DEF AddLink, Becomes
<1>4. inbox \in Seq(Request) /\ Overtaken(inbox, {}, relayed)
  BY <1>3 DEF DeathsOK, ManagerInv, InboxOK, Inbox
<1>5. CASE Linked(Driver, h, nm).inbox = inbox
  BY <1>3, <1>4, <1>5, OvertakenAny
<1>6. CASE Linked(Driver, h, nm).inbox = <<Dead(h)>> \o inbox
  <2>1. ASSUME NEW j \in DOMAIN inbox, inbox[j].code = "add", inbox[j].handle = h
        PROVE  <<inbox[j].handle, inbox[j].name>> \in Placed(svclist)
    <3>1. Item(ref, live, lister, inbox[j])
      BY DEF ManagerInv, InboxOK, Inbox
    <3>2. <<inbox[j].name, ref[h].service>> \in Pairs
      BY <2>1, <3>1, HandleNat DEF Item
    <3>3. <<nm, ref[h].service>> \in Pairs
      BY <1>1, <1>2, <1>3, OpEntry
    <3>4. inbox[j].name = nm
      BY <3>2, <3>3 DEF OneName
    <3>5. PICK i \in DOMAIN svclist : svclist[i].handle = h /\ svclist[i].name = nm
      BY <1>1, <1>2, <1>3 DEF ManagerInv, OpOK
    <3>6. <<svclist[i].handle, svclist[i].name>> \in Placed(svclist)
      BY DEF Placed
    <3> QED BY <2>1, <3>4, <3>5, <3>6
  <2>2. Dead(h) \in Request /\ Dead(h).handle = h
    BY DeadFields
  <2>3. Overtaken(<<Dead(h)>> \o inbox, Placed(svclist), relayed)
    BY <1>4, <2>1, <2>2, OvertakenPrepend
  <2>4. PICK q, placed : /\ q = <<Dead(h)>> \o inbox /\ placed = Placed(svclist)
                         /\ Overtaken(q, placed, relayed)
    BY <2>3
  <2>5. inbox' = q /\ placed = Placed(svclist)'
    BY <1>3, <1>6, <2>4 DEF Placed
  <2> QED BY <1>3, <2>4, <2>5 DEF DeathsOK, Overtaken, Late
<1>7. \/ Linked(Driver, h, nm).inbox = inbox
      \/ Linked(Driver, h, nm).inbox = <<Dead(h)>> \o inbox
  BY DriverIs DEF Linked
<1> QED BY <1>5, <1>6, <1>7

LEMMA TakeDeaths ==
    ASSUME ManagerInv, DeathsOK, UNCHANGED relayed, NEW code, NextIs(code),
           \/ inbox' = Rest.inbox
           \/ \E s, nm : s.inbox = Rest.inbox /\ inbox' = DeathReleases(s, nm).inbox
           \/ \E h \in Handle : inbox' = Released(Rest, h).inbox
    PROVE  DeathsOK'
<1>1. PICK q \in Seq(Request) : q = Rest.inbox /\ Overtaken(q, {}, relayed)
  BY OvertakenTail, DriverIs DEF NextIs
<1>2. CASE inbox' = Rest.inbox
  BY <1>1, <1>2, OvertakenAny
<1>3. ASSUME NEW s, NEW nm, s.inbox = Rest.inbox, inbox' = DeathReleases(s, nm).inbox
      PROVE  DeathsOK'
  <2>1. Overtaken(DeathReleases(s, nm).inbox, {}, relayed)
    BY <1>1, <1>3, OvertakenReleases
  <2> QED BY <1>3, <2>1, OvertakenAny
<1>4. ASSUME NEW h \in Handle, inbox' = Released(Rest, h).inbox
      PROVE  DeathsOK'
  <2>1. Overtaken(Released(Rest, h).inbox, {}, relayed)
    BY <1>1, OvertakenReleased
  <2> QED BY <1>4, <2>1, OvertakenAny
<1> QED BY <1>2, <1>3, <1>4

\* The actions of Next, those of the same lemma together.
LEMMA NextCases ==
    ASSUME Next
    PROVE  \/ AskAddNothing \/ AskOther \/ \E nm \in Name, isolated \in Isolations : AskFind(nm, isolated)
           \/ \E nm \in Name, svc \in Service, isolated \in Isolations : AskAdd(nm, svc, isolated)
           \/ AskList
           \/ \E svc \in Service : Stop(svc)
           \/ Find \/ FindDenied \/ Other
           \/ List \/ ListDenied
           \/ RefuseAdd \/ AddAcquire \/ AddLink \/ AddReply
           \/ StartAdd
           \/ HandleDeath
BY DEF Next, Serve

LEMMA OvertakenNext ==
    ASSUME ManagerInv, OneName, DeathsOK, [Next]_vars
    PROVE  DeathsOK'
<1>1. CASE UNCHANGED vars
  BY <1>1 DEF vars, driver, DeathsOK, Overtaken, Late, Placed
<1>2. CASE AskAddNothing \/ AskOther \/ AskList \/ \E nm \in Name, isolated \in Isolations : AskFind(nm, isolated)
  <2>1. UNCHANGED <<op, svclist, relayed>>
    BY <1>2 DEF AskAddNothing, AskOther, AskList, AskFind
  <2>2. PICK w \in Request : inbox' = Append(inbox, w) /\ w.handle = 0
    <3>1. CASE AskAddNothing
      <4>1. PICK w : w = [Blank EXCEPT !.code = "add"] /\ inbox' = Append(inbox, w)
        BY <3>1 DEF AskAddNothing, Ask
      <4>2. w \in Request /\ w.handle = 0
        BY <4>1 DEF Blank, Request
      <4> QED BY <4>1, <4>2
    <3>2. CASE AskOther
      BY <3>2, BlankFields DEF AskOther, Ask
    <3>3. CASE AskList
      <4>1. PICK w : w = [Blank EXCEPT !.code = "list", !.n = lister.n] /\ inbox' = Append(inbox, w)
        BY <3>3 DEF AskList, Ask
      <4>2. lister.n \in Nat
        BY DEF ManagerInv, ManagerTypeOK
      <4>3. w \in Request /\ w.handle = 0
        BY <4>1, <4>2 DEF Blank, Request
      <4> QED BY <4>1, <4>3
    <3>4. ASSUME NEW nm \in Name, NEW isolated \in Isolations, AskFind(nm, isolated)
          PROVE  \E w \in Request : inbox' = Append(inbox, w) /\ w.handle = 0
      <4>1. PICK w : /\ w = [Blank EXCEPT !.code = "find", !.name = nm, !.isolated = isolated]
                     /\ inbox' = Append(inbox, w)
        BY <3>4 DEF AskFind, Ask
      <4>2. isolated \in BOOLEAN
        BY ManagerAssumption
      <4>3. w \in Request /\ w.handle = 0
        BY <4>1, <4>2 DEF Blank, Request
      <4> QED BY <4>1, <4>3
    <3> QED BY <1>2, <3>1, <3>2, <3>3, <3>4
  <2> QED BY <2>1, <2>2, PlainDeaths
<1>3. ASSUME NEW nm \in Name, NEW svc \in Service, NEW isolated \in Isolations, AskAdd(nm, svc, isolated)
      PROVE  DeathsOK'
  BY <1>3, AskAddDeaths
<1>4. ASSUME NEW svc \in Service, Stop(svc)
      PROVE  DeathsOK'
  BY <1>4, StopDeaths
<1>5. CASE Find \/ FindDenied \/ Other \/ List \/ ListDenied
  BY <1>5, TakeDeaths DEF Find, FindDenied, Other, List, ListDenied, Becomes
<1>6. CASE RefuseAdd
  <2>1. /\ NextIs("add") /\ relayed' = relayed
        /\ inbox' = (IF Head(inbox).handle = 0 THEN Rest ELSE Released(Rest, Head(inbox).handle)).inbox
    BY <1>6 DEF RefuseAdd, Becomes
  <2>2. Head(inbox).handle \in Handle \cup {0}
    BY <2>1, TakeHead DEF NextIs, Request
  <2> QED BY <2>1, <2>2, TakeDeaths
<1>7. CASE StartAdd
  BY <1>7, TakeDeaths DEF StartAdd, Becomes
<1>8. CASE AddAcquire
  <2>1. op.pc = "acquire" /\ inbox' = inbox /\ relayed' = relayed
    BY <1>8, DriverIs DEF AddAcquire, Acquired, Becomes, IsDriver
  <2>2. Overtaken(inbox, {}, relayed)
    BY <2>1 DEF DeathsOK
  <2> QED BY <2>1, <2>2, OvertakenAny
<1>9. CASE AddLink
  BY <1>9, AddLinkDeaths
<1>10. CASE AddReply
  <2>1. PICK h \in Handle : h = op.req.handle /\ inbox' = Released(Driver, h).inbox
    BY <1>10, OpEntry DEF AddReply, Becomes
  <2>2. op.pc = "reply" /\ op'.pc = "idle" /\ relayed' = relayed /\ svclist' = svclist
    BY <1>10 DEF AddReply, Idle
  <2>3. Overtaken(Driver.inbox, Placed(svclist), relayed) /\ Driver.inbox \in Seq(Request)
    BY <2>2, DriverIs DEF DeathsOK, ManagerInv, InboxOK, Inbox
  <2>4. Overtaken(Released(Driver, h).inbox, Placed(svclist), relayed)
    BY <2>3, OvertakenReleased
  <2> QED BY <2>1, <2>2, <2>4 DEF DeathsOK, Overtaken, Late, Placed
<1>11. CASE HandleDeath
  <2>1. PICK s, nm : /\ s = [Rest EXCEPT !.ref[Head(inbox).handle].told = TRUE]
                     /\ inbox' = DeathReleases(s, nm).inbox
    BY <1>11 DEF HandleDeath, Becomes
  <2>2. s.inbox = Rest.inbox
    BY <2>1
  <2> QED BY <1>11, <2>1, <2>2, TakeDeaths DEF HandleDeath
<1> QED BY <1>1, <1>2, <1>3, <1>4, <1>5, <1>6, <1>7, <1>8, <1>9, <1>10, <1>11, NextCases

-----------------------------------------------------------------------------
(* The invariant *)

LEMMA InitKeeps ==
    ASSUME Init
    PROVE  ManagerInv /\ DeathsOK /\ Gone /\ FindAnswers
<1>1. /\ live = Service /\ ref = [h \in Handle |-> NULL] /\ inbox = <<>> /\ svclist = <<>>
      /\ op = Idle /\ answer = NoAnswer /\ published = [nm \in Name |-> NULL] /\ relayed = {}
      /\ lister = NotListing
  BY DEF Init
<1>2. ManagerTypeOK
  <2>1. op \in [pc: {"idle", "acquire", "link", "reply"}, req: Request]
    BY <1>1, BlankFields DEF Idle
  <2>2. lister \in [n: Nat, unseen: SUBSET Name, state: {"idle", "asked", "done"}]
    BY <1>1 DEF NotListing
  <2>3. svclist \in Seq(Entry) /\ published \in [Name -> Service \cup {NULL}]
    BY <1>1
  <2> QED BY <1>1, <2>1, <2>2, <2>3, BlankFields DEF ManagerTypeOK
<1>3. RefsOK
  BY <1>1 DEF RefsOK, RefsFor
<1>4. InboxOK
  BY <1>1 DEF InboxOK, Inbox
<1>5. ListOK
  BY <1>1 DEF ListOK
<1>6. OpOK
  BY <1>1 DEF OpOK, Idle
<1>7. ListingOK
  BY <1>1 DEF ListingOK, ListComplete, NotListing
<1>8. ASSUME NEW h \in Handle
      PROVE  Strong(ref, h) = Cardinality(Entries(svclist, h)) + Cardinality(Adds(inbox, h)) + Pending(op, h)
  <2>1. Entries(svclist, h) = {} /\ Adds(inbox, h) = {}
    BY <1>1 DEF Entries, Adds
  <2>2. Pending(op, h) = 0 /\ Strong(ref, h) = 0
    BY <1>1 DEF Pending, Idle, Strong
  <2> QED BY <2>1, <2>2, FS_EmptySet
<1>9. DeathsOK /\ Gone /\ FindAnswers
  BY <1>1, BlankFields DEF DeathsOK, Overtaken, Gone, FindAnswers
<1> QED BY <1>2, <1>3, <1>4, <1>5, <1>6, <1>7, <1>8, <1>9 DEF ManagerInv, Balanced

LEMMA NextKeeps ==
    ASSUME ManagerInv, [Next]_vars
    PROVE  ManagerInv' /\ (OneName /\ DeathsOK /\ Gone => Gone')
<1>1. CASE UNCHANGED vars
  BY <1>1 DEF vars, driver, ManagerInv, ManagerTypeOK, RefsOK, InboxOK, ListOK, OpOK, ListingOK,
              ListComplete, Balanced, Gone
<1>2. CASE AskAddNothing \/ AskOther \/ \E nm \in Name, isolated \in Isolations : AskFind(nm, isolated)
  BY <1>2, AskPlainKeeps
<1>3. ASSUME NEW nm \in Name, NEW svc \in Service, NEW isolated \in Isolations, AskAdd(nm, svc, isolated)
      PROVE  ManagerInv' /\ (OneName /\ DeathsOK /\ Gone => Gone')
  BY <1>3, AskAddKeeps
<1>4. CASE AskList
  BY <1>4, AskListKeeps
<1>5. ASSUME NEW svc \in Service, Stop(svc)
      PROVE  ManagerInv' /\ (OneName /\ DeathsOK /\ Gone => Gone')
  BY <1>5, StopKeeps
<1>6. CASE Find \/ FindDenied \/ Other
  BY <1>6, TakePlainKeeps
<1>7. CASE List \/ ListDenied
  BY <1>7, ListKeeps
<1>8. CASE RefuseAdd \/ AddAcquire \/ AddLink \/ AddReply
  BY <1>8, RefuseAddKeeps, AddAcquireKeeps, AddLinkKeeps, AddReplyKeeps
<1>9. CASE StartAdd
  BY <1>9, StartAddKeeps
<1>10. CASE HandleDeath
  BY <1>10, HandleDeathKeeps
<1> QED BY <1>1, <1>2, <1>3, <1>4, <1>5, <1>6, <1>7, <1>8, <1>9, <1>10, NextCases

LEMMA Invariant == Spec => []ManagerInv
<1>1. Init => ManagerInv
  BY InitKeeps
<1>2. ManagerInv /\ [Next]_vars => ManagerInv'
  BY NextKeeps
<1> QED BY <1>1, <1>2, PTL DEF Spec

LEMMA DeathsKept ==
    ASSUME OneName
    PROVE  Spec => []DeathsOK
<1>1. Init => DeathsOK
  BY InitKeeps
<1>2. ManagerInv /\ DeathsOK /\ [Next]_vars => DeathsOK'
  BY OvertakenNext
<1> QED BY <1>1, <1>2, Invariant, PTL DEF Spec

\* Every step but a find leaves the clients without an answer.
LEMMA AnswersKept ==
    ASSUME ManagerInv, Gone, FindAnswers, [Next]_vars
    PROVE  FindAnswers'
<1>1. CASE UNCHANGED vars
  BY <1>1 DEF vars, FindAnswers
<1>2. CASE Find
  BY <1>2, FindAnswered
<1>3. CASE answer' = NoAnswer
  BY <1>3, BlankFields DEF FindAnswers
<1>4. Next => Find \/ answer' = NoAnswer
  BY DEF Next, Serve, AskAdd, AskFind, AskAddNothing, AskOther, AskList, Stop, HandleDeath, StartAdd,
         RefuseAdd, AddAcquire, AddLink, AddReply, FindDenied, List, ListDenied, Other
<1> QED BY <1>1, <1>2, <1>3, <1>4

LEMMA TypeFollows == ManagerInv => TypeOK
<1> SUFFICES ASSUME ManagerInv PROVE TypeOK
  OBVIOUS
<1>1. \A h \in Handle : ref[h] \in RefRec \cup {NULL}
  BY DEF ManagerInv, RefsOK, RefsFor
<1>2. inbox \in Seq(Request)
  BY DEF ManagerInv, InboxOK, Inbox
<1>3. Cardinality(NamesIn(svclist)) = Len(svclist)
  <2> DEFINE f == [i \in DOMAIN svclist |-> svclist[i].name]
  <2>1. DOMAIN svclist = 1 .. Len(svclist) /\ Len(svclist) \in Nat
    BY DEF ManagerInv, ManagerTypeOK
  <2>2. IsFiniteSet(DOMAIN svclist) /\ Cardinality(DOMAIN svclist) = Len(svclist)
    <3>1. /\ IsFiniteSet(1 .. Len(svclist))
          /\ Cardinality(1 .. Len(svclist)) = IF 1 > Len(svclist) THEN 0 ELSE Len(svclist) - 1 + 1
      BY <2>1, FS_Interval
    <3> QED BY <2>1, <3>1
  <2>3. /\ f \in [DOMAIN svclist -> NamesIn(svclist)]
        /\ \A t \in NamesIn(svclist) : \E i \in DOMAIN svclist : f[i] = t
    BY DEF NamesIn
  <2>4. \A i, j \in DOMAIN svclist : f[i] = f[j] => i = j
    BY DEF ManagerInv, ListOK
  <2> HIDE DEF f
  <2> QED BY <2>2, <2>3, <2>4, SameCount
<1> QED BY <1>1, <1>2, <1>3 DEF TypeOK, ManagerInv, ManagerTypeOK

LEMMA ClaimsFollow == ManagerInv => ClaimsBalanced
<1> SUFFICES ASSUME ManagerInv, NEW h \in Handle
             PROVE  LET claims == Cardinality(Entries(svclist, h)) + Cardinality(Adds(inbox, h)) + Pending(op, h)
                    IN IF ref[h] = NULL THEN claims = 0 ELSE claims = ref[h].strong
  BY DEF ClaimsBalanced, Entries, Adds, Pending
<1> QED BY CountIs DEF Strong

\* The variables of servicemanager keep their types, and no name has two entries.
THEOREM ManagerTypeCorrect == Spec => []TypeOK
BY Invariant, TypeFollows, PTL

\* Each claim on a reference of servicemanager is that of an entry, of a waiting request or
\* of the do_add_service under way: do_add_service, svcinfo_death and the freeing of the
\* buffers neither lose a claim nor give one back twice, whatever comes in between.
THEOREM ClaimsKept == Spec => []ClaimsBalanced
BY Invariant, ClaimsFollow, PTL

\* listServices has every name that was there when it began, though svclist may grow at
\* its front between two requests of the client.
THEOREM ListingsComplete == Spec => []ListComplete
<1>1. ManagerInv => ListComplete
  BY DEF ManagerInv, ListingOK
<1> QED BY <1>1, Invariant, PTL

\* do_find_service answers with the service last added under the name, and with none only
\* when that service has stopped, the client is isolated, or somebody adds a stopped
\* service under the name, provided that no service has two names.
THEOREM FoundLast ==
    ASSUME OneName
    PROVE  Spec => []FindAnswers
<1>1. Init => Gone /\ FindAnswers
  BY InitKeeps
<1>2. ManagerInv /\ DeathsOK /\ Gone /\ FindAnswers /\ [Next]_vars => Gone' /\ FindAnswers'
  BY NextKeeps, AnswersKept
<1> QED BY <1>1, <1>2, Invariant, DeathsKept, PTL DEF Spec

-----------------------------------------------------------------------------
(* The registry *)

\* The table of the driver's references r and the entries, and what it comes to when the
\* entries agree with what was published.
RefTable(r, list) ==
    [nm \in Name |-> IF /\ find_svc(list, nm) # 0 /\ list[find_svc(list, nm)].handle # 0
                        /\ r[list[find_svc(list, nm)].handle] # NULL
                     THEN r[list[find_svc(list, nm)].handle].service ELSE NULL]

Table(list, pub) ==
    [nm \in Name |-> IF find_svc(list, nm) # 0 /\ list[find_svc(list, nm)].handle # 0
                     THEN pub[nm] ELSE NULL]

LEMMA TableSame ==
    ASSUME NEW r, NEW pub, NEW list \in Seq(Entry),
           \A i \in DOMAIN list : list[i].handle # 0 =>
              r[list[i].handle] # NULL /\ r[list[i].handle].service = pub[list[i].name]
    PROVE  RefTable(r, list) = Table(list, pub)
<1>1. ASSUME NEW nm \in Name
      PROVE  (IF /\ find_svc(list, nm) # 0 /\ list[find_svc(list, nm)].handle # 0
                 /\ r[list[find_svc(list, nm)].handle] # NULL
              THEN r[list[find_svc(list, nm)].handle].service ELSE NULL)
             = (IF find_svc(list, nm) # 0 /\ list[find_svc(list, nm)].handle # 0
                THEN pub[nm] ELSE NULL)
  <2>1. PICK k : k = find_svc(list, nm)
    OBVIOUS
  <2>2. k # 0 => k \in DOMAIN list /\ list[k].name = nm
    BY <2>1, FindIndex
  <2> QED BY <2>1, <2>2
<1> QED BY <1>1 DEF RefTable, Table

LEMMA TableAt ==
    ASSUME NEW list \in Seq(Entry), \A i, j \in DOMAIN list : list[i].name = list[j].name => i = j,
           NEW pub, NEW nm \in Name
    PROVE  /\ \A i \in DOMAIN list :
                 list[i].name = nm => Table(list, pub)[nm] = IF list[i].handle # 0 THEN pub[nm] ELSE NULL
           /\ (\A i \in DOMAIN list : list[i].name # nm) => Table(list, pub)[nm] = NULL
<1>1. PICK k : k = find_svc(list, nm)
  OBVIOUS
<1>2. Table(list, pub)[nm] = IF k # 0 /\ list[k].handle # 0 THEN pub[nm] ELSE NULL
  BY <1>1 DEF Table
<1>3. ASSUME NEW i \in DOMAIN list, list[i].name = nm
      PROVE  Table(list, pub)[nm] = IF list[i].handle # 0 THEN pub[nm] ELSE NULL
  <2>1. nm \in NamesIn(list)
    BY <1>3 DEF NamesIn
  <2>2. k \in DOMAIN list /\ list[k].name = nm /\ k # 0
    BY <1>1, <2>1, FindIndex
  <2>3. k = i
    BY <1>3, <2>2
  <2> QED BY <1>2, <2>2, <2>3
<1>4. ASSUME \A i \in DOMAIN list : list[i].name # nm
      PROVE  Table(list, pub)[nm] = NULL
  <2>1. nm \notin NamesIn(list)
    BY <1>4 DEF NamesIn
  <2>2. k = 0
    BY <1>1, <2>1, FindIndex
  <2> QED BY <1>2, <2>2
<1> QED BY <1>3, <1>4

\* f and g differ at most at nm.
Agree(f, g, nm) == \A n \in Name : n # nm => f[n] = g[n]

\* Only nm's place in the table changes with its entry.
LEMMA RelistedTable ==
    ASSUME NEW list \in Seq(Entry), \A i, j \in DOMAIN list : list[i].name = list[j].name => i = j,
           NEW new, NEW nm \in Name, NEW h, Relisted(list, new, nm, h),
           NEW pub, NEW pub2, Agree(pub2, pub, nm)
    PROVE  /\ h # 0 => Table(new, pub2)[nm] = pub2[nm]
           /\ h = 0 => Table(new, pub2)[nm] = NULL
           /\ Agree(Table(new, pub2), Table(list, pub), nm)
<1>1. new \in Seq(Entry) /\ \A i, j \in DOMAIN new : new[i].name = new[j].name => i = j
  BY DEF Relisted
<1>2. Table(new, pub2)[nm] = IF h # 0 THEN pub2[nm] ELSE NULL
  <2>1. PICK i \in DOMAIN new : new[i].name = nm /\ new[i].handle = h
    BY DEF Relisted
  <2> QED BY <1>1, <2>1, TableAt
<1>3. ASSUME NEW n \in Name, n # nm
      PROVE  Table(new, pub2)[n] = Table(list, pub)[n]
  <2>0. pub2[n] = pub[n]
    BY <1>3 DEF Agree
  <2>1. CASE \E j \in DOMAIN list : list[j].name = n
    <3>1. PICK j \in DOMAIN list : list[j].name = n
      BY <2>1
    <3>2. PICK i \in DOMAIN new : new[i].name = n
      BY <3>1 DEF Relisted
    <3>3. PICK m \in DOMAIN list : list[m] = new[i]
      BY <1>3, <3>2 DEF Relisted
    <3>4. m = j
      BY <3>1, <3>2, <3>3
    <3>5. Table(new, pub2)[n] = IF new[i].handle # 0 THEN pub2[n] ELSE NULL
      BY <1>1, <3>2, TableAt
    <3>6. Table(list, pub)[n] = IF list[j].handle # 0 THEN pub[n] ELSE NULL
      BY <3>1, TableAt
    <3> QED BY <2>0, <3>3, <3>4, <3>5, <3>6
  <2>2. CASE ~\E j \in DOMAIN list : list[j].name = n
    <3>1. \A i \in DOMAIN new : new[i].name # n
      BY <1>3, <2>2 DEF Relisted
    <3>2. Table(new, pub2)[n] = NULL
      BY <1>1, <3>1, TableAt
    <3>3. Table(list, pub)[n] = NULL
      BY <2>2, TableAt
    <3> QED BY <3>2, <3>3
  <2> QED BY <2>1, <2>2
<1> QED BY <1>2, <1>3 DEF Agree

LEMMA TableChanged ==
    ASSUME NEW a, NEW b, NEW nm \in Name, NEW v, Agree(a, b, nm), a[nm] = v,
           a = [n \in Name |-> a[n]], b = [n \in Name |-> b[n]]
    PROVE  a = [b EXCEPT ![nm] = v]
BY DEF Agree

LEMMA TableIs == \A list, pub : Table(list, pub) = [n \in Name |-> Table(list, pub)[n]]
BY DEF Table

LEMMA RegisteredIs == ManagerInv => Registered = Table(svclist, published)
<1> SUFFICES ASSUME ManagerInv PROVE Registered = Table(svclist, published)
  OBVIOUS
<1>1. Registered = RefTable(ref, svclist)
  BY DEF Registered, RefTable, HasHandle
<1>2. /\ svclist \in Seq(Entry)
      /\ \A i \in DOMAIN svclist : svclist[i].handle # 0 =>
            ref[svclist[i].handle] # NULL /\ ref[svclist[i].handle].service = published[svclist[i].name]
  BY DEF ManagerInv, ManagerTypeOK, ListOK
<1> QED BY <1>1, <1>2, TableSame

LEMMA RegisteredNext ==
    ASSUME ManagerInv'
    PROVE  Registered' = Table(svclist', published')
<1>1. PICK r, list, pub : r = ref' /\ list = svclist' /\ pub = published'
  OBVIOUS
<1>2. Registered' = RefTable(r, list)
  BY <1>1 DEF Registered, RefTable, HasHandle
<1>3. /\ list \in Seq(Entry)
      /\ \A i \in DOMAIN list : list[i].handle # 0 =>
            r[list[i].handle] # NULL /\ r[list[i].handle].service = pub[list[i].name]
  BY <1>1 DEF ManagerInv, ManagerTypeOK, ListOK
<1>4. RefTable(r, list) = Table(list, pub)
  BY <1>3, TableSame
<1> QED BY <1>1, <1>2, <1>4

LEMMA RegistryInit == Init => Registry!Init
<1> SUFFICES ASSUME Init PROVE Registry!Init
  OBVIOUS
<1>1. live = Service /\ svclist = <<>> /\ relayed = {}
  BY DEF Init
<1>2. Registered = [nm \in Name |-> NULL]
  <2>1. \A nm \in Name : ~HasHandle(nm)
    BY <1>1 DEF HasHandle, find_svc, NamesIn
  <2> QED BY <2>1 DEF Registered
<1> QED BY <1>1, <1>2 DEF Registry!Init

LEMMA RegistryStep ==
    ASSUME OneName, ManagerInv, ManagerInv', DeathsOK, [Next]_vars
    PROVE  [Registry!Next]_<<Registered, live, relayed>>
<1>1. Registered = Table(svclist, published) /\ Registered' = Table(svclist', published')
  BY RegisteredIs, RegisteredNext
<1>2. /\ svclist \in Seq(Entry) /\ published \in [Name -> Service \cup {NULL}]
      /\ \A i, j \in DOMAIN svclist : svclist[i].name = svclist[j].name => i = j
  BY DEF ManagerInv, ManagerTypeOK, ListOK
<1>3. CASE UNCHANGED <<svclist, published, live, relayed>>
  BY <1>1, <1>3
<1>4. ASSUME NEW svc \in Service, Stop(svc)
      PROVE  Registry!Next
  <2>1. svc \in live /\ live' = live \ {svc} /\ UNCHANGED <<svclist, published, relayed>>
    BY <1>4 DEF Stop
  <2>2. Registry!Stop(svc)
    BY <1>1, <2>1 DEF Registry!Stop
  <2> QED BY <2>2 DEF Registry!Next
<1>5. CASE StartAdd
  <2>1. PICK nm \in Name, h \in Handle :
           /\ Relisted(svclist, svclist', nm, h) /\ ref[h] # NULL
           /\ published' = [published EXCEPT ![nm] = ref[h].service]
    BY <1>5, StartAddKeeps
  <2>2. PICK s \in Service : s = ref[h].service
    <3>1. ref[h] \in RefRec
      BY <2>1 DEF ManagerInv, RefsOK, RefsFor
    <3> QED BY <3>1 DEF RefRec
  <2>3. PICK new, pub2 : new = svclist' /\ pub2 = published'
    OBVIOUS
  <2>4. /\ Relisted(svclist, new, nm, h) /\ h # 0
        /\ pub2[nm] = s /\ \A n \in Name : n # nm => pub2[n] = published[n]
    BY <1>2, <2>1, <2>2, <2>3, HandleNat
  <2>5. PICK a, b : a = Registered' /\ b = Registered /\ a = Table(new, pub2) /\ b = Table(svclist, published)
    BY <1>1, <2>3
  <2>6. a[nm] = s /\ Agree(a, b, nm)
    <3>1. PICK list, pub : list \in Seq(Entry) /\ list = svclist /\ pub = published
      BY <1>2
    <3>2. /\ list \in Seq(Entry)
          /\ \A i, j \in DOMAIN list : list[i].name = list[j].name => i = j
          /\ Relisted(list, new, nm, h) /\ Agree(pub2, pub, nm)
      BY <1>2, <2>4, <3>1 DEF Agree
    <3>3. Table(new, pub2)[nm] = pub2[nm] /\ Agree(Table(new, pub2), Table(list, pub), nm)
      BY <2>4, <3>2, RelistedTable
    <3> QED BY <2>4, <2>5, <3>1, <3>3
  <2>7. Registered' = [Registered EXCEPT ![nm] = s]
    <3>1. a = [n \in Name |-> a[n]] /\ b = [n \in Name |-> b[n]]
      BY <2>5, TableIs
    <3>2. a = [b EXCEPT ![nm] = s]
      BY <2>6, <3>1, TableChanged
    <3> QED BY <2>5, <3>2
  <2>8. Registry!Place(nm, s)
    BY <1>5, <2>7 DEF Registry!Place, StartAdd
  <2> QED BY <2>8 DEF Registry!Next
<1>6. ASSUME NEW i \in DOMAIN svclist, NEW nm \in Name, svclist[i].name = nm,
             published[nm] \notin live \/ nm \in relayed, Relisted(svclist, svclist', nm, 0),
             UNCHANGED <<live, published, relayed>>
      PROVE  [Registry!Next]_<<Registered, live, relayed>>
  <2>1. PICK new : new = svclist'
    OBVIOUS
  <2>2. PICK a, b : a = Registered' /\ b = Registered /\ a = Table(new, published) /\ b = Table(svclist, published)
    BY <1>1, <1>6, <2>1
  <2>3. a[nm] = NULL /\ Agree(a, b, nm)
    <3>1. PICK list, pub, z : list \in Seq(Entry) /\ list = svclist /\ pub = published /\ z = 0
      BY <1>2
    <3>2. /\ list \in Seq(Entry)
          /\ \A k, j \in DOMAIN list : list[k].name = list[j].name => k = j
          /\ Relisted(list, new, nm, z) /\ Agree(pub, pub, nm)
      BY <1>2, <1>6, <2>1, <3>1 DEF Agree
    <3>3. (z = 0 => Table(new, pub)[nm] = NULL) /\ Agree(Table(new, pub), Table(list, pub), nm)
      BY <3>2, RelistedTable
    <3> QED BY <2>2, <3>1, <3>3
  <2>4. Registered' = [Registered EXCEPT ![nm] = NULL]
    <3>1. a = [n \in Name |-> a[n]] /\ b = [n \in Name |-> b[n]]
      BY <2>2, TableIs
    <3>2. a = [b EXCEPT ![nm] = NULL]
      BY <2>3, <3>1, TableChanged
    <3> QED BY <2>2, <3>2
  <2>5. b[nm] = IF svclist[i].handle # 0 THEN published[nm] ELSE NULL
    BY <1>2, <1>6, <2>2, TableAt
  <2>6. CASE svclist[i].handle = 0
    <3>1. b = [b EXCEPT ![nm] = NULL]
      BY <2>2, <2>5, <2>6 DEF Table
    <3> QED BY <1>6, <2>2, <2>4, <3>1
  <2>7. CASE svclist[i].handle # 0
    <3>1. published[nm] \in Service
      <4>1. <<svclist[i].name, published[svclist[i].name]>> \in Pairs
        BY <2>7 DEF ManagerInv, ListOK
      <4> QED BY <1>6, <4>1, ManagerAssumption
    <3>2. Registry!Forget(nm)
      BY <1>6, <2>2, <2>4, <2>5, <2>7, <3>1, ManagerAssumption DEF Registry!Forget
    <3> QED BY <3>2 DEF Registry!Next
  <2> QED BY <2>6, <2>7
<1>7. CASE HandleDeath
  <2>1. UNCHANGED <<live, published, relayed>>
    BY <1>7 DEF HandleDeath
  <2>2. CASE svclist' = svclist
    BY <1>3, <2>1, <2>2
  <2>3. CASE \E i \in DOMAIN svclist, nm \in Name :
                /\ svclist[i].name = nm /\ (published[nm] \notin live \/ nm \in relayed)
                /\ Relisted(svclist, svclist', nm, 0)
    BY <1>6, <2>1, <2>3
  <2> QED BY <1>7, <2>2, <2>3, HandleDeathKeeps
<1>8. ASSUME NEW nm \in Name, NEW svc \in Service, NEW isolated \in Isolations, AskAdd(nm, svc, isolated)
      PROVE  [Registry!Next]_<<Registered, live, relayed>>
  <2>1. /\ UNCHANGED <<svclist, published, live>>
        /\ relayed' = IF svc \in live THEN relayed ELSE relayed \cup {nm}
    BY <1>8 DEF AskAdd
  <2>2. CASE svc \in live
    BY <1>3, <2>1, <2>2
  <2>3. CASE svc \notin live
    <3>1. Registered' = Registered
      BY <1>1, <2>1
    <3>2. Registry!Relay(nm)
      BY <2>1, <2>3, <3>1 DEF Registry!Relay
    <3> QED BY <3>2 DEF Registry!Next
  <2> QED BY <2>2, <2>3
<1>9. Next => \/ UNCHANGED <<svclist, published, live, relayed>>
              \/ \E nm \in Name, svc \in Service, isolated \in Isolations : AskAdd(nm, svc, isolated)
              \/ \E svc \in Service : Stop(svc)
              \/ StartAdd \/ HandleDeath
  BY DEF Next, Serve, AskFind, AskAddNothing, AskOther, AskList,
         RefuseAdd, AddAcquire, AddLink, AddReply, Find, FindDenied, List, ListDenied, Other
<1>10. UNCHANGED vars => UNCHANGED <<svclist, published, live, relayed>>
  BY DEF vars
<1> QED BY <1>3, <1>4, <1>5, <1>7, <1>8, <1>9, <1>10

\* servicemanager implements the registry step by step: do_add_service is Place,
\* svcinfo_death Forget, an addService of a stopped service Relay, and every other step
\* leaves the table alone, provided that no service has two names.
THEOREM RegistrySafe ==
    ASSUME OneName
    PROVE  Spec => Registry!Spec
<1>1. Init => Registry!Init
  BY RegistryInit
<1>2. ManagerInv /\ ManagerInv' /\ DeathsOK /\ [Next]_vars => [Registry!Next]_<<Registered, live, relayed>>
  BY RegistryStep
<1> QED BY <1>1, <1>2, Invariant, DeathsKept, PTL DEF Spec, Registry!Spec

=============================================================================
