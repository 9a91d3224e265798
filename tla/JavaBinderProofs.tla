-------------------------- MODULE JavaBinderProofs --------------------------
(***************************************************************************)
(* Theorems about JavaBinder, for any number of threads, proxies and       *)
(* recipients.                                                             *)
(***************************************************************************)
EXTENDS JavaBinder, SequenceTheorems, TLAPS

-----------------------------------------------------------------------------
(* The inductive invariant *)

Distinct(q) == \A i, j \in DOMAIN q : q[i] = q[j] => i = j

\* A recipient is in one list at most, the one it knows of, and that of a proxy that
\* is not destroyed.
Listed ==
    /\ \A j \in JavaProxy : Distinct(mList[j]) /\ (j \notin Holders => mList[j] = <<>>)
    /\ \A j \in JavaProxy : \A r \in ToSet(mList[j]) : listOf[r] = j

\* Where a thread has a proxy, and a recipient of its list or of the BpBinder.
InList == {"added", "failed", "read", "use", "found", "removed"}
WithRecipient == {"added", "failed", "use", "found", "removed"}
Sending == {"dead", "obits", "calling", "called"}

\* What a thread in linkToDeath or unlinkToDeath knows stays true: the proxy is not
\* collected, and the list it walks over is locked.
Holds(th) ==
    LET c == pc[th]
    IN /\ IF c.at \in InList THEN c.j \in JavaProxy /\ proxy[c.j] = "reachable" ELSE c.j = NULL
       /\ IF c.at \in WithRecipient \cup {"calling", "called"} THEN c.r \in JDR ELSE c.r = NULL
       /\ c.at \in WithRecipient => listOf[c.r] = c.j
       /\ c.at = "added" => c.r \in ToSet(mList[c.j])
       /\ c.at \in {"read", "use"} => c.i \in DOMAIN mList[c.j]
       /\ c.at = "use" => /\ mList[c.j][c.i] = c.r
                          /\ c.saw = "strong" => mObject[c.r] = "strong"

\* r will not be reported.
Unexpected(r) ==
    /\ r \notin mObituaries
    /\ \A th \in Thread : r \notin taken[th] /\ ~(pc[th].at = "calling" /\ pc[th].r = r)

\* sendObituary is in one thread, and takes the recipients once.
Obituaries ==
    /\ mObitsSent => mObituaries = {}
    /\ \A th \in Thread :
          /\ pc[th].at \in {"obits", "calling", "called"} => mObitsSent
          /\ pc[th].at \notin {"obits", "calling", "called"} => taken[th] = {}
          /\ pc[th].at \in {"calling", "called"} => pc[th].r \notin taken[th]
    /\ \A th, u \in Thread : pc[th].at \in Sending /\ pc[u].at \in Sending => th = u

\* A recipient that is being linked or unlinked is not reported, and not linked twice.
Exclusive ==
    /\ \A th \in Thread, r \in JDR :
          pc[th].at \in {"added", "failed", "removed"} /\ pc[th].r = r => Unexpected(r)
    /\ \A th, u \in Thread :
          pc[th].at = "added" /\ pc[u].at \in {"added", "failed", "removed"} /\ th # u =>
              pc[th].r # pc[u].r

\* Registered, with what keeps a linked recipient alive.
Agree ==
    /\ \A r \in JDR : link[r] = "linked" =>
          /\ ~Unexpected(r)
          /\ \/ \E j \in JavaProxy : r \in ToSet(mList[j])
             \/ \E th \in Thread : pc[th].at = "calling" /\ pc[th].r = r
    /\ \A j \in JavaProxy : \A r \in ToSet(mList[j]) :
          link[r] \notin {"linked", "told"} =>
              \E th \in Thread : pc[th].at \in {"added", "failed", "removed"} /\ pc[th].r = r

JavaInv ==
    /\ TypeOK /\ OneBinderProxy /\ RefsValid
    /\ Listed /\ (\A th \in Thread : Holds(th))
    /\ Obituaries /\ Exclusive /\ Agree
-----------------------------------------------------------------------------
(* Lists *)

\* DeathRecipientList::add
LEMMA AppendItems ==
    ASSUME NEW S, NEW STATE q, q \in Seq(S), NEW STATE d, d \in S, d \notin ToSet(q), Distinct(q)
    PROVE  /\ Append(q, d) \in Seq(S)
           /\ ToSet(Append(q, d)) = ToSet(q) \cup {d}
           /\ Distinct(Append(q, d))
<1>1. /\ Append(q, d) \in Seq(S)
      /\ DOMAIN q = 1 .. Len(q) /\ Len(q) \in Nat
      /\ DOMAIN Append(q, d) = 1 .. Len(q) + 1
      /\ \A i \in 1 .. Len(q) : Append(q, d)[i] = q[i]
      /\ Append(q, d)[Len(q) + 1] = d
  OBVIOUS
<1>2. ToSet(Append(q, d)) = ToSet(q) \cup {d}
  <2>1. ToSet(Append(q, d)) \subseteq ToSet(q) \cup {d}
    BY <1>1 DEF ToSet
  <2>2. ToSet(q) \subseteq ToSet(Append(q, d))
    BY <1>1 DEF ToSet
  <2>3. d \in ToSet(Append(q, d))
    BY <1>1 DEF ToSet
  <2> QED BY <2>1, <2>2, <2>3
<1>3. Distinct(Append(q, d))
  BY <1>1 DEF ToSet, Distinct
<1> QED BY <1>1, <1>2, <1>3

\* DeathRecipientList::remove
LEMMA RemoveFirstItems ==
    ASSUME NEW S, NEW STATE q, q \in Seq(S), NEW STATE d, Distinct(q)
    PROVE  /\ RemoveFirst(q, d) \in Seq(S)
           /\ ToSet(RemoveFirst(q, d)) = ToSet(q) \ {d}
           /\ Distinct(RemoveFirst(q, d))
<1> DEFINE n == Len(q)
<1>1. DOMAIN q = 1 .. n /\ n \in Nat /\ \A i \in 1 .. n : q[i] \in S
  OBVIOUS
<1>2. CASE ~\E i \in 1 .. n : q[i] = d
  BY <1>1, <1>2 DEF RemoveFirst, ToSet
<1>3. ASSUME NEW k \in 1 .. n, q[k] = d
      PROVE  /\ RemoveFirst(q, d) \in Seq(S)
             /\ ToSet(RemoveFirst(q, d)) = ToSet(q) \ {d}
             /\ Distinct(RemoveFirst(q, d))
  <2>1. {i \in 1 .. n : q[i] = d} = {k}
    BY <1>1, <1>3 DEF Distinct
  <2>2. Min({k}) = k
    BY <1>1, <1>3 DEF Min
  <2>3. SelectInSeq(q, LAMBDA v : v = d) = k
    BY <2>1, <2>2 DEF SelectInSeq
  <2> DEFINE r == RemoveAt(q, k)
  <2>4. RemoveFirst(q, d) = r
    BY <1>3, <2>3 DEF RemoveFirst
  <2> DEFINE a == SubSeq(q, 1, k - 1)
             b == SubSeq(q, k + 1, n)
  <2>5. /\ a \in Seq(S) /\ Len(a) = k - 1 /\ \A i \in 1 .. k - 1 : a[i] = q[i]
    <3>1. 1 \in Int /\ k - 1 \in Int /\ \A i \in 1 .. k - 1 : q[i] \in S
      BY <1>1
    <3>2. /\ a \in Seq(S) /\ Len(a) = IF 1 <= k - 1 THEN k - 1 - 1 + 1 ELSE 0
          /\ \A i \in 1 .. k - 1 - 1 + 1 : a[i] = q[1 + i - 1]
      BY <3>1, SubSeqProperties
    <3> HIDE DEF a
    <3> QED BY <1>1, <3>2
  <2>6. /\ b \in Seq(S) /\ Len(b) = n - k /\ \A i \in 1 .. n - k : b[i] = q[k + i]
    <3>1. k + 1 \in Int /\ n \in Int /\ \A i \in k + 1 .. n : q[i] \in S
      BY <1>1
    <3>2. /\ b \in Seq(S) /\ Len(b) = IF k + 1 <= n THEN n - (k + 1) + 1 ELSE 0
          /\ \A i \in 1 .. n - (k + 1) + 1 : b[i] = q[k + 1 + i - 1]
      BY <3>1, SubSeqProperties
    <3> HIDE DEF b, n
    <3>3. ASSUME NEW i \in 1 .. n - k
          PROVE  b[i] = q[k + i]
      <4>1. i \in 1 .. n - (k + 1) + 1 /\ k + 1 + i - 1 = k + i
        BY <1>1
      <4> QED BY <3>2, <4>1
    <3>4. Len(b) = n - k
      BY <1>1, <3>2
    <3> QED BY <3>2, <3>3, <3>4
  <2>7. r = a \o b
    BY DEF RemoveAt
  <2> HIDE DEF a, b, n, r
  <2>8. /\ r \in Seq(S) /\ Len(r) = n - 1
        /\ \A i \in 1 .. n - 1 : r[i] = q[IF i < k THEN i ELSE i + 1]
    <3>1. /\ r \in Seq(S) /\ Len(r) = Len(a) + Len(b)
          /\ \A i \in 1 .. Len(a) + Len(b) : r[i] = IF i <= Len(a) THEN a[i] ELSE b[i - Len(a)]
      BY <2>5, <2>6, <2>7, ConcatProperties
    <3>2. ASSUME NEW i \in 1 .. n - 1
          PROVE r[i] = q[IF i < k THEN i ELSE i + 1]
      <4>1. CASE i < k
        BY <1>1, <2>5, <2>6, <3>1, <4>1
      <4>2. CASE ~(i < k)
        <5>1. r[i] = b[i - Len(a)] /\ i - Len(a) \in 1 .. n - k /\ k + (i - Len(a)) = i + 1
          BY <1>1, <2>5, <2>6, <3>1, <4>2
        <5> QED BY <2>6, <4>2, <5>1
      <4> QED BY <4>1, <4>2
    <3> QED BY <1>1, <2>5, <2>6, <3>1, <3>2
  <2>9. DOMAIN r = 1 .. n - 1
    BY <2>8
  <2>10. ToSet(r) \subseteq ToSet(q) \ {d}
    <3>1. SUFFICES ASSUME NEW i \in 1 .. n - 1
                   PROVE  r[i] \in ToSet(q) /\ r[i] # d
      BY <2>9 DEF ToSet
    <3> DEFINE m == IF i < k THEN i ELSE i + 1
    <3>2. m \in DOMAIN q /\ m # k /\ r[i] = q[m]
      BY <1>1, <2>8
    <3> QED BY <1>1, <1>3, <3>2 DEF ToSet, Distinct
  <2>11. ToSet(q) \ {d} \subseteq ToSet(r)
    <3>1. SUFFICES ASSUME NEW i \in DOMAIN q, q[i] # d
                   PROVE  q[i] \in ToSet(r)
      BY DEF ToSet
    <3> DEFINE m == IF i < k THEN i ELSE i - 1
    <3>2. m \in 1 .. n - 1 /\ r[m] = q[i]
      BY <1>1, <1>3, <2>8, <3>1
    <3> QED BY <2>9, <3>2 DEF ToSet
  <2>12. Distinct(r)
    <3>1. SUFFICES ASSUME NEW i \in 1 .. n - 1, NEW j \in 1 .. n - 1, r[i] = r[j]
                   PROVE  i = j
      BY <2>9 DEF Distinct
    <3> DEFINE x == IF i < k THEN i ELSE i + 1
               y == IF j < k THEN j ELSE j + 1
    <3>2. x \in DOMAIN q /\ y \in DOMAIN q /\ q[x] = q[y]
      BY <1>1, <2>8, <3>1
    <3>3. x = y
      BY <3>2 DEF Distinct
    <3> QED BY <1>1, <3>3
  <2> QED BY <2>4, <2>8, <2>10, <2>11, <2>12
<1> QED BY <1>2, <1>3

-----------------------------------------------------------------------------
(* Where the threads are *)

\* A thread goes on in the same function, or returns from it.
LEMMA GotoPc ==
    ASSUME TypeOK, NEW th \in Thread, NEW place, Goto(th, place),
           place \in {"failed", "found", "removed", "dead", "obits", "called"}
    PROVE  /\ pc' \in [Thread -> PcRec]
           /\ \A u \in Thread : u # th => pc'[u] = pc[u]
           /\ pc'[th].at = place
           /\ pc'[th].j = pc[th].j /\ pc'[th].r = pc[th].r
BY DEF TypeOK, Goto, PcRec

LEMMA ReturnPc ==
    ASSUME TypeOK, NEW th \in Thread, Return(th)
    PROVE  /\ pc' \in [Thread -> PcRec]
           /\ \A u \in Thread : u # th => pc'[u] = pc[u]
           /\ pc'[th].at = "idle"
           /\ pc'[th].j = NULL /\ pc'[th].r = NULL
BY DEF TypeOK, Return, PcRec, Idle

-----------------------------------------------------------------------------
(* Every operation keeps the invariant *)

\* Steps of the binder and of native code.
LEMMA BinderKeeps ==
    ASSUME JavaInv, Die \/ Receive \/ Release
    PROVE  JavaInv'
<1>1. /\ UNCHANGED <<attached, mObitsSent, mObituaries, proxy, listVars, pc, taken, misused>>
      /\ died' \in BOOLEAN /\ native' \in BOOLEAN
  BY DEF Die, Receive, Release, JavaInv, TypeOK
<1>2. TypeOK' /\ OneBinderProxy' /\ RefsValid' /\ Listed'
  BY <1>1 DEF JavaInv, TypeOK, OneBinderProxy, RefsValid, Listed, listVars, Holders
<1>3. \A th \in Thread : Holds(th)'
  BY <1>1 DEF JavaInv, Holds, listVars
<1>4. Obituaries' /\ Exclusive' /\ Agree'
  BY <1>1 DEF JavaInv, Obituaries, Exclusive, Agree, Unexpected, listVars
<1> QED BY <1>2, <1>3, <1>4 DEF JavaInv

LEMMA DeleteBpBinderKeeps ==
    ASSUME JavaInv, DeleteBpBinder
    PROVE  JavaInv'
<1>1. /\ UNCHANGED <<died, native, mObituaries, proxy, listVars, pc, taken, misused>>
      /\ attached' = NULL /\ mObitsSent' = FALSE /\ mObituaries = {} /\ Holders = {}
      /\ \A th \in Thread : pc[th].at \notin Sending
  BY DEF DeleteBpBinder, Sending
<1>2. TypeOK' /\ OneBinderProxy' /\ RefsValid' /\ Listed'
  BY <1>1 DEF JavaInv, TypeOK, OneBinderProxy, RefsValid, Listed, listVars, Holders
<1>3. \A th \in Thread : Holds(th)'
  BY <1>1 DEF JavaInv, Holds, listVars
<1>4. Obituaries'
  BY <1>1 DEF JavaInv, Obituaries, Sending
<1>5. Exclusive' /\ Agree'
  BY <1>1 DEF JavaInv, Exclusive, Agree, Unexpected, listVars
<1> QED BY <1>2, <1>3, <1>4, <1>5 DEF JavaInv

LEMMA ProxyKeeps ==
    ASSUME JavaInv, NEW j \in JavaProxy, NewBinderProxy(j) \/ Collect(j)
    PROVE  JavaInv'
<1>1. CASE NewBinderProxy(j)
  <2>1. /\ attached # NULL => proxy[attached] # "reachable"
        /\ j \notin Holders /\ proxy[j] # "reachable"
        /\ proxy' = [proxy EXCEPT ![j] = "reachable"]
        /\ attached' = j
        /\ mList' = [mList EXCEPT ![j] = <<>>]
        /\ UNCHANGED <<died, native, mObitsSent, mObituaries, listOf, mObject, link, pc, taken, misused>>
    BY <1>1 DEF NewBinderProxy, Holders
  <2>2. /\ mList' \in [JavaProxy -> Seq(JDR)] /\ mList'[j] = <<>>
        /\ \A k \in JavaProxy : k # j => mList'[k] = mList[k]
        /\ \A k \in JavaProxy : k # j => proxy'[k] = proxy[k]
        /\ proxy'[j] = "reachable"
    BY <2>1 DEF JavaInv, TypeOK
  <2>3. ToSet(mList'[j]) = {} /\ Distinct(mList'[j])
    BY <2>2 DEF ToSet, Distinct
  <2>4. TypeOK' /\ OneBinderProxy' /\ RefsValid'
    <3>1. TypeOK'
      BY <2>1, <2>2 DEF JavaInv, TypeOK
    <3>2. OneBinderProxy'
      BY <2>1, <2>2, JavaAssumption DEF JavaInv, OneBinderProxy
    <3> QED BY <2>1, <3>1, <3>2 DEF JavaInv, RefsValid
  <2>5. Listed'
    BY <2>1, <2>2, <2>3 DEF JavaInv, Listed, Holders
  <2>6. ASSUME NEW th \in Thread PROVE Holds(th)'
    <3>1. Holds(th)
      BY DEF JavaInv
    <3> QED BY <2>1, <2>2, <3>1 DEF Holds, InList, WithRecipient
  <2>7. Obituaries' /\ Exclusive'
    BY <2>1 DEF JavaInv, Obituaries, Exclusive, Unexpected
  <2>8. Agree'
    <3>1. mList[j] = mList'[j]
      BY <2>1, <2>2 DEF JavaInv, Listed
    <3>2. \A k \in JavaProxy : mList'[k] = mList[k]
      BY <2>2, <3>1
    <3> QED BY <2>1, <3>2 DEF JavaInv, Agree, Unexpected
  <2> QED BY <2>4, <2>5, <2>6, <2>7, <2>8 DEF JavaInv
<1>2. CASE Collect(j)
  <2>1. /\ \A th \in Thread : pc[th].j # j
        /\ proxy' = [proxy EXCEPT ![j] = "collected"]
        /\ UNCHANGED <<bpVars, listVars, pc, taken, misused>>
    BY <1>2 DEF Collect
  <2>2. /\ \A k \in JavaProxy : k # j => proxy'[k] = proxy[k]
        /\ proxy'[j] = "collected"
    BY <2>1 DEF JavaInv, TypeOK
  <2>3. TypeOK' /\ OneBinderProxy' /\ RefsValid' /\ Listed'
    BY <2>1, <2>2 DEF JavaInv, TypeOK, OneBinderProxy, RefsValid, Listed, bpVars, listVars, Holders
  <2>4. ASSUME NEW th \in Thread PROVE Holds(th)'
    <3>1. Holds(th)
      BY DEF JavaInv
    <3> QED BY <2>1, <2>2, <3>1 DEF Holds, InList, WithRecipient, listVars
  <2>5. Obituaries' /\ Exclusive' /\ Agree'
    BY <2>1 DEF JavaInv, Obituaries, Exclusive, Agree, Unexpected, bpVars, listVars
  <2> QED BY <2>3, <2>4, <2>5 DEF JavaInv
<1> QED BY <1>1, <1>2

LEMMA DestroyKeeps ==
    ASSUME JavaInv, NEW j \in JavaProxy, Destroy(j)
    PROVE  JavaInv'
<1>1. /\ proxy[j] = "collected"
      /\ proxy' = [proxy EXCEPT ![j] = "destroyed"]
      /\ mList' = [mList EXCEPT ![j] = <<>>]
      /\ listOf' = [r \in JDR |-> IF listOf[r] = j THEN NULL ELSE listOf[r]]
      /\ link' = [r \in JDR |->
                     IF /\ r \in ToSet(mList[j])
                        /\ link[r] = "linked"
                        /\ \A th \in Thread : pc[th].r # r
                     THEN "lost" ELSE link[r]]
      /\ UNCHANGED <<died, native, attached, mObitsSent, mObituaries, mObject, pc, taken, misused>>
  BY DEF Destroy, bpVars
<1>2. /\ mList' \in [JavaProxy -> Seq(JDR)] /\ mList'[j] = <<>>
      /\ \A k \in JavaProxy : k # j => mList'[k] = mList[k]
      /\ \A k \in JavaProxy : k # j => proxy'[k] = proxy[k]
      /\ proxy'[j] = "destroyed"
  BY <1>1 DEF JavaInv, TypeOK
<1>3. ToSet(mList'[j]) = {} /\ Distinct(mList'[j])
  BY <1>2 DEF ToSet, Distinct
<1>4. \A r \in JDR : /\ link'[r] # link[r] => link[r] = "linked" /\ link'[r] = "lost" /\ r \in ToSet(mList[j])
                     /\ listOf[r] # j => listOf'[r] = listOf[r]
                     /\ link[r] = "linked" /\ r \in ToSet(mList[j]) =>
                           link'[r] = "lost" \/ \E th \in Thread : pc[th].r = r
  BY <1>1
<1>5. TypeOK'
  <2>1. link' \in [JDR -> Links] /\ listOf' \in [JDR -> JavaProxy \cup {NULL}]
    BY <1>1 DEF JavaInv, TypeOK, Links
  <2> QED BY <1>1, <1>2, <2>1 DEF JavaInv, TypeOK
<1>6. OneBinderProxy' /\ RefsValid'
  BY <1>1, <1>2 DEF JavaInv, OneBinderProxy, RefsValid
<1>7. \A k \in JavaProxy : ToSet(mList[k]) \subseteq JDR
  BY DEF JavaInv, TypeOK, ToSet
<1>8. Listed'
  BY <1>1, <1>2, <1>3, <1>4, <1>7 DEF JavaInv, Listed, Holders
<1>9. \A th \in Thread : Holds(th) /\ pc[th].j # j
  BY <1>1, JavaAssumption DEF JavaInv, Holds
<1>10. ASSUME NEW th \in Thread PROVE Holds(th)'
  BY <1>1, <1>2, <1>4, <1>9 DEF Holds, InList, WithRecipient
<1>11. Obituaries' /\ Exclusive'
  BY <1>1 DEF JavaInv, Obituaries, Exclusive, Unexpected
<1>12. ASSUME NEW r \in JDR, link[r] = "linked", r \in ToSet(mList[j]), NEW th \in Thread, pc[th].r = r
       PROVE  pc[th].at = "calling"
  <2>1. listOf[r] = j
    BY <1>12 DEF JavaInv, Listed
  <2>2. pc[th].at \notin WithRecipient
    BY <1>9, <1>12, <2>1 DEF Holds
  <2>3. pc[th].at \in {"calling", "called"}
    BY <1>9, <1>12, <2>2, JavaAssumption DEF Holds
  <2>4. pc[th].at # "called"
    <3> SUFFICES ASSUME pc[th].at = "called" PROVE FALSE
      OBVIOUS
    <3>1. Unexpected(r)
      BY <1>12 DEF JavaInv, Obituaries, Unexpected, Sending
    <3> QED BY <1>12, <3>1 DEF JavaInv, Agree
  <2> QED BY <2>3, <2>4
<1>13. \A r : Unexpected(r)' <=> Unexpected(r)
  BY <1>1 DEF Unexpected
<1>14. Agree'
  <2>1. ASSUME NEW r \in JDR, link'[r] = "linked"
        PROVE  /\ ~Unexpected(r)'
               /\ \/ \E k \in JavaProxy : r \in ToSet(mList'[k])
                  \/ \E th \in Thread : pc'[th].at = "calling" /\ pc'[th].r = r
    <3>1. link[r] = "linked"
      BY <1>4, <2>1
    <3>2. CASE r \in ToSet(mList[j])
      BY <1>1, <1>4, <1>12, <1>13, <2>1, <3>1, <3>2 DEF JavaInv, Agree
    <3>3. CASE r \notin ToSet(mList[j])
      BY <1>1, <1>2, <1>13, <3>1, <3>3 DEF JavaInv, Agree
    <3> QED BY <3>2, <3>3
  <2>2. ASSUME NEW k \in JavaProxy, NEW r \in ToSet(mList'[k]), link'[r] \notin {"linked", "told"}
        PROVE  \E th \in Thread : pc'[th].at \in {"added", "failed", "removed"} /\ pc'[th].r = r
    <3>1. k # j /\ r \in ToSet(mList[k]) /\ r \in JDR
      BY <1>2, <1>3, <1>7
    <3>2. listOf[r] = k /\ r \notin ToSet(mList[j])
      BY <3>1 DEF JavaInv, Listed
    <3>3. link'[r] = link[r]
      BY <1>4, <3>1, <3>2
    <3> QED BY <1>1, <2>2, <3>1, <3>3 DEF JavaInv, Agree
  <2> QED BY <2>1, <2>2 DEF Agree
<1> QED BY <1>5, <1>6, <1>8, <1>10, <1>11, <1>14 DEF JavaInv

LEMMA LinkAddKeeps ==
    ASSUME JavaInv, NEW th \in Thread, NEW j \in JavaProxy, NEW r \in JDR, LinkAdd(th, j, r)
    PROVE  JavaInv'
<1>1. /\ pc[th] = Idle /\ proxy[j] = "reachable" /\ ~Locked(j) /\ Unused(r)
      /\ mObject' = [mObject EXCEPT ![r] = "strong"]
      /\ listOf' = [listOf EXCEPT ![r] = j]
      /\ mList' = [mList EXCEPT ![j] = Append(@, r)]
      /\ link' = [link EXCEPT ![r] = "adding"]
      /\ pc' = [pc EXCEPT ![th] = [Idle EXCEPT !.at = "added", !.j = j, !.r = r]]
      /\ UNCHANGED <<died, native, attached, mObitsSent, mObituaries, proxy, taken, misused>>
  BY DEF LinkAdd, bpVars
<1>2. /\ pc' \in [Thread -> PcRec]
      /\ \A u \in Thread : u # th => pc'[u] = pc[u]
      /\ pc'[th].at = "added" /\ pc'[th].j = j /\ pc'[th].r = r
      /\ pc[th].at = "idle"
  <2> DEFINE c == [Idle EXCEPT !.at = "added", !.j = j, !.r = r]
  <2>1. c \in PcRec /\ c.at = "added" /\ c.j = j /\ c.r = r
    BY DEF PcRec, Idle
  <2>2. pc' = [pc EXCEPT ![th] = c] /\ pc \in [Thread -> PcRec] /\ pc[th].at = "idle"
    BY <1>1 DEF JavaInv, TypeOK, Idle
  <2> HIDE DEF c
  <2> QED BY <2>1, <2>2
<1>3. /\ Unexpected(r)
      /\ \A u \in Thread : pc[u].r # r
      /\ \A k \in JavaProxy : r \notin ToSet(mList[k])
  BY <1>1 DEF Unused, Alive, Unexpected
<1>4. /\ Append(mList[j], r) \in Seq(JDR)
      /\ ToSet(Append(mList[j], r)) = ToSet(mList[j]) \cup {r}
      /\ Distinct(Append(mList[j], r))
  <2>1. mList[j] \in Seq(JDR) /\ Distinct(mList[j]) /\ r \notin ToSet(mList[j])
    BY <1>3 DEF JavaInv, TypeOK, Listed
  <2> QED BY <2>1, AppendItems
<1>5. /\ mList' \in [JavaProxy -> Seq(JDR)]
      /\ mList'[j] = Append(mList[j], r)
      /\ \A k \in JavaProxy : k # j => mList'[k] = mList[k]
      /\ \A k \in JavaProxy : ToSet(mList'[k]) = IF k = j THEN ToSet(mList[j]) \cup {r} ELSE ToSet(mList[k])
  BY <1>1, <1>4 DEF JavaInv, TypeOK
<1>6. /\ listOf'[r] = j /\ link'[r] = "adding" /\ mObject'[r] = "strong"
      /\ \A q \in JDR : q # r => listOf'[q] = listOf[q] /\ link'[q] = link[q] /\ mObject'[q] = mObject[q]
  BY <1>1 DEF JavaInv, TypeOK
<1>7. TypeOK' /\ OneBinderProxy' /\ RefsValid'
  <2>1. /\ link' \in [JDR -> Links] /\ listOf' \in [JDR -> JavaProxy \cup {NULL}]
        /\ mObject' \in [JDR -> {"strong", NULL}]
    BY <1>1 DEF JavaInv, TypeOK, Links
  <2> QED BY <1>1, <1>2, <1>5, <2>1 DEF JavaInv, TypeOK, OneBinderProxy, RefsValid
<1>8. \A k \in JavaProxy : ToSet(mList[k]) \subseteq JDR
  BY DEF JavaInv, TypeOK, ToSet
<1>9. Listed'
  BY <1>1, <1>3, <1>4, <1>5, <1>6, <1>8 DEF JavaInv, Listed, Holders
<1>10. ASSUME NEW u \in Thread PROVE Holds(u)'
  <2>1. CASE u = th
    BY <1>1, <1>2, <1>5, <1>6, <2>1 DEF Holds, InList, WithRecipient
  <2>2. CASE u # th
    <3>1. Holds(u) /\ pc'[u] = pc[u] /\ pc[u].r # r
      BY <1>2, <1>3, <2>2 DEF JavaInv
    <3>2. pc[u].at \in {"read", "use"} => pc[u].j # j
      BY <1>1 DEF Locked
    <3> QED BY <1>1, <1>5, <1>6, <3>1, <3>2 DEF Holds, InList, WithRecipient
  <2> QED BY <2>1, <2>2
<1>11. Obituaries'
  BY <1>1, <1>2 DEF JavaInv, Obituaries, Sending
<1>12. \A q : Unexpected(q)' <=> Unexpected(q)
  BY <1>1, <1>2 DEF Unexpected
<1>13. Exclusive'
  BY <1>2, <1>3, <1>12 DEF JavaInv, Exclusive
<1>14. Agree'
  <2>1. ASSUME NEW q \in JDR, link'[q] = "linked"
        PROVE  /\ ~Unexpected(q)'
               /\ \/ \E k \in JavaProxy : q \in ToSet(mList'[k])
                  \/ \E u \in Thread : pc'[u].at = "calling" /\ pc'[u].r = q
    <3>1. q # r /\ link[q] = "linked"
      BY <1>6, <2>1
    <3>2. ~Unexpected(q)
      BY <3>1 DEF JavaInv, Agree
    <3>3. CASE \E k \in JavaProxy : q \in ToSet(mList[k])
      BY <1>5, <1>12, <3>2, <3>3
    <3>4. CASE \E u \in Thread : pc[u].at = "calling" /\ pc[u].r = q
      BY <1>2, <1>12, <3>2, <3>4
    <3> QED BY <3>1, <3>3, <3>4 DEF JavaInv, Agree
  <2>2. ASSUME NEW k \in JavaProxy, NEW q \in ToSet(mList'[k]), link'[q] \notin {"linked", "told"}
        PROVE  \E u \in Thread : pc'[u].at \in {"added", "failed", "removed"} /\ pc'[u].r = q
    <3>1. CASE q = r
      BY <1>2, <3>1
    <3>2. CASE q # r
      <4>1. q \in ToSet(mList[k]) /\ link[q] \notin {"linked", "told"}
        BY <1>5, <1>6, <1>8, <2>2, <3>2
      <4>2. PICK u \in Thread : pc[u].at \in {"added", "failed", "removed"} /\ pc[u].r = q
        BY <4>1 DEF JavaInv, Agree
      <4>3. u # th
        BY <1>2, <4>2
      <4> QED BY <1>2, <4>2, <4>3
    <3> QED BY <3>1, <3>2
  <2> QED BY <2>1, <2>2 DEF Agree
<1> QED BY <1>7, <1>9, <1>10, <1>11, <1>13, <1>14 DEF JavaInv

\* A thread goes on in linkToDeath, unlinkToDeath or sendObituary, and changes nothing
\* but where it is.
LEMMA ThreadMoves ==
    ASSUME JavaInv, NEW th \in Thread,
           UNCHANGED <<bpVars, proxy, listVars, taken>>,
           pc' \in [Thread -> PcRec],
           \A u \in Thread : u # th => pc'[u] = pc[u],
           pc[th].at \notin {"added", "failed", "removed", "calling"},
           pc'[th].at \notin {"added", "failed", "removed", "calling"},
           misused' = FALSE, Holds(th)', Obituaries'
    PROVE  JavaInv'
<1>1. UNCHANGED <<died, native, attached, mObitsSent, mObituaries, proxy, mList, listOf, mObject, link, taken>>
  BY DEF bpVars, listVars
<1>2. TypeOK' /\ OneBinderProxy' /\ RefsValid' /\ Listed'
  BY <1>1 DEF JavaInv, TypeOK, OneBinderProxy, RefsValid, Listed, Holders
<1>3. ASSUME NEW u \in Thread PROVE Holds(u)'
  <2>1. CASE u # th
    <3>1. Holds(u) /\ pc'[u] = pc[u]
      BY <2>1 DEF JavaInv
    <3> QED BY <1>1, <3>1 DEF Holds
  <2> QED BY <2>1
<1>4. \A q : Unexpected(q)' <=> Unexpected(q)
  BY <1>1 DEF Unexpected
<1>5. Exclusive'
  BY <1>4 DEF JavaInv, Exclusive
<1>6. Agree'
  <2>1. ASSUME NEW q \in JDR, link'[q] = "linked"
        PROVE  /\ ~Unexpected(q)'
               /\ \/ \E k \in JavaProxy : q \in ToSet(mList'[k])
                  \/ \E u \in Thread : pc'[u].at = "calling" /\ pc'[u].r = q
    <3>1. ~Unexpected(q)
      BY <1>1, <2>1 DEF JavaInv, Agree
    <3>2. CASE \E k \in JavaProxy : q \in ToSet(mList[k])
      BY <1>1, <1>4, <3>1, <3>2
    <3>3. CASE \E u \in Thread : pc[u].at = "calling" /\ pc[u].r = q
      BY <1>4, <3>1, <3>3
    <3> QED BY <1>1, <2>1, <3>2, <3>3 DEF JavaInv, Agree
  <2>2. ASSUME NEW k \in JavaProxy, NEW q \in ToSet(mList'[k]), link'[q] \notin {"linked", "told"}
        PROVE  \E u \in Thread : pc'[u].at \in {"added", "failed", "removed"} /\ pc'[u].r = q
    <3>1. q \in ToSet(mList[k]) /\ link[q] \notin {"linked", "told"}
      BY <1>1, <2>2
    <3>2. PICK u \in Thread : pc[u].at \in {"added", "failed", "removed"} /\ pc[u].r = q
      BY <3>1 DEF JavaInv, Agree
    <3> QED BY <3>2
  <2> QED BY <2>1, <2>2 DEF Agree
<1> QED BY <1>2, <1>3, <1>5, <1>6 DEF JavaInv

LEMMA LinkTargetKeeps ==
    ASSUME JavaInv, NEW th \in Thread, LinkTarget(th)
    PROVE  JavaInv'
<1> DEFINE r == pc[th].r
           j == pc[th].j
<1>1. /\ pc[th].at = "added"
      /\ UNCHANGED <<died, native, attached, mObitsSent, proxy, mList, listOf, mObject, taken, misused>>
  BY DEF LinkTarget
<1>2. /\ r \in JDR /\ j \in JavaProxy /\ proxy[j] = "reachable"
      /\ listOf[r] = j /\ r \in ToSet(mList[j])
  BY <1>1 DEF JavaInv, Holds, InList, WithRecipient
<1>3. Unexpected(r)
  BY <1>1, <1>2 DEF JavaInv, Exclusive
<1>4. CASE mObitsSent
  <2>1. link' = [link EXCEPT ![r] = "failed"] /\ Goto(th, "failed") /\ UNCHANGED mObituaries
    BY <1>4 DEF LinkTarget
  <2>2. /\ pc' \in [Thread -> PcRec]
        /\ \A u \in Thread : u # th => pc'[u] = pc[u]
        /\ pc'[th].at = "failed" /\ pc'[th].j = j /\ pc'[th].r = r
    BY <2>1, GotoPc DEF JavaInv
  <2>3. link' \in [JDR -> Links] /\ link'[r] = "failed" /\ \A q \in JDR : q # r => link'[q] = link[q]
    BY <1>2, <2>1 DEF JavaInv, TypeOK, Links
  <2> HIDE DEF r, j
  <2>4. TypeOK' /\ OneBinderProxy' /\ RefsValid' /\ Listed'
    BY <1>1, <2>1, <2>2, <2>3 DEF JavaInv, TypeOK, OneBinderProxy, RefsValid, Listed, Holders
  <2>5. ASSUME NEW u \in Thread PROVE Holds(u)'
    <3>1. CASE u # th
      <4>1. Holds(u) /\ pc'[u] = pc[u]
        BY <2>2, <3>1 DEF JavaInv
      <4> QED BY <1>1, <4>1 DEF Holds
    <3>2. CASE u = th
      BY <1>1, <1>2, <2>2, <3>2 DEF Holds, InList, WithRecipient
    <3> QED BY <3>1, <3>2
  <2>6. Obituaries'
    BY <1>1, <2>1, <2>2 DEF JavaInv, Obituaries, Sending
  <2>7. \A q : Unexpected(q)' <=> Unexpected(q)
    BY <1>1, <2>1, <2>2 DEF Unexpected
  <2>8. Exclusive'
    <3>1. \A u \in Thread : pc'[u].r = pc[u].r
      BY <2>2 DEF r
    <3> QED BY <1>1, <2>2, <2>7, <3>1 DEF JavaInv, Exclusive
  <2>9. ASSUME NEW q \in JDR, link'[q] = "linked"
        PROVE  /\ ~Unexpected(q)'
               /\ \/ \E k \in JavaProxy : q \in ToSet(mList'[k])
                  \/ \E u \in Thread : pc'[u].at = "calling" /\ pc'[u].r = q
    <3>1. link[q] = "linked"
      BY <2>3, <2>9
    <3>2. ~Unexpected(q)
      BY <3>1 DEF JavaInv, Agree
    <3>3. CASE \E k \in JavaProxy : q \in ToSet(mList[k])
      BY <1>1, <2>7, <3>2, <3>3
    <3>4. CASE \E u \in Thread : pc[u].at = "calling" /\ pc[u].r = q
      BY <1>1, <2>2, <2>7, <3>2, <3>4
    <3> QED BY <3>1, <3>3, <3>4 DEF JavaInv, Agree
  <2>10. ASSUME NEW k \in JavaProxy, NEW q \in ToSet(mList'[k]), link'[q] \notin {"linked", "told"}
         PROVE  \E u \in Thread : pc'[u].at \in {"added", "failed", "removed"} /\ pc'[u].r = q
    <3>1. CASE q = r
      BY <2>2, <3>1
    <3>2. CASE q # r
      <4>1. q \in ToSet(mList[k]) /\ q \in JDR
        BY <1>1, <2>10 DEF JavaInv, TypeOK, ToSet
      <4>2. link[q] \notin {"linked", "told"}
        BY <2>3, <2>10, <3>2, <4>1
      <4>3. PICK u \in Thread : pc[u].at \in {"added", "failed", "removed"} /\ pc[u].r = q
        BY <4>1, <4>2 DEF JavaInv, Agree
      <4> QED BY <2>2, <3>2, <4>3 DEF r
    <3> QED BY <3>1, <3>2
  <2>11. Agree'
    BY <2>9, <2>10 DEF Agree
  <2> QED BY <2>4, <2>5, <2>6, <2>8, <2>11 DEF JavaInv
<1>5. CASE ~mObitsSent
  <2>1. /\ mObituaries' = mObituaries \cup {r}
        /\ link' = [link EXCEPT ![r] = "linked"] /\ Return(th)
    BY <1>5 DEF LinkTarget
  <2>2. /\ pc' \in [Thread -> PcRec]
        /\ \A u \in Thread : u # th => pc'[u] = pc[u]
        /\ pc'[th].at = "idle" /\ pc'[th].j = NULL /\ pc'[th].r = NULL
    BY <2>1, ReturnPc DEF JavaInv
  <2>3. link' \in [JDR -> Links] /\ link'[r] = "linked" /\ \A q \in JDR : q # r => link'[q] = link[q]
    BY <1>2, <2>1 DEF JavaInv, TypeOK, Links
  <2>4. ASSUME NEW u \in Thread, pc[u].at \in {"added", "failed", "removed"}, u # th
        PROVE  pc[u].r # r
    BY <1>1, <2>4 DEF JavaInv, Exclusive
  <2> HIDE DEF r, j
  <2>5. TypeOK' /\ OneBinderProxy' /\ RefsValid' /\ Listed'
    BY <1>1, <1>2, <2>1, <2>2, <2>3 DEF JavaInv, TypeOK, OneBinderProxy, RefsValid, Listed, Holders
  <2>6. ASSUME NEW u \in Thread PROVE Holds(u)'
    <3>1. CASE u # th
      <4>1. Holds(u) /\ pc'[u] = pc[u]
        BY <2>2, <3>1 DEF JavaInv
      <4> QED BY <1>1, <4>1 DEF Holds
    <3>2. CASE u = th
      BY <1>1, <2>2, <3>2 DEF Holds, InList, WithRecipient
    <3> QED BY <3>1, <3>2
  <2>7. Obituaries'
    BY <1>1, <1>5, <2>1, <2>2 DEF JavaInv, Obituaries, Sending
  <2>8. \A q : q # r => (Unexpected(q)' <=> Unexpected(q))
    BY <1>1, <2>1, <2>2 DEF Unexpected
  <2>9. Exclusive'
    <3>1. ASSUME NEW u \in Thread, NEW q \in JDR,
                 pc'[u].at \in {"added", "failed", "removed"}, pc'[u].r = q
          PROVE  Unexpected(q)'
      <4>1. u # th /\ pc[u].at \in {"added", "failed", "removed"} /\ pc[u].r = q
        BY <2>2, <3>1
      <4>2. Unexpected(q) /\ q # r
        BY <2>4, <4>1 DEF JavaInv, Exclusive
      <4> QED BY <2>8, <4>2
    <3>2. ASSUME NEW t \in Thread, NEW u \in Thread,
                 pc'[t].at = "added", pc'[u].at \in {"added", "failed", "removed"}, t # u
          PROVE  pc'[t].r # pc'[u].r
      <4>1. pc'[t] = pc[t] /\ pc'[u] = pc[u]
        BY <2>2, <3>2
      <4> QED BY <3>2, <4>1 DEF JavaInv, Exclusive
    <3> QED BY <3>1, <3>2 DEF Exclusive
  <2>10. ASSUME NEW q \in JDR, link'[q] = "linked"
         PROVE  /\ ~Unexpected(q)'
                /\ \/ \E k \in JavaProxy : q \in ToSet(mList'[k])
                   \/ \E u \in Thread : pc'[u].at = "calling" /\ pc'[u].r = q
    <3>1. CASE q = r
      BY <1>1, <1>2, <2>1, <3>1 DEF Unexpected
    <3>2. CASE q # r
      <4>1. link[q] = "linked"
        BY <2>3, <2>10, <3>2
      <4>2. ~Unexpected(q)
        BY <4>1 DEF JavaInv, Agree
      <4>3. CASE \E k \in JavaProxy : q \in ToSet(mList[k])
        BY <1>1, <2>8, <3>2, <4>2, <4>3
      <4>4. CASE \E u \in Thread : pc[u].at = "calling" /\ pc[u].r = q
        BY <1>1, <2>2, <2>8, <3>2, <4>2, <4>4
      <4> QED BY <4>1, <4>3, <4>4 DEF JavaInv, Agree
    <3> QED BY <3>1, <3>2
  <2>11. ASSUME NEW k \in JavaProxy, NEW q \in ToSet(mList'[k]), link'[q] \notin {"linked", "told"}
         PROVE  \E u \in Thread : pc'[u].at \in {"added", "failed", "removed"} /\ pc'[u].r = q
    <3>1. q \in ToSet(mList[k]) /\ q \in JDR
      BY <1>1, <2>11 DEF JavaInv, TypeOK, ToSet
    <3>2. q # r /\ link[q] \notin {"linked", "told"}
      BY <2>3, <2>11, <3>1
    <3>3. PICK u \in Thread : pc[u].at \in {"added", "failed", "removed"} /\ pc[u].r = q
      BY <3>1, <3>2 DEF JavaInv, Agree
    <3> QED BY <2>2, <3>2, <3>3 DEF r
  <2>12. Agree'
    BY <2>10, <2>11 DEF Agree
  <2> QED BY <2>5, <2>6, <2>7, <2>9, <2>12 DEF JavaInv
<1> QED BY <1>4, <1>5

LEMMA ClearReferenceKeeps ==
    ASSUME JavaInv, NEW th \in Thread, ClearReference(th)
    PROVE  JavaInv'
<1> DEFINE r == pc[th].r
           j == pc[th].j
<1>1. /\ pc[th].at \in {"failed", "removed"}
      /\ ~Locked(j)
      /\ mList' = [mList EXCEPT ![j] = RemoveFirst(@, r)]
      /\ Return(th)
      /\ UNCHANGED <<died, native, attached, mObitsSent, mObituaries, proxy, listOf, mObject, link, taken, misused>>
  BY DEF ClearReference, bpVars
<1>2. /\ r \in JDR /\ j \in JavaProxy /\ proxy[j] = "reachable" /\ listOf[r] = j
  BY <1>1 DEF JavaInv, Holds, InList, WithRecipient
<1>3. Unexpected(r) /\ link[r] # "linked"
  BY <1>1, <1>2 DEF JavaInv, Exclusive, Agree
<1>4. /\ pc' \in [Thread -> PcRec]
      /\ \A u \in Thread : u # th => pc'[u] = pc[u]
      /\ pc'[th].at = "idle" /\ pc'[th].j = NULL /\ pc'[th].r = NULL
  BY <1>1, ReturnPc DEF JavaInv
<1>5. /\ RemoveFirst(mList[j], r) \in Seq(JDR)
      /\ ToSet(RemoveFirst(mList[j], r)) = ToSet(mList[j]) \ {r}
      /\ Distinct(RemoveFirst(mList[j], r))
  <2>1. mList[j] \in Seq(JDR) /\ Distinct(mList[j])
    BY <1>2 DEF JavaInv, TypeOK, Listed
  <2> QED BY <2>1, RemoveFirstItems
<1>6. /\ mList' \in [JavaProxy -> Seq(JDR)]
      /\ mList'[j] = RemoveFirst(mList[j], r)
      /\ \A k \in JavaProxy : k # j => mList'[k] = mList[k]
      /\ \A k \in JavaProxy : ToSet(mList'[k]) = IF k = j THEN ToSet(mList[j]) \ {r} ELSE ToSet(mList[k])
  BY <1>1, <1>2, <1>5 DEF JavaInv, TypeOK
<1>7. ASSUME NEW u \in Thread, pc[u].at = "added"
      PROVE  pc[u].r # r
  BY <1>1, <1>7 DEF JavaInv, Exclusive
<1>8. \A k \in JavaProxy : \A q \in ToSet(mList'[k]) : q \in ToSet(mList[k]) /\ q # r
  BY <1>2, <1>6 DEF JavaInv, Listed
<1> HIDE DEF r, j
<1>9. TypeOK' /\ OneBinderProxy' /\ RefsValid'
  BY <1>1, <1>4, <1>6 DEF JavaInv, TypeOK, OneBinderProxy, RefsValid
<1>10. Listed'
  <2>1. \A k \in JavaProxy : Distinct(mList'[k]) /\ (k \notin Holders' => mList'[k] = <<>>)
    BY <1>1, <1>2, <1>5, <1>6 DEF JavaInv, Listed, Holders
  <2>2. \A k \in JavaProxy : \A q \in ToSet(mList'[k]) : listOf'[q] = k
    BY <1>1, <1>8 DEF JavaInv, Listed
  <2> QED BY <2>1, <2>2 DEF Listed
<1>11. ASSUME NEW u \in Thread PROVE Holds(u)'
  <2>1. CASE u # th
    <3>1. Holds(u) /\ pc'[u] = pc[u]
      BY <1>4, <2>1 DEF JavaInv
    <3>2. pc[u].at \in {"read", "use"} => pc[u].j # j
      BY <1>1 DEF Locked
    <3>3. pc[u].at \in {"read", "use"} => mList'[pc[u].j] = mList[pc[u].j]
      BY <1>6, <3>1, <3>2 DEF Holds, InList
    <3>4. pc[u].at = "added" => pc[u].r \in ToSet(mList'[pc[u].j])
      BY <1>6, <1>7, <3>1 DEF Holds, InList
    <3> QED BY <1>1, <3>1, <3>3, <3>4 DEF Holds
  <2>2. CASE u = th
    BY <1>1, <1>4, <2>2 DEF Holds, InList, WithRecipient
  <2> QED BY <2>1, <2>2
<1>12. Obituaries'
  BY <1>1, <1>4 DEF JavaInv, Obituaries, Sending
<1>13. \A q : Unexpected(q)' <=> Unexpected(q)
  BY <1>1, <1>4 DEF Unexpected
<1>14. Exclusive'
  <2>1. \A u \in Thread : pc'[u].at \in {"added", "failed", "removed"} => pc'[u] = pc[u]
    BY <1>4
  <2> QED BY <1>13, <2>1 DEF JavaInv, Exclusive
<1>15. ASSUME NEW q \in JDR, link'[q] = "linked"
       PROVE  /\ ~Unexpected(q)'
              /\ \/ \E k \in JavaProxy : q \in ToSet(mList'[k])
                 \/ \E u \in Thread : pc'[u].at = "calling" /\ pc'[u].r = q
  <2>1. link[q] = "linked" /\ q # r
    BY <1>1, <1>3, <1>15
  <2>2. ~Unexpected(q)
    BY <2>1 DEF JavaInv, Agree
  <2>3. CASE \E k \in JavaProxy : q \in ToSet(mList[k])
    BY <1>6, <1>13, <2>1, <2>2, <2>3
  <2>4. CASE \E u \in Thread : pc[u].at = "calling" /\ pc[u].r = q
    BY <1>1, <1>4, <1>13, <2>2, <2>4
  <2> QED BY <2>1, <2>3, <2>4 DEF JavaInv, Agree
<1>16. ASSUME NEW k \in JavaProxy, NEW q \in ToSet(mList'[k]), link'[q] \notin {"linked", "told"}
       PROVE  \E u \in Thread : pc'[u].at \in {"added", "failed", "removed"} /\ pc'[u].r = q
  <2>1. q \in ToSet(mList[k]) /\ q # r /\ link[q] \notin {"linked", "told"}
    BY <1>1, <1>8, <1>16
  <2>2. PICK u \in Thread : pc[u].at \in {"added", "failed", "removed"} /\ pc[u].r = q
    BY <2>1 DEF JavaInv, Agree
  <2> QED BY <1>4, <2>1, <2>2 DEF r
<1>17. Agree'
  BY <1>15, <1>16 DEF Agree
<1> QED BY <1>9, <1>10, <1>11, <1>12, <1>14, <1>17 DEF JavaInv

LEMMA FindStartKeeps ==
    ASSUME JavaInv, NEW th \in Thread, NEW j \in JavaProxy, NEW o \in Object, FindStart(th, j, o)
    PROVE  JavaInv'
<1> DEFINE c == [Idle EXCEPT !.at = "read", !.j = j, !.o = o, !.i = 1]
<1>1. /\ pc[th] = Idle /\ proxy[j] = "reachable" /\ mList[j] # <<>>
      /\ pc' = [pc EXCEPT ![th] = c]
      /\ UNCHANGED <<bpVars, proxy, listVars, taken, misused>>
  BY DEF FindStart
<1>2. c \in PcRec /\ c.at = "read" /\ c.j = j /\ c.r = NULL /\ c.i = 1 /\ pc[th].at = "idle"
  <2>1. c.at = "read" /\ c.j = j /\ c.r = NULL /\ c.i = 1
    BY DEF Idle
  <2>2. Idle \in PcRec
    BY DEF Idle, PcRec
  <2>3. c \in PcRec
    BY <2>2 DEF PcRec
  <2>4. pc[th].at = "idle"
    BY <1>1 DEF Idle
  <2> QED BY <2>1, <2>3, <2>4
<1> HIDE DEF c
<1>3. /\ pc' \in [Thread -> PcRec]
      /\ \A u \in Thread : u # th => pc'[u] = pc[u]
      /\ pc'[th] = c
  BY <1>1, <1>2 DEF JavaInv, TypeOK
<1>4. 1 \in DOMAIN mList[j]
  BY <1>1 DEF JavaInv, TypeOK
<1>5. Holds(th)'
  BY <1>1, <1>2, <1>3, <1>4 DEF Holds, InList, WithRecipient, listVars
<1>6. Obituaries'
  BY <1>1, <1>2, <1>3 DEF JavaInv, Obituaries, Sending, bpVars
<1>7. misused' = FALSE
  BY <1>1 DEF JavaInv, TypeOK, RefsValid
<1> QED BY <1>1, <1>2, <1>3, <1>5, <1>6, <1>7, ThreadMoves

LEMMA MatchReadKeeps ==
    ASSUME JavaInv, NEW th \in Thread, MatchRead(th)
    PROVE  JavaInv'
<1> DEFINE r == mList[pc[th].j][pc[th].i]
           c == [pc[th] EXCEPT !.at = "use", !.r = r, !.saw = mObject[r]]
<1>1. /\ pc[th].at = "read"
      /\ pc' = [pc EXCEPT ![th].at = "use", ![th].r = r, ![th].saw = mObject[r]]
      /\ UNCHANGED <<bpVars, proxy, listVars, taken, misused>>
  BY DEF MatchRead
<1>2. /\ pc[th].j \in JavaProxy /\ proxy[pc[th].j] = "reachable"
      /\ pc[th].i \in DOMAIN mList[pc[th].j]
  BY <1>1 DEF JavaInv, Holds, InList
<1>3. r \in JDR /\ listOf[r] = pc[th].j /\ mObject[r] \in {"strong", NULL}
  <2>1. r \in ToSet(mList[pc[th].j]) /\ r \in JDR
    BY <1>2 DEF JavaInv, TypeOK, ToSet
  <2> QED BY <1>2, <2>1 DEF JavaInv, TypeOK, Listed
<1>4. pc' = [pc EXCEPT ![th] = c] /\ pc[th] \in PcRec /\ pc \in [Thread -> PcRec]
  BY <1>1 DEF JavaInv, TypeOK, PcRec
<1>5. /\ c \in PcRec /\ c.at = "use" /\ c.j = pc[th].j /\ c.r = r /\ c.i = pc[th].i
      /\ c.saw = mObject[r]
  BY <1>3, <1>4 DEF PcRec
<1> HIDE DEF c
<1>6. /\ pc' \in [Thread -> PcRec]
      /\ \A u \in Thread : u # th => pc'[u] = pc[u]
      /\ pc'[th] = c
  BY <1>4, <1>5
<1>7. Holds(th)'
  <2>1. mList' = mList /\ listOf' = listOf /\ mObject' = mObject /\ proxy' = proxy
    BY <1>1 DEF listVars
  <2>2. mList[c.j][c.i] = r
    BY <1>5
  <2> HIDE DEF r
  <2> QED BY <1>2, <1>3, <1>5, <1>6, <2>1, <2>2 DEF Holds, InList, WithRecipient
<1>8. Obituaries'
  BY <1>1, <1>5, <1>6 DEF JavaInv, Obituaries, Sending, bpVars
<1>9. misused' = FALSE
  BY <1>1 DEF JavaInv, TypeOK, RefsValid
<1> QED BY <1>1, <1>5, <1>6, <1>7, <1>8, <1>9, ThreadMoves

LEMMA MatchUseKeeps ==
    ASSUME JavaInv, NEW th \in Thread, MatchUse(th)
    PROVE  JavaInv'
<1> DEFINE c == pc[th]
<1>1. /\ c.at = "use"
      /\ misused' = (misused \/ (c.saw = "strong" /\ mObject[c.r] = NULL))
      /\ UNCHANGED <<bpVars, proxy, listVars, taken>>
  BY DEF MatchUse
<1>2. /\ c \in PcRec /\ c.j \in JavaProxy /\ proxy[c.j] = "reachable" /\ c.r \in JDR
      /\ listOf[c.r] = c.j /\ c.i \in DOMAIN mList[c.j]
      /\ c.saw = "strong" => mObject[c.r] = "strong"
  BY <1>1 DEF JavaInv, TypeOK, Holds, InList, WithRecipient
<1>3. misused' = FALSE
  BY <1>1, <1>2, JavaAssumption DEF JavaInv, TypeOK, RefsValid
<1>4. CASE ObjectOf[c.r] = c.o
  <2>1. Goto(th, "found")
    BY <1>4 DEF MatchUse
  <2>2. /\ pc' \in [Thread -> PcRec]
        /\ \A u \in Thread : u # th => pc'[u] = pc[u]
        /\ pc'[th].at = "found" /\ pc'[th].j = c.j /\ pc'[th].r = c.r
    BY <2>1, GotoPc DEF JavaInv
  <2> HIDE DEF c
  <2>3. Holds(th)'
    BY <1>1, <1>2, <2>2 DEF Holds, InList, WithRecipient, listVars
  <2>4. Obituaries'
    BY <1>1, <2>2 DEF JavaInv, Obituaries, Sending, bpVars, c
  <2> QED BY <1>1, <1>3, <2>2, <2>3, <2>4, ThreadMoves DEF c
<1>5. CASE ObjectOf[c.r] # c.o /\ c.i < Len(mList[c.j])
  <2> DEFINE e == [c EXCEPT !.at = "read", !.r = NULL, !.i = c.i + 1]
  <2>1. pc' = [pc EXCEPT ![th] = e]
    BY <1>5 DEF MatchUse
  <2>2. e \in PcRec /\ e.at = "read" /\ e.j = c.j /\ e.r = NULL /\ e.i = c.i + 1
    <3>1. c.i + 1 \in Nat
      BY <1>2 DEF PcRec
    <3> HIDE DEF c
    <3> QED BY <1>2, <3>1 DEF PcRec
  <2>3. c.i + 1 \in DOMAIN mList[c.j]
    BY <1>2, <1>5 DEF JavaInv, TypeOK
  <2> HIDE DEF e
  <2>4. /\ pc' \in [Thread -> PcRec]
        /\ \A u \in Thread : u # th => pc'[u] = pc[u]
        /\ pc'[th] = e
    BY <2>1, <2>2 DEF JavaInv, TypeOK
  <2> HIDE DEF c
  <2>5. Holds(th)'
    BY <1>1, <1>2, <2>2, <2>3, <2>4 DEF Holds, InList, WithRecipient, listVars
  <2>6. Obituaries'
    BY <1>1, <2>2, <2>4 DEF JavaInv, Obituaries, Sending, bpVars, c
  <2> QED BY <1>1, <1>3, <2>2, <2>4, <2>5, <2>6, ThreadMoves DEF c
<1>6. CASE ObjectOf[c.r] # c.o /\ ~(c.i < Len(mList[c.j]))
  <2>1. Return(th)
    BY <1>6 DEF MatchUse
  <2>2. /\ pc' \in [Thread -> PcRec]
        /\ \A u \in Thread : u # th => pc'[u] = pc[u]
        /\ pc'[th].at = "idle" /\ pc'[th].j = NULL /\ pc'[th].r = NULL
    BY <2>1, ReturnPc DEF JavaInv
  <2> HIDE DEF c
  <2>3. Holds(th)'
    BY <1>1, <2>2 DEF Holds, InList, WithRecipient
  <2>4. Obituaries'
    BY <1>1, <2>2 DEF JavaInv, Obituaries, Sending, bpVars, c
  <2> QED BY <1>1, <1>3, <2>2, <2>3, <2>4, ThreadMoves DEF c
<1> QED BY <1>4, <1>5, <1>6

LEMMA UnlinkTargetKeeps ==
    ASSUME JavaInv, NEW th \in Thread, UnlinkTarget(th)
    PROVE  JavaInv'
<1> DEFINE r == pc[th].r
           j == pc[th].j
<1>1. /\ pc[th].at = "found"
      /\ UNCHANGED <<died, native, attached, mObitsSent, proxy, mList, listOf, mObject, taken, misused>>
  BY DEF UnlinkTarget
<1>2. r \in JDR /\ j \in JavaProxy /\ proxy[j] = "reachable" /\ listOf[r] = j
  BY <1>1 DEF JavaInv, Holds, InList, WithRecipient
<1>3. CASE mObitsSent \/ r \notin mObituaries
  <2>1. Return(th) /\ UNCHANGED <<mObituaries, link>>
    BY <1>3 DEF UnlinkTarget
  <2>2. /\ pc' \in [Thread -> PcRec]
        /\ \A u \in Thread : u # th => pc'[u] = pc[u]
        /\ pc'[th].at = "idle" /\ pc'[th].j = NULL /\ pc'[th].r = NULL
    BY <2>1, ReturnPc DEF JavaInv
  <2>3. Holds(th)'
    BY <1>1, <2>2 DEF Holds, InList, WithRecipient
  <2>4. Obituaries'
    BY <1>1, <2>1, <2>2 DEF JavaInv, Obituaries, Sending
  <2>5. UNCHANGED <<bpVars, proxy, listVars, taken>> /\ misused' = FALSE
    BY <1>1, <2>1 DEF bpVars, listVars, JavaInv, TypeOK, RefsValid
  <2> QED BY <1>1, <2>2, <2>3, <2>4, <2>5, ThreadMoves
<1>4. CASE ~mObitsSent /\ r \in mObituaries
  <2>1. /\ mObituaries' = mObituaries \ {r}
        /\ link' = [link EXCEPT ![r] = "unlinked"]
        /\ Goto(th, "removed")
    BY <1>4 DEF UnlinkTarget
  <2>2. /\ pc' \in [Thread -> PcRec]
        /\ \A u \in Thread : u # th => pc'[u] = pc[u]
        /\ pc'[th].at = "removed" /\ pc'[th].j = j /\ pc'[th].r = r
    BY <2>1, GotoPc DEF JavaInv
  <2>3. link' \in [JDR -> Links] /\ link'[r] = "unlinked" /\ \A q \in JDR : q # r => link'[q] = link[q]
    BY <1>2, <2>1 DEF JavaInv, TypeOK, Links
  <2> HIDE DEF r, j
  <2>4. TypeOK' /\ OneBinderProxy' /\ RefsValid' /\ Listed'
    BY <1>1, <2>1, <2>2, <2>3 DEF JavaInv, TypeOK, OneBinderProxy, RefsValid, Listed, Holders
  <2>5. ASSUME NEW u \in Thread PROVE Holds(u)'
    <3>1. CASE u # th
      <4>1. Holds(u) /\ pc'[u] = pc[u]
        BY <2>2, <3>1 DEF JavaInv
      <4> QED BY <1>1, <4>1 DEF Holds
    <3>2. CASE u = th
      BY <1>1, <1>2, <2>2, <3>2 DEF Holds, InList, WithRecipient
    <3> QED BY <3>1, <3>2
  <2>6. Obituaries'
    BY <1>1, <1>4, <2>1, <2>2 DEF JavaInv, Obituaries, Sending
  <2>7. \A q : q # r => (Unexpected(q)' <=> Unexpected(q))
    BY <1>1, <2>1, <2>2 DEF Unexpected
  <2>8. \A q : q = r => Unexpected(q)'
    <3>1. \A u \in Thread : taken[u] = {} /\ pc[u].at # "calling"
      BY <1>4 DEF JavaInv, Obituaries
    <3> QED BY <1>1, <2>1, <2>2, <3>1 DEF Unexpected
  <2>9. \A u \in Thread : pc[u].at \in {"added", "failed", "removed"} => pc[u].r # r
    BY <1>2, <1>4 DEF JavaInv, Exclusive, Unexpected
  <2>10. Exclusive'
    <3>1. ASSUME NEW u \in Thread, NEW q \in JDR,
                 pc'[u].at \in {"added", "failed", "removed"}, pc'[u].r = q
          PROVE  Unexpected(q)'
      <4>1. CASE q = r
        BY <2>8, <4>1
      <4>2. CASE q # r
        <5>1. u # th /\ pc[u].at \in {"added", "failed", "removed"} /\ pc[u].r = q
          BY <2>2, <3>1, <4>2
        <5>2. Unexpected(q)
          BY <5>1 DEF JavaInv, Exclusive
        <5> QED BY <2>7, <4>2, <5>2
      <4> QED BY <4>1, <4>2
    <3>2. ASSUME NEW t \in Thread, NEW u \in Thread,
                 pc'[t].at = "added", pc'[u].at \in {"added", "failed", "removed"}, t # u
          PROVE  pc'[t].r # pc'[u].r
      <4>1. pc'[t] = pc[t] /\ t # th
        BY <2>2, <3>2
      <4>2. CASE u = th
        BY <2>2, <2>9, <3>2, <4>1, <4>2
      <4>3. CASE u # th
        <5>1. pc'[u] = pc[u]
          BY <2>2, <4>3
        <5> QED BY <3>2, <4>1, <5>1 DEF JavaInv, Exclusive
      <4> QED BY <4>2, <4>3
    <3> QED BY <3>1, <3>2 DEF Exclusive
  <2>11. ASSUME NEW q \in JDR, link'[q] = "linked"
         PROVE  /\ ~Unexpected(q)'
                /\ \/ \E k \in JavaProxy : q \in ToSet(mList'[k])
                   \/ \E u \in Thread : pc'[u].at = "calling" /\ pc'[u].r = q
    <3>1. link[q] = "linked" /\ q # r
      BY <2>3, <2>11
    <3>2. ~Unexpected(q)
      BY <3>1 DEF JavaInv, Agree
    <3>3. CASE \E k \in JavaProxy : q \in ToSet(mList[k])
      BY <1>1, <2>7, <3>1, <3>2, <3>3
    <3>4. CASE \E u \in Thread : pc[u].at = "calling" /\ pc[u].r = q
      BY <1>1, <2>2, <2>7, <3>1, <3>2, <3>4
    <3> QED BY <3>1, <3>3, <3>4 DEF JavaInv, Agree
  <2>12. ASSUME NEW k \in JavaProxy, NEW q \in ToSet(mList'[k]), link'[q] \notin {"linked", "told"}
         PROVE  \E u \in Thread : pc'[u].at \in {"added", "failed", "removed"} /\ pc'[u].r = q
    <3>1. CASE q = r
      BY <2>2, <3>1
    <3>2. CASE q # r
      <4>1. q \in ToSet(mList[k]) /\ q \in JDR
        BY <1>1, <2>12 DEF JavaInv, TypeOK, ToSet
      <4>2. link[q] \notin {"linked", "told"}
        BY <2>3, <2>12, <3>2, <4>1
      <4>3. PICK u \in Thread : pc[u].at \in {"added", "failed", "removed"} /\ pc[u].r = q
        BY <4>1, <4>2 DEF JavaInv, Agree
      <4> QED BY <2>2, <3>2, <4>3 DEF r
    <3> QED BY <3>1, <3>2
  <2>13. Agree'
    BY <2>11, <2>12 DEF Agree
  <2> QED BY <2>4, <2>5, <2>6, <2>10, <2>13 DEF JavaInv
<1> QED BY <1>3, <1>4

LEMMA ReadDeadKeeps ==
    ASSUME JavaInv, NEW th \in Thread, ReadDead(th)
    PROVE  JavaInv'
<1>1. /\ ~mObitsSent /\ pc[th] = Idle /\ Goto(th, "dead")
      /\ \A u \in Thread : pc[u].at # "dead"
      /\ UNCHANGED <<bpVars, proxy, listVars, taken, misused>>
  BY DEF ReadDead
<1>2. /\ pc' \in [Thread -> PcRec]
      /\ \A u \in Thread : u # th => pc'[u] = pc[u]
      /\ pc'[th].at = "dead" /\ pc'[th].j = pc[th].j /\ pc'[th].r = pc[th].r
  BY <1>1, GotoPc DEF JavaInv
<1>3. pc[th].at = "idle" /\ pc[th].j = NULL /\ pc[th].r = NULL
  BY <1>1 DEF Idle
<1>4. Holds(th)'
  BY <1>2, <1>3 DEF Holds, InList, WithRecipient
<1>5. \A u \in Thread : pc[u].at \notin Sending
  BY <1>1 DEF JavaInv, Obituaries, Sending
<1>6. Obituaries'
  BY <1>1, <1>2, <1>3, <1>5 DEF JavaInv, Obituaries, Sending, bpVars
<1>7. misused' = FALSE
  BY <1>1 DEF JavaInv, TypeOK, RefsValid
<1> QED BY <1>1, <1>2, <1>3, <1>4, <1>6, <1>7, ThreadMoves

LEMMA ObituarySentKeeps ==
    ASSUME JavaInv, NEW th \in Thread, ObituarySent(th)
    PROVE  JavaInv'
<1>1. /\ pc[th].at = "obits" /\ taken[th] = {} /\ Return(th)
      /\ UNCHANGED <<bpVars, proxy, listVars, taken, misused>>
  BY DEF ObituarySent
<1>2. /\ pc' \in [Thread -> PcRec]
      /\ \A u \in Thread : u # th => pc'[u] = pc[u]
      /\ pc'[th].at = "idle" /\ pc'[th].j = NULL /\ pc'[th].r = NULL
  BY <1>1, ReturnPc DEF JavaInv
<1>3. Holds(th)'
  BY <1>2 DEF Holds, InList, WithRecipient
<1>4. Obituaries'
  BY <1>1, <1>2 DEF JavaInv, Obituaries, Sending, bpVars
<1>5. misused' = FALSE
  BY <1>1 DEF JavaInv, TypeOK, RefsValid
<1> QED BY <1>1, <1>2, <1>3, <1>4, <1>5, ThreadMoves

LEMMA TakeObituariesKeeps ==
    ASSUME JavaInv, NEW th \in Thread, TakeObituaries(th)
    PROVE  JavaInv'
<1>1. /\ pc[th].at = "dead"
      /\ taken' = [taken EXCEPT ![th] = mObituaries]
      /\ mObituaries' = {} /\ mObitsSent' = TRUE /\ Goto(th, "obits")
      /\ UNCHANGED <<died, native, attached, proxy, mList, listOf, mObject, link, misused>>
  BY DEF TakeObituaries, listVars
<1>2. /\ pc' \in [Thread -> PcRec]
      /\ \A u \in Thread : u # th => pc'[u] = pc[u]
      /\ pc'[th].at = "obits" /\ pc'[th].j = pc[th].j /\ pc'[th].r = pc[th].r
  BY <1>1, GotoPc DEF JavaInv
<1>3. /\ taken' \in [Thread -> SUBSET JDR]
      /\ taken'[th] = mObituaries /\ \A u \in Thread : u # th => taken'[u] = taken[u]
  BY <1>1 DEF JavaInv, TypeOK
<1>4. \A u \in Thread : u # th => pc[u].at \notin Sending
  BY <1>1 DEF JavaInv, Obituaries, Sending
<1>5. \A u \in Thread : taken[u] = {} /\ pc[u].at # "calling"
  BY <1>1, <1>4 DEF JavaInv, Obituaries, Sending
<1>6. TypeOK' /\ OneBinderProxy' /\ RefsValid' /\ Listed'
  BY <1>1, <1>2, <1>3 DEF JavaInv, TypeOK, OneBinderProxy, RefsValid, Listed, Holders
<1>7. ASSUME NEW u \in Thread PROVE Holds(u)'
  <2>1. Holds(u) /\ Holds(th)
    BY DEF JavaInv
  <2>2. CASE u # th
    <3>1. pc'[u] = pc[u]
      BY <1>2, <2>2
    <3> QED BY <1>1, <2>1, <3>1 DEF Holds
  <2>3. CASE u = th
    BY <1>1, <1>2, <2>1, <2>3 DEF Holds, InList, WithRecipient
  <2> QED BY <2>2, <2>3
<1>8. Obituaries'
  BY <1>1, <1>2, <1>3, <1>4, <1>5 DEF Obituaries, Sending
<1>9. \A q : Unexpected(q)' <=> Unexpected(q)
  BY <1>1, <1>2, <1>3, <1>5 DEF Unexpected
<1>10. Exclusive'
  <2>1. \A u \in Thread : pc'[u].at \in {"added", "failed", "removed"} => pc'[u] = pc[u]
    BY <1>2
  <2> QED BY <1>9, <2>1 DEF JavaInv, Exclusive
<1>11. Agree'
  <2>1. ASSUME NEW q \in JDR, link'[q] = "linked"
        PROVE  ~Unexpected(q)' /\ \E k \in JavaProxy : q \in ToSet(mList'[k])
    <3>1. ~Unexpected(q) /\ \E k \in JavaProxy : q \in ToSet(mList[k])
      BY <1>1, <1>5, <2>1 DEF JavaInv, Agree
    <3> QED BY <1>1, <1>9, <3>1
  <2>2. ASSUME NEW k \in JavaProxy, NEW q \in ToSet(mList'[k]), link'[q] \notin {"linked", "told"}
        PROVE  \E u \in Thread : pc'[u].at \in {"added", "failed", "removed"} /\ pc'[u].r = q
    <3>1. PICK u \in Thread : pc[u].at \in {"added", "failed", "removed"} /\ pc[u].r = q
      BY <1>1, <2>2 DEF JavaInv, Agree
    <3> QED BY <1>1, <1>2, <3>1
  <2> QED BY <2>1, <2>2 DEF Agree
<1> QED BY <1>6, <1>7, <1>8, <1>10, <1>11 DEF JavaInv

LEMMA ReportOneDeathKeeps ==
    ASSUME JavaInv, NEW th \in Thread, NEW r \in JDR, ReportOneDeath(th, r)
    PROVE  JavaInv'
<1>1. /\ pc[th].at = "obits" /\ r \in taken[th]
      /\ taken' = [taken EXCEPT ![th] = @ \ {r}]
      /\ UNCHANGED <<died, native, attached, mObitsSent, mObituaries, proxy, mList, listOf, mObject, link, misused>>
  BY DEF ReportOneDeath, bpVars, listVars
<1>2. /\ taken' \in [Thread -> SUBSET JDR]
      /\ taken'[th] = taken[th] \ {r} /\ \A u \in Thread : u # th => taken'[u] = taken[u]
  BY <1>1 DEF JavaInv, TypeOK
<1>3. /\ pc' \in [Thread -> PcRec]
      /\ \A u \in Thread : u # th => pc'[u] = pc[u]
      /\ pc'[th].j = pc[th].j
      /\ IF Alive(r) THEN pc'[th].at = "calling" /\ pc'[th].r = r ELSE pc'[th] = pc[th]
  <2>1. pc \in [Thread -> PcRec]
    BY DEF JavaInv, TypeOK
  <2>2. CASE Alive(r)
    <3>1. pc' = [pc EXCEPT ![th].at = "calling", ![th].r = r]
      BY <2>2 DEF ReportOneDeath
    <3> QED BY <2>1, <2>2, <3>1 DEF PcRec
  <2>3. CASE ~Alive(r)
    BY <2>1, <2>3 DEF ReportOneDeath
  <2> QED BY <2>2, <2>3
<1>4. /\ mObitsSent /\ mObituaries = {}
      /\ \A u \in Thread : u # th => pc[u].at \notin Sending /\ taken[u] = {}
  BY <1>1 DEF JavaInv, Obituaries, Sending
<1>5. link[r] = "linked" => Alive(r)
  BY DEF JavaInv, Agree, Alive
<1>6. TypeOK' /\ OneBinderProxy' /\ RefsValid' /\ Listed'
  BY <1>1, <1>2, <1>3 DEF JavaInv, TypeOK, OneBinderProxy, RefsValid, Listed, Holders
<1>7. ASSUME NEW u \in Thread PROVE Holds(u)'
  <2>1. Holds(u) /\ Holds(th)
    BY DEF JavaInv
  <2>2. CASE pc'[u] = pc[u]
    BY <1>1, <2>1, <2>2 DEF Holds
  <2>3. CASE u = th /\ Alive(r)
    BY <1>1, <1>3, <2>1, <2>3 DEF Holds, InList, WithRecipient
  <2> QED BY <1>3, <2>2, <2>3
<1>8. Obituaries'
  BY <1>1, <1>2, <1>3, <1>4 DEF JavaInv, Obituaries, Sending
<1>9. \A q : q # r \/ Alive(r) => (Unexpected(q)' <=> Unexpected(q))
  BY <1>1, <1>2, <1>3 DEF Unexpected
<1>10. \A q : Unexpected(q) => Unexpected(q)'
  BY <1>1, <1>9 DEF Unexpected
<1>11. Exclusive'
  <2>1. \A u \in Thread : pc'[u].at \in {"added", "failed", "removed"} => pc'[u] = pc[u]
    BY <1>3
  <2> QED BY <1>10, <2>1 DEF JavaInv, Exclusive
<1>12. Agree'
  <2>1. ASSUME NEW q \in JDR, link'[q] = "linked"
        PROVE  /\ ~Unexpected(q)'
               /\ \/ \E k \in JavaProxy : q \in ToSet(mList'[k])
                  \/ \E u \in Thread : pc'[u].at = "calling" /\ pc'[u].r = q
    <3>1. link[q] = "linked"
      BY <1>1, <2>1
    <3>2. ~Unexpected(q) /\ (q # r \/ Alive(r))
      BY <1>5, <3>1 DEF JavaInv, Agree
    <3>3. CASE \E k \in JavaProxy : q \in ToSet(mList[k])
      BY <1>1, <1>9, <3>2, <3>3
    <3>4. CASE \E u \in Thread : pc[u].at = "calling" /\ pc[u].r = q
      BY <1>1, <1>4, <3>4 DEF Sending
    <3> QED BY <3>1, <3>3, <3>4 DEF JavaInv, Agree
  <2>2. ASSUME NEW k \in JavaProxy, NEW q \in ToSet(mList'[k]), link'[q] \notin {"linked", "told"}
        PROVE  \E u \in Thread : pc'[u].at \in {"added", "failed", "removed"} /\ pc'[u].r = q
    <3>1. PICK u \in Thread : pc[u].at \in {"added", "failed", "removed"} /\ pc[u].r = q
      BY <1>1, <2>2 DEF JavaInv, Agree
    <3> QED BY <1>1, <1>3, <3>1
  <2> QED BY <2>1, <2>2 DEF Agree
<1> QED BY <1>6, <1>7, <1>8, <1>11, <1>12 DEF JavaInv

LEMMA BinderDiedKeeps ==
    ASSUME JavaInv, NEW th \in Thread, BinderDied(th)
    PROVE  JavaInv'
<1> DEFINE r == pc[th].r
<1>1. /\ pc[th].at = "calling"
      /\ link' = [link EXCEPT ![r] = "told"] /\ Goto(th, "called")
      /\ UNCHANGED <<died, native, attached, mObitsSent, mObituaries, proxy, mList, listOf, mObject, taken, misused>>
  BY DEF BinderDied, bpVars
<1>2. /\ pc' \in [Thread -> PcRec]
      /\ \A u \in Thread : u # th => pc'[u] = pc[u]
      /\ pc'[th].at = "called" /\ pc'[th].j = pc[th].j /\ pc'[th].r = r
  BY <1>1, GotoPc DEF JavaInv
<1>3. r \in JDR /\ pc[th].j = NULL
  BY <1>1 DEF JavaInv, Holds, InList, WithRecipient
<1>4. link' \in [JDR -> Links] /\ link'[r] = "told" /\ \A q \in JDR : q # r => link'[q] = link[q]
  BY <1>1, <1>3 DEF JavaInv, TypeOK, Links
<1>5. \A u \in Thread : pc'[u].r = pc[u].r
  BY <1>2
<1> HIDE DEF r
<1>6. TypeOK' /\ OneBinderProxy' /\ RefsValid' /\ Listed'
  BY <1>1, <1>2, <1>4 DEF JavaInv, TypeOK, OneBinderProxy, RefsValid, Listed, Holders
<1>7. ASSUME NEW u \in Thread PROVE Holds(u)'
  <2>1. CASE u # th
    <3>1. Holds(u) /\ pc'[u] = pc[u]
      BY <1>2, <2>1 DEF JavaInv
    <3> QED BY <1>1, <3>1 DEF Holds
  <2>2. CASE u = th
    BY <1>2, <1>3, <2>2 DEF Holds, InList, WithRecipient
  <2> QED BY <2>1, <2>2
<1>8. Obituaries'
  <2>1. \A u \in Thread : /\ pc'[u].at \in Sending <=> pc[u].at \in Sending
                          /\ pc'[u].at \in {"calling", "called"} <=> pc[u].at \in {"calling", "called"}
                          /\ pc'[u].at \in {"obits", "calling", "called"} <=> pc[u].at \in {"obits", "calling", "called"}
    BY <1>1, <1>2 DEF Sending
  <2> QED BY <1>1, <1>5, <2>1 DEF JavaInv, Obituaries
<1>9. \A q : q # r => (Unexpected(q)' <=> Unexpected(q))
  BY <1>1, <1>2 DEF Unexpected, r
<1>10. \A q : Unexpected(q) => Unexpected(q)'
  BY <1>1, <1>9 DEF Unexpected, r
<1>11. Exclusive'
  <2>1. \A u \in Thread : pc'[u].at \in {"added", "failed", "removed"} => pc'[u] = pc[u]
    BY <1>2
  <2> QED BY <1>10, <2>1 DEF JavaInv, Exclusive
<1>12. Agree'
  <2>1. ASSUME NEW q \in JDR, link'[q] = "linked"
        PROVE  /\ ~Unexpected(q)'
               /\ \/ \E k \in JavaProxy : q \in ToSet(mList'[k])
                  \/ \E u \in Thread : pc'[u].at = "calling" /\ pc'[u].r = q
    <3>1. q # r /\ link[q] = "linked"
      BY <1>4, <2>1
    <3>2. ~Unexpected(q)
      BY <3>1 DEF JavaInv, Agree
    <3>3. CASE \E k \in JavaProxy : q \in ToSet(mList[k])
      BY <1>1, <1>9, <3>1, <3>2, <3>3
    <3>4. CASE \E u \in Thread : pc[u].at = "calling" /\ pc[u].r = q
      BY <1>2, <1>9, <3>1, <3>2, <3>4 DEF r
    <3> QED BY <3>1, <3>3, <3>4 DEF JavaInv, Agree
  <2>2. ASSUME NEW k \in JavaProxy, NEW q \in ToSet(mList'[k]), link'[q] \notin {"linked", "told"}
        PROVE  \E u \in Thread : pc'[u].at \in {"added", "failed", "removed"} /\ pc'[u].r = q
    <3>1. q \in ToSet(mList[k]) /\ q \in JDR
      BY <1>1, <2>2 DEF JavaInv, TypeOK, ToSet
    <3>2. link[q] \notin {"linked", "told"}
      BY <1>4, <2>2, <3>1
    <3>3. PICK u \in Thread : pc[u].at \in {"added", "failed", "removed"} /\ pc[u].r = q
      BY <3>1, <3>2 DEF JavaInv, Agree
    <3> QED BY <1>1, <1>2, <3>3
  <2> QED BY <2>1, <2>2 DEF Agree
<1> QED BY <1>6, <1>7, <1>8, <1>11, <1>12 DEF JavaInv

LEMMA DemoteKeeps ==
    ASSUME JavaInv, NEW th \in Thread, Demote(th)
    PROVE  JavaInv'
<1> DEFINE r == pc[th].r
           c == [Idle EXCEPT !.at = "obits"]
<1>1. /\ pc[th].at = "called" /\ ~Locked(listOf[r])
      /\ mObject' = [mObject EXCEPT ![r] = IF listOf[r] # NULL THEN NULL ELSE @]
      /\ pc' = [pc EXCEPT ![th] = c]
      /\ UNCHANGED <<died, native, attached, mObitsSent, mObituaries, proxy, mList, listOf, link, taken, misused>>
  BY DEF Demote, bpVars
<1>2. c \in PcRec /\ c.at = "obits" /\ c.j = NULL /\ c.r = NULL
  BY DEF Idle, PcRec
<1> HIDE DEF c
<1>3. /\ pc' \in [Thread -> PcRec]
      /\ \A u \in Thread : u # th => pc'[u] = pc[u]
      /\ pc'[th].at = "obits" /\ pc'[th].j = NULL /\ pc'[th].r = NULL
  BY <1>1, <1>2 DEF JavaInv, TypeOK
<1>4. r \in JDR
  BY <1>1 DEF JavaInv, Holds, InList, WithRecipient
<1>5. /\ mObject' \in [JDR -> {"strong", NULL}]
      /\ \A q \in JDR : q # r => mObject'[q] = mObject[q]
  BY <1>1, <1>4 DEF JavaInv, TypeOK
<1> HIDE DEF r
<1>6. TypeOK' /\ OneBinderProxy' /\ RefsValid' /\ Listed'
  BY <1>1, <1>3, <1>5 DEF JavaInv, TypeOK, OneBinderProxy, RefsValid, Listed, Holders
<1>7. ASSUME NEW u \in Thread PROVE Holds(u)'
  <2>1. CASE u # th
    <3>1. Holds(u) /\ pc'[u] = pc[u]
      BY <1>3, <2>1 DEF JavaInv
    <3>2. pc[u].at = "use" => pc[u].r # r /\ pc[u].r \in JDR
      BY <1>1, <3>1 DEF Holds, WithRecipient, Locked
    <3>3. pc[u].at = "use" => mObject'[pc[u].r] = mObject[pc[u].r]
      BY <1>5, <3>2
    <3> QED BY <1>1, <3>1, <3>3 DEF Holds
  <2>2. CASE u = th
    BY <1>3, <2>2 DEF Holds, InList, WithRecipient
  <2> QED BY <2>1, <2>2
<1>8. Obituaries'
  BY <1>1, <1>3 DEF JavaInv, Obituaries, Sending
<1>9. \A q : Unexpected(q)' <=> Unexpected(q)
  BY <1>1, <1>3 DEF Unexpected
<1>10. Exclusive'
  <2>1. \A u \in Thread : pc'[u].at \in {"added", "failed", "removed"} => pc'[u] = pc[u]
    BY <1>3
  <2> QED BY <1>9, <2>1 DEF JavaInv, Exclusive
<1>11. Agree'
  <2>1. ASSUME NEW q \in JDR, link'[q] = "linked"
        PROVE  /\ ~Unexpected(q)'
               /\ \/ \E k \in JavaProxy : q \in ToSet(mList'[k])
                  \/ \E u \in Thread : pc'[u].at = "calling" /\ pc'[u].r = q
    <3>1. ~Unexpected(q) /\ link[q] = "linked"
      BY <1>1, <2>1 DEF JavaInv, Agree
    <3>2. CASE \E k \in JavaProxy : q \in ToSet(mList[k])
      BY <1>1, <1>9, <3>1, <3>2
    <3>3. CASE \E u \in Thread : pc[u].at = "calling" /\ pc[u].r = q
      BY <1>1, <1>3, <1>9, <3>1, <3>3
    <3> QED BY <3>1, <3>2, <3>3 DEF JavaInv, Agree
  <2>2. ASSUME NEW k \in JavaProxy, NEW q \in ToSet(mList'[k]), link'[q] \notin {"linked", "told"}
        PROVE  \E u \in Thread : pc'[u].at \in {"added", "failed", "removed"} /\ pc'[u].r = q
    <3>1. PICK u \in Thread : pc[u].at \in {"added", "failed", "removed"} /\ pc[u].r = q
      BY <1>1, <2>2 DEF JavaInv, Agree
    <3> QED BY <1>1, <1>3, <3>1
  <2> QED BY <2>1, <2>2 DEF Agree
<1> QED BY <1>6, <1>7, <1>8, <1>10, <1>11 DEF JavaInv

-----------------------------------------------------------------------------
(* The theorems *)

\* Nothing is linked at first.
LEMMA JavaInitInv == Init => JavaInv
<1> SUFFICES ASSUME Init PROVE JavaInv
  OBVIOUS
<1>1. Idle \in PcRec /\ Idle.at = "idle" /\ Idle.j = NULL /\ Idle.r = NULL
  BY DEF Idle, PcRec
<1>2. TypeOK
  <2>1. pc \in [Thread -> PcRec]
    BY <1>1 DEF Init
  <2>2. mList \in [JavaProxy -> Seq(JDR)] /\ taken \in [Thread -> SUBSET JDR]
    BY DEF Init
  <2>3. {died, native, mObitsSent, misused} \subseteq BOOLEAN
    BY DEF Init
  <2>4. link \in [JDR -> Links]
    BY DEF Init, Links
  <2> QED BY <2>1, <2>2, <2>3, <2>4 DEF Init, TypeOK
<1>3. OneBinderProxy /\ RefsValid
  BY DEF Init, OneBinderProxy, RefsValid
<1>4. \A j \in JavaProxy : mList[j] = <<>> /\ ToSet(mList[j]) = {} /\ Distinct(mList[j])
  BY DEF Init, ToSet, Distinct
<1>5. Listed
  BY <1>4 DEF Listed
<1>6. \A th \in Thread : pc[th].at = "idle" /\ pc[th].j = NULL /\ pc[th].r = NULL /\ taken[th] = {}
  BY <1>1 DEF Init
<1>7. \A th \in Thread : Holds(th)
  BY <1>6 DEF Holds, InList, WithRecipient
<1>8. Obituaries /\ Exclusive
  BY <1>6 DEF Init, Obituaries, Exclusive, Sending
<1>9. Agree
  BY <1>4 DEF Init, Agree
<1> QED BY <1>2, <1>3, <1>5, <1>7, <1>8, <1>9 DEF JavaInv

\* Every step keeps the invariant, one case for each operation.
LEMMA JavaNextInv == JavaInv /\ [Next]_vars => JavaInv'
<1> SUFFICES ASSUME JavaInv, [Next]_vars PROVE JavaInv'
  OBVIOUS
<1>1. CASE UNCHANGED vars
  <2>1. UNCHANGED <<died, native, attached, mObitsSent, mObituaries, proxy, mList, listOf,
                    mObject, pc, taken, link, misused>>
    BY <1>1 DEF vars, bpVars, listVars
  <2>2. TypeOK' /\ OneBinderProxy' /\ RefsValid' /\ Listed'
    BY <2>1 DEF JavaInv, TypeOK, OneBinderProxy, RefsValid, Listed, Holders
  <2>3. \A th \in Thread : Holds(th)'
    BY <2>1 DEF JavaInv, Holds
  <2>4. Obituaries' /\ Exclusive' /\ Agree'
    BY <2>1 DEF JavaInv, Obituaries, Exclusive, Agree, Unexpected
  <2> QED BY <2>2, <2>3, <2>4 DEF JavaInv
<1>2. CASE Die \/ Receive \/ Release
  BY <1>2, BinderKeeps
<1>3. CASE DeleteBpBinder
  BY <1>3, DeleteBpBinderKeeps
<1>4. CASE \E j \in JavaProxy : NewBinderProxy(j) \/ Collect(j) \/ Destroy(j)
  BY <1>4, ProxyKeeps, DestroyKeeps
<1>5. ASSUME NEW th \in Thread, NEW j \in JavaProxy, NEW r \in JDR, LinkAdd(th, j, r)
      PROVE  JavaInv'
  BY <1>5, LinkAddKeeps
<1>6. ASSUME NEW th \in Thread, NEW j \in JavaProxy, NEW o \in Object, FindStart(th, j, o)
      PROVE  JavaInv'
  BY <1>6, FindStartKeeps
<1>7. ASSUME NEW th \in Thread, ReadDead(th)
      PROVE  JavaInv'
  BY <1>7, ReadDeadKeeps
<1>8. ASSUME NEW th \in Thread, Continue(th)
      PROVE  JavaInv'
  BY <1>8, LinkTargetKeeps, ClearReferenceKeeps, MatchReadKeeps, MatchUseKeeps, UnlinkTargetKeeps,
     TakeObituariesKeeps, ReportOneDeathKeeps, BinderDiedKeeps, DemoteKeeps, ObituarySentKeeps
     DEF Continue
<1> QED BY <1>1, <1>2, <1>3, <1>4, <1>5, <1>6, <1>7, <1>8 DEF Next

\* The invariant, of every reachable state.
LEMMA JavaInvariant == Spec => []JavaInv
<1>1. Init => JavaInv
  BY JavaInitInv
<1>2. JavaInv /\ [Next]_vars => JavaInv'
  BY JavaNextInv
<1> QED BY <1>1, <1>2, PTL DEF Spec

\* The variables of the JNI layer keep their types: in particular no list of a
\* BinderProxy gets anything but a JavaDeathRecipient.
THEOREM JavaTypeCorrect == Spec => []TypeOK
<1>1. JavaInv => TypeOK
  BY DEF JavaInv
<1> QED BY <1>1, JavaInvariant, PTL

\* javaObjectForIBinder gives one BinderProxy for a binder: any that a program can still
\* reach is the one attached to the BpBinder.
THEOREM ProxyUnique == Spec => []OneBinderProxy
<1>1. JavaInv => OneBinderProxy
  BY DEF JavaInv
<1> QED BY <1>1, JavaInvariant, PTL

\* DeathRecipientList::find never uses a global reference that binderDied deleted: the
\* lock of the list, which binderDied takes, is the one of the list that has the recipient.
THEOREM ReferencesValid == Spec => []RefsValid
<1>1. JavaInv => RefsValid
  BY DEF JavaInv
<1> QED BY <1>1, JavaInvariant, PTL

\* The list of a proxy and mObituaries of the BpBinder agree on who is linked, with any
\* number of threads in linkToDeath, unlinkToDeath, sendObituary and the finalizer.
THEOREM RecipientsRegistered == Spec => []Registered
<1>1. ASSUME JavaInv PROVE Registered
  <2>1. ASSUME NEW r \in JDR, link[r] = "linked"
        PROVE  /\ r \in Expected
               /\ (\E th \in Thread : pc[th].r = r) \/ r \in ToSet(mList[listOf[r]])
    <3>1. ~Unexpected(r)
      BY <1>1, <2>1 DEF JavaInv, Agree
    <3>2. r \in Expected
      BY <3>1 DEF Unexpected, Expected
    <3>3. CASE \E j \in JavaProxy : r \in ToSet(mList[j])
      BY <1>1, <3>2, <3>3 DEF JavaInv, Listed
    <3>4. CASE \E th \in Thread : pc[th].at = "calling" /\ pc[th].r = r
      BY <3>2, <3>4
    <3> QED BY <1>1, <2>1, <3>3, <3>4 DEF JavaInv, Agree
  <2>2. \A j \in JavaProxy, r \in JDR :
           r \in ToSet(mList[j]) /\ link[r] \notin {"linked", "told"} =>
               \E th \in Thread : pc[th].at \in {"added", "failed", "removed"} /\ pc[th].r = r
    BY <1>1 DEF JavaInv, Agree
  <2> QED BY <2>1, <2>2 DEF Registered
<1> QED BY <1>1, JavaInvariant, PTL

=============================================================================
