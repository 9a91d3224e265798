------------------------- MODULE BinderAllocProofs -------------------------
(***************************************************************************)
(* Theorems about BinderAlloc, for any size of the area, of the pages and  *)
(* of the words, and any sizes that programs send.                         *)
(***************************************************************************)
EXTENDS BinderAlloc, FiniteSetTheorems, WellFoundedInduction, TLAPS

-----------------------------------------------------------------------------
(* The inductive invariant *)

\* The buffers bs lie in the area.
Area(bs) ==
    /\ DOMAIN bs \subseteq 0 .. Total - 1
    /\ \A a \in DOMAIN bs : bs[a] \in BufRec

Free(bs) == {a \in DOMAIN bs : bs[a].free}
Used(bs) == {a \in DOMAIN bs : ~bs[a].free}

\* The tree t has the free buffers of bs but those in X, each under its size, and no two
\* of them side by side.
Tree(bs, t, X) ==
    /\ DOMAIN t = Free(bs) \ X
    /\ \A a \in DOMAIN t : t[a] = binder_buffer_size(bs, a) /\ EndOf(bs, a) \notin DOMAIN t

AllocInv ==
    /\ Area(buffers)
    /\ Tree(buffers, free_buffers, {})
    /\ vma = "none" => buffers = Empty

\* The buffers in use of bs are those of cs as well, but for the ones in X.
Keeps(bs, cs, X) ==
    /\ Used(bs) \ X \subseteq Used(cs)
    /\ \A c \in Used(bs) \ X : cs[c] = bs[c] /\ EndOf(cs, c) = EndOf(bs, c)

-----------------------------------------------------------------------------
(* Neighbours *)

LEMMA Sizes == {PageSize, Header, Word, Total, SizeT} \subseteq Nat \ {0}
BY AreaAssumption

LEMMA MinIn ==
    ASSUME NEW S, S \subseteq Nat, S # {}
    PROVE  Min(S) \in S /\ \A y \in S : Min(S) <= y
<1>1. \E x \in S : \A y \in S : ~(<<y, x>> \in OpToRel(<, Nat))
  BY NatLessThanWellFounded, WFMin
<1>2. PICK x \in S : \A y \in S : ~(<<y, x>> \in OpToRel(<, Nat))
  BY <1>1
<1>3. \A y \in S : ~(y < x)
  BY <1>2 DEF OpToRel
<1>4. \A y \in S : x <= y
  BY <1>3
<1> QED BY <1>4 DEF Min

\* A set below a has a greatest element: the one with the least distance to a.
LEMMA MaxIn ==
    ASSUME NEW a \in Nat, NEW S, S \subseteq Nat, S # {}, \A y \in S : y < a
    PROVE  Max(S) \in S /\ \A y \in S : Max(S) >= y
<1> DEFINE D == {a - y : y \in S}
<1>1. D \subseteq Nat /\ D # {}
  <2>1. ASSUME NEW y \in S PROVE a - y \in Nat
    <3>1. y \in Nat /\ y < a
      OBVIOUS
    <3> QED BY <3>1
  <2> QED BY <2>1
<1>2. Min(D) \in D /\ \A z \in D : Min(D) <= z
  <2> HIDE DEF D
  <2> QED BY <1>1, MinIn
<1>3. PICK x \in S : Min(D) = a - x
  BY <1>2
<1>4. ASSUME NEW y \in S
      PROVE  x >= y
  <2>1. a - x <= a - y
    BY <1>2, <1>3
  <2>2. x \in Nat /\ y \in Nat
    OBVIOUS
  <2> HIDE DEF D
  <2> QED BY <2>1, <2>2
<1>5. \E m \in S : \A y \in S : m >= y
  BY <1>4
<1> HIDE DEF D
<1> QED BY <1>5 DEF Max

LEMMA EndFacts ==
    ASSUME NEW bs, Area(bs), NEW a \in DOMAIN bs
    PROVE  /\ a \in Nat /\ EndOf(bs, a) \in Nat /\ a < EndOf(bs, a) /\ EndOf(bs, a) <= Total
           /\ EndOf(bs, a) # Total => EndOf(bs, a) \in DOMAIN bs
           /\ \A c \in DOMAIN bs : c \in Nat /\ c < Total /\ (c > a => EndOf(bs, a) <= c)
<1>1. Total \in Nat /\ \A c \in DOMAIN bs : c \in Nat /\ c < Total
  BY Sizes DEF Area
<1>2. CASE After(bs, a) = {}
  <2>1. EndOf(bs, a) = Total
    BY <1>2 DEF EndOf
  <2> QED BY <1>1, <1>2, <2>1 DEF After
<1>3. CASE After(bs, a) # {}
  <2>1. PICK S : S = After(bs, a)
    OBVIOUS
  <2>2. S \subseteq Nat /\ S # {}
    BY <1>1, <1>3, <2>1 DEF After
  <2>3. PICK m \in S : m = Min(S) /\ \A c \in S : m <= c
    BY <2>2, MinIn
  <2>4. EndOf(bs, a) = m
    BY <1>3, <2>1, <2>3 DEF EndOf
  <2> QED BY <1>1, <2>1, <2>3, <2>4 DEF After
<1> QED BY <1>2, <1>3

LEMMA EndIs ==
    ASSUME NEW bs, Area(bs), NEW a \in DOMAIN bs, NEW n,
           \/ n = Total
           \/ n \in DOMAIN bs /\ a < n,
           \A c \in DOMAIN bs : c > a => n <= c
    PROVE  EndOf(bs, a) = n
<1>1. PICK e \in Nat : e = EndOf(bs, a)
  BY EndFacts
<1>2. /\ a \in Nat /\ a < e /\ e <= Total /\ (e # Total => e \in DOMAIN bs)
      /\ \A c \in DOMAIN bs : c \in Nat /\ c < Total /\ (c > a => e <= c)
  BY <1>1, EndFacts
<1>3. Total \in Nat
  BY Sizes
<1>4. n \in Nat
  BY <1>2, <1>3
<1>5. n <= e
  <2>1. CASE e = Total
    BY <1>2, <1>3, <1>4, <2>1
  <2>2. CASE e # Total
    <3>1. e \in DOMAIN bs /\ e > a
      BY <1>2, <2>2
    <3> QED BY <3>1
  <2> QED BY <2>1, <2>2
<1>6. e <= n
  <2>1. CASE n = Total
    BY <1>2, <2>1
  <2>2. CASE n \in DOMAIN bs /\ a < n
    BY <1>2, <1>4, <2>2
  <2> QED BY <2>1, <2>2
<1> QED BY <1>1, <1>4, <1>5, <1>6

\* Two buffers do not end at the same one.
LEMMA OneBefore ==
    ASSUME NEW bs, Area(bs), NEW a \in DOMAIN bs, NEW c \in DOMAIN bs, EndOf(bs, a) = EndOf(bs, c)
    PROVE  a = c
<1>1. /\ a \in Nat /\ c \in Nat /\ EndOf(bs, a) \in Nat /\ a < EndOf(bs, a) /\ c < EndOf(bs, a)
      /\ c > a => EndOf(bs, a) <= c
      /\ a > c => EndOf(bs, a) <= a
  BY EndFacts
<1> QED BY <1>1

LEMMA EndAdded ==
    ASSUME NEW bs, Area(bs), NEW cs, Area(cs), NEW r, DOMAIN cs = DOMAIN bs \cup {r},
           NEW a \in DOMAIN bs, a < r, r < EndOf(bs, a)
    PROVE  /\ r \notin DOMAIN bs
           /\ EndOf(cs, a) = r /\ EndOf(cs, r) = EndOf(bs, a)
           /\ \A c \in DOMAIN bs : c # a => EndOf(cs, c) = EndOf(bs, c)
<1>1. r \in Nat /\ r < Total /\ r \in DOMAIN cs /\ a \in DOMAIN cs
  BY Sizes DEF Area
<1>2. PICK n \in Nat : n = EndOf(bs, a)
  BY EndFacts
<1>3. /\ a \in Nat /\ r < n /\ n <= Total /\ (n # Total => n \in DOMAIN bs)
      /\ \A c \in DOMAIN bs : c \in Nat /\ c < Total /\ (c > a => n <= c)
  BY <1>2, EndFacts
<1>4. r \notin DOMAIN bs
  BY <1>1, <1>3
<1>5. EndOf(cs, a) = r
  <2>1. \A c \in DOMAIN cs : c > a => r <= c
    BY <1>1, <1>3
  <2> QED BY <1>1, <2>1, EndIs
<1>6. EndOf(cs, r) = n
  <2>1. \A c \in DOMAIN cs : c > r => n <= c
    BY <1>1, <1>3
  <2>2. n = Total \/ (n \in DOMAIN cs /\ r < n)
    BY <1>3
  <2> QED BY <1>1, <2>1, <2>2, EndIs
<1>7. ASSUME NEW c \in DOMAIN bs, c # a
      PROVE  EndOf(cs, c) = EndOf(bs, c)
  <2>1. PICK m \in Nat : m = EndOf(bs, c)
    BY EndFacts
  <2>2. /\ c \in Nat /\ c < m /\ m <= Total /\ (m # Total => m \in DOMAIN bs)
        /\ \A e \in DOMAIN bs : e > c => m <= e
    BY <2>1, EndFacts
  <2>3. r > c => m <= r
    <3>1. CASE c < a
      BY <1>1, <1>3, <2>2, <3>1
    <3>2. CASE a < c
      BY <1>1, <1>3, <2>2, <3>2
    <3> QED BY <1>3, <1>7, <2>2, <3>1, <3>2
  <2>4. \A e \in DOMAIN cs : e > c => m <= e
    BY <2>2, <2>3
  <2>5. c \in DOMAIN cs /\ (m = Total \/ (m \in DOMAIN cs /\ c < m))
    BY <2>2
  <2> QED BY <2>1, <2>4, <2>5, EndIs
<1> QED BY <1>2, <1>4, <1>5, <1>6, <1>7

LEMMA EndRemoved ==
    ASSUME NEW bs, Area(bs), NEW cs, Area(cs), NEW r \in DOMAIN bs, DOMAIN cs = DOMAIN bs \ {r},
           NEW c \in DOMAIN cs
    PROVE  EndOf(cs, c) = IF EndOf(bs, c) = r THEN EndOf(bs, r) ELSE EndOf(bs, c)
<1>1. PICK m \in Nat, n \in Nat : m = EndOf(bs, c) /\ n = EndOf(bs, r)
  BY EndFacts
<1>2. /\ c \in Nat /\ c < m /\ m <= Total /\ (m # Total => m \in DOMAIN bs)
      /\ \A e \in DOMAIN bs : e \in Nat /\ e < Total /\ (e > c => m <= e)
  BY <1>1, EndFacts
<1>3. /\ r \in Nat /\ r < n /\ n <= Total /\ (n # Total => n \in DOMAIN bs)
      /\ \A e \in DOMAIN bs : e > r => n <= e
  BY <1>1, EndFacts
<1>4. CASE m = r
  <2>1. \A e \in DOMAIN cs : e > c => n <= e
    BY <1>2, <1>3, <1>4
  <2>2. n = Total \/ (n \in DOMAIN cs /\ c < n)
    BY <1>2, <1>3, <1>4
  <2>3. EndOf(cs, c) = n
    BY <2>1, <2>2, EndIs
  <2> QED BY <1>1, <1>4, <2>3
<1>5. CASE m # r
  <2>1. \A e \in DOMAIN cs : e > c => m <= e
    BY <1>2
  <2>2. m = Total \/ (m \in DOMAIN cs /\ c < m)
    BY <1>2, <1>5
  <2>3. EndOf(cs, c) = m
    BY <2>1, <2>2, EndIs
  <2> QED BY <1>1, <1>5, <2>3
<1> QED BY <1>4, <1>5

\* The ends depend on where the buffers are, not on what is in them.
LEMMA EndSame ==
    ASSUME NEW bs, NEW cs, DOMAIN cs = DOMAIN bs, NEW c
    PROVE  EndOf(cs, c) = EndOf(bs, c)
BY DEF EndOf, After

\* The buffer before the one at a.
LEMMA PrevFacts ==
    ASSUME NEW bs, Area(bs), NEW a \in DOMAIN bs, Before(bs, a) # {}
    PROVE  /\ Max(Before(bs, a)) \in DOMAIN bs /\ Max(Before(bs, a)) # a
           /\ EndOf(bs, Max(Before(bs, a))) = a
<1>1. \A c \in DOMAIN bs : c \in Nat /\ c < Total
  BY Sizes DEF Area
<1>2. PICK S : S = Before(bs, a)
  OBVIOUS
<1>3. S \subseteq Nat /\ S # {} /\ \A y \in S : y < a
  BY <1>1, <1>2 DEF Before
<1>4. a \in Nat
  BY <1>1
<1>5. PICK p \in S : p = Max(S) /\ \A y \in S : p >= y
  BY <1>3, <1>4, MaxIn
<1>6. p \in DOMAIN bs /\ p < a
  BY <1>2 DEF Before
<1>7. ASSUME NEW c \in DOMAIN bs, c > p
      PROVE  a <= c
  <2>1. CASE c < a
    <3>1. c \in S
      BY <1>2, <2>1 DEF Before
    <3> QED BY <1>1, <1>5, <1>6, <1>7, <3>1
  <2> QED BY <1>1, <1>4, <2>1
<1>8. EndOf(bs, p) = a
  BY <1>6, <1>7, EndIs
<1> QED BY <1>1, <1>2, <1>4, <1>5, <1>6, <1>8

LEMMA NoPrev ==
    ASSUME NEW bs, Area(bs), NEW a \in DOMAIN bs, Before(bs, a) = {}, NEW c \in DOMAIN bs
    PROVE  EndOf(bs, c) # a
<1>1. c \in Nat /\ a \in Nat /\ c < EndOf(bs, c)
  BY EndFacts
<1>2. ~(c < a)
  BY DEF Before
<1> QED BY <1>1, <1>2
-----------------------------------------------------------------------------
(* The buffers and the tree *)

LEMMA RemovedIs ==
    ASSUME NEW f, NEW a
    PROVE  /\ DOMAIN Removed(f, a) = DOMAIN f \ {a}
           /\ \A c \in DOMAIN f : c # a => Removed(f, a)[c] = f[c]
BY DEF Removed

LEMMA FreeBufIs == FreeBuf \in BufRec /\ FreeBuf.free
<1>1. 0 \in 0 .. SizeT - 1
  BY Sizes
<1> QED BY <1>1 DEF FreeBuf, BufRec

LEMMA NeededNat ==
    ASSUME NEW d \in 0 .. SizeT - 1, NEW o \in 0 .. SizeT - 1
    PROVE  Needed(d, o) \in Nat
<1>1. SizeT \in Nat \ {0} /\ Word \in Nat \ {0}
  BY Sizes
<1>2. \A x \in Int : x % SizeT \in Nat
  BY <1>1
<1>3. ASSUME NEW x \in Nat
      PROVE  ALIGN(x) \in Nat
  <2>1. (x + Word - 1) \div Word \in Int
    BY <1>1
  <2>2. ((x + Word - 1) \div Word) * Word \in Int
    BY <1>1, <2>1
  <2> QED BY <1>2, <2>2 DEF ALIGN
<1>4. d \in Nat /\ o \in Nat
  BY <1>1
<1>5. ALIGN(d) + ALIGN(o) \in Int
  BY <1>3, <1>4
<1> QED BY <1>2, <1>5 DEF Needed

\* The free buffer at a is taken whole.
LEMMA TakeKeeps ==
    ASSUME NEW bs, NEW t, Area(bs), Tree(bs, t, {}), NEW a \in DOMAIN t,
           NEW rec \in BufRec, ~rec.free
    PROVE  /\ Area(Inserted(bs, a, rec))
           /\ Tree(Inserted(bs, a, rec), Removed(t, a), {})
           /\ Keeps(bs, Inserted(bs, a, rec), {})
           /\ a \in DOMAIN bs /\ Used(Inserted(bs, a, rec)) = Used(bs) \cup {a}
<1>1. PICK cs, u : cs = Inserted(bs, a, rec) /\ u = Removed(t, a)
  OBVIOUS
<1>2. a \in DOMAIN bs /\ bs[a].free /\ a \in Free(bs)
  BY DEF Tree, Free
<1>3. DOMAIN cs = DOMAIN bs /\ cs[a] = rec /\ \A c \in DOMAIN bs : c # a => cs[c] = bs[c]
  BY <1>1, <1>2 DEF Inserted
<1>4. DOMAIN u = DOMAIN t \ {a} /\ \A c \in DOMAIN u : u[c] = t[c]
  BY <1>1, RemovedIs
<1>5. Area(cs)
  BY <1>3 DEF Area
<1>6. \A c : EndOf(cs, c) = EndOf(bs, c)
  BY <1>3, EndSame
<1>7. Free(cs) = Free(bs) \ {a} /\ Used(cs) = Used(bs) \cup {a}
  BY <1>2, <1>3 DEF Free, Used
<1>8. Tree(cs, u, {})
  BY <1>4, <1>6, <1>7 DEF Tree, binder_buffer_size
<1>9. Keeps(bs, cs, {})
  BY <1>2, <1>3, <1>6, <1>7 DEF Keeps, Used
<1> QED BY <1>1, <1>2, <1>5, <1>7, <1>8, <1>9

\* The rest of a buffer that was taken becomes a free one.
LEMMA SplitKeeps ==
    ASSUME NEW bs, NEW t, Area(bs), Tree(bs, t, {}), NEW a \in Used(bs), EndOf(bs, a) \notin DOMAIN t,
           NEW r \in Nat, a < r, r < EndOf(bs, a)
    PROVE  LET cs == Inserted(bs, r, FreeBuf)
           IN /\ Area(cs)
              /\ Tree(cs, Inserted(t, r, binder_buffer_size(cs, r)), {})
              /\ Used(cs) = Used(bs) /\ Keeps(bs, cs, {a}) /\ cs[a] = bs[a]
<1>1. PICK cs : cs = Inserted(bs, r, FreeBuf)
  OBVIOUS
<1>2. PICK u : u = Inserted(t, r, binder_buffer_size(cs, r))
  OBVIOUS
<1>3. DOMAIN cs = DOMAIN bs \cup {r} /\ cs[r] = FreeBuf /\ \A c \in DOMAIN bs : c # r => cs[c] = bs[c]
  BY <1>1 DEF Inserted
<1>4. a \in DOMAIN bs /\ ~bs[a].free
  BY DEF Used
<1>5. r < Total
  <2>1. EndOf(bs, a) \in Nat /\ EndOf(bs, a) <= Total /\ Total \in Nat
    BY <1>4, EndFacts, Sizes
  <2> QED BY <2>1
<1>6. Area(cs)
  BY <1>3, <1>5, FreeBufIs, Sizes DEF Area
<1>7. /\ r \notin DOMAIN bs
      /\ EndOf(cs, a) = r /\ EndOf(cs, r) = EndOf(bs, a)
      /\ \A c \in DOMAIN bs : c # a => EndOf(cs, c) = EndOf(bs, c)
  BY <1>3, <1>4, <1>6, EndAdded
<1>8. /\ Free(cs) = Free(bs) \cup {r} /\ Used(cs) = Used(bs) /\ cs[a] = bs[a]
  BY <1>3, <1>4, <1>7, FreeBufIs DEF Free, Used
<1>9. /\ DOMAIN u = DOMAIN t \cup {r} /\ u[r] = binder_buffer_size(cs, r)
      /\ \A c \in DOMAIN t : c # r => u[c] = t[c]
  BY <1>2 DEF Inserted
<1>10. DOMAIN t = Free(bs) /\ DOMAIN t \subseteq DOMAIN bs /\ a \notin DOMAIN t
  BY <1>4 DEF Tree, Free
<1>11. DOMAIN u = Free(cs)
  BY <1>8, <1>9, <1>10
<1>12. ASSUME NEW c \in DOMAIN u
       PROVE  u[c] = binder_buffer_size(cs, c) /\ EndOf(cs, c) \notin DOMAIN u
  <2>1. CASE c = r
    <3>1. EndOf(bs, a) # r
      BY <1>4, EndFacts
    <3> QED BY <1>7, <1>9, <2>1, <3>1
  <2>2. CASE c # r
    <3>1. c \in DOMAIN t /\ c \in DOMAIN bs /\ c # a
      BY <1>9, <1>10, <2>2
    <3>2. EndOf(cs, c) = EndOf(bs, c) /\ EndOf(bs, c) \notin DOMAIN t /\ u[c] = binder_buffer_size(bs, c)
      BY <1>7, <1>9, <2>2, <3>1 DEF Tree
    <3>3. EndOf(bs, c) # r
      BY <1>5, <1>7, <3>1, EndFacts
    <3> QED BY <1>9, <3>2, <3>3 DEF binder_buffer_size
  <2> QED BY <2>1, <2>2
<1>13. Tree(cs, u, {})
  BY <1>11, <1>12 DEF Tree
<1>14. Keeps(bs, cs, {a})
  BY <1>3, <1>7, <1>8 DEF Keeps, Used
<1> QED BY <1>1, <1>2, <1>6, <1>8, <1>13, <1>14

\* A buffer is marked free.
LEMMA MarkKeeps ==
    ASSUME NEW bs, NEW t, Area(bs), Tree(bs, t, {}), NEW a \in Used(bs)
    PROVE  LET cs == [bs EXCEPT ![a].free = TRUE]
           IN /\ Area(cs) /\ Tree(cs, t, {a}) /\ a \in Free(cs) /\ DOMAIN cs = DOMAIN bs
              /\ Used(cs) = Used(bs) \ {a} /\ Keeps(bs, cs, {a})
<1>1. a \in DOMAIN bs /\ ~bs[a].free /\ bs[a] \in BufRec
  BY DEF Used, Area
<1>2. PICK rec \in BufRec : rec = [bs[a] EXCEPT !.free = TRUE] /\ rec.free
  <2>1. [bs[a] EXCEPT !.free = TRUE] \in BufRec /\ [bs[a] EXCEPT !.free = TRUE].free
    BY <1>1 DEF BufRec
  <2> QED BY <2>1
<1>3. PICK cs : cs = [bs EXCEPT ![a].free = TRUE]
  OBVIOUS
<1>4. cs = [bs EXCEPT ![a] = rec]
  BY <1>2, <1>3
<1>5. DOMAIN cs = DOMAIN bs /\ cs[a] = rec /\ \A c \in DOMAIN bs : c # a => cs[c] = bs[c]
  BY <1>1, <1>4
<1>6. Area(cs)
  BY <1>5 DEF Area
<1>7. \A c : EndOf(cs, c) = EndOf(bs, c)
  BY <1>5, EndSame
<1>8. Free(cs) = Free(bs) \cup {a} /\ Used(cs) = Used(bs) \ {a} /\ a \notin Free(bs) /\ a \in Free(cs)
  BY <1>1, <1>2, <1>5 DEF Free, Used
<1>9. Tree(cs, t, {a})
  BY <1>7, <1>8 DEF Tree, binder_buffer_size
<1>10. Keeps(bs, cs, {a})
  BY <1>5, <1>7, <1>8 DEF Keeps, Used
<1> QED BY <1>3, <1>5, <1>6, <1>8, <1>9, <1>10

\* The buffer after the one at a is free, and the two become one.
LEMMA MergeNextKeeps ==
    ASSUME NEW bs, NEW t, NEW a, Area(bs), Tree(bs, t, {a}), a \in Free(bs), MergesNext(bs, a),
           NEW n, n = EndOf(bs, a)
    PROVE  /\ Area(Removed(bs, n)) /\ Tree(Removed(bs, n), Removed(t, n), {a})
           /\ a \in Free(Removed(bs, n)) /\ EndOf(Removed(bs, n), a) \notin DOMAIN Removed(t, n)
           /\ Used(Removed(bs, n)) = Used(bs) /\ Keeps(bs, Removed(bs, n), {})
<1>1. PICK cs, u : cs = Removed(bs, n) /\ u = Removed(t, n)
  OBVIOUS
<1>2. a \in DOMAIN bs /\ n \in DOMAIN bs /\ bs[n].free /\ bs[a].free
  BY DEF MergesNext, Free
<1>3. n # a
  BY <1>2, EndFacts
<1>4. DOMAIN cs = DOMAIN bs \ {n} /\ \A c \in DOMAIN cs : cs[c] = bs[c]
  BY <1>1 DEF Removed
<1>5. DOMAIN u = DOMAIN t \ {n} /\ \A c \in DOMAIN u : u[c] = t[c]
  BY <1>1 DEF Removed
<1>6. DOMAIN t = Free(bs) \ {a} /\ n \in DOMAIN t
  BY <1>2, <1>3 DEF Tree, Free
<1>7. Area(cs)
  BY <1>4 DEF Area
<1>8. Free(cs) = Free(bs) \ {n} /\ Used(cs) = Used(bs)
  BY <1>2, <1>4 DEF Free, Used
<1>9. EndOf(cs, a) = EndOf(bs, n) /\ EndOf(bs, n) \notin DOMAIN t
  <2>1. a \in DOMAIN cs
    BY <1>2, <1>3, <1>4
  <2>2. EndOf(cs, a) = EndOf(bs, n)
    BY <1>2, <1>4, <1>7, <2>1, EndRemoved
  <2> QED BY <1>6, <2>2 DEF Tree
<1>10. ASSUME NEW c \in DOMAIN cs, c # a
       PROVE  EndOf(cs, c) = EndOf(bs, c)
  <2>1. c \in DOMAIN bs
    BY <1>4
  <2>2. EndOf(bs, c) # n
    BY <1>2, <1>10, <2>1, OneBefore
  <2> QED BY <1>2, <1>4, <1>7, <2>2, EndRemoved
<1>11. ASSUME NEW c \in DOMAIN u
       PROVE  u[c] = binder_buffer_size(cs, c) /\ EndOf(cs, c) \notin DOMAIN u
  <2>1. c \in DOMAIN t /\ c # a /\ c \in DOMAIN cs
    BY <1>4, <1>5, <1>6 DEF Free
  <2>2. EndOf(cs, c) = EndOf(bs, c)
    BY <1>10, <2>1
  <2>3. t[c] = binder_buffer_size(bs, c) /\ EndOf(bs, c) \notin DOMAIN t
    BY <2>1 DEF Tree
  <2> QED BY <1>5, <2>2, <2>3 DEF binder_buffer_size
<1>12. Tree(cs, u, {a})
  <2>1. DOMAIN u = Free(cs) \ {a}
    BY <1>5, <1>6, <1>8
  <2> QED BY <1>11, <2>1 DEF Tree
<1>13. Keeps(bs, cs, {})
  <2>1. ASSUME NEW c \in Used(bs)
        PROVE  cs[c] = bs[c] /\ EndOf(cs, c) = EndOf(bs, c)
    <3>1. c \in DOMAIN cs /\ c # a
      BY <1>2, <1>4 DEF Used
    <3> QED BY <1>4, <1>10, <3>1
  <2> QED BY <1>8, <2>1 DEF Keeps
<1> QED BY <1>1, <1>3, <1>5, <1>7, <1>8, <1>9, <1>12, <1>13

\* The buffer before the one at a is free, and the two become one.
LEMMA MergePrevKeeps ==
    ASSUME NEW bs, NEW t, NEW a, Area(bs), Tree(bs, t, {a}), a \in Free(bs), MergesPrev(bs, a),
           EndOf(bs, a) \notin DOMAIN t, NEW p, p = Max(Before(bs, a)),
           NEW cs, cs = Removed(bs, a)
    PROVE  /\ Area(cs)
           /\ Tree(cs, Inserted(Removed(t, p), p, binder_buffer_size(cs, p)), {})
           /\ Used(cs) = Used(bs) /\ Keeps(bs, cs, {})
<1>1. PICK u : u = Inserted(Removed(t, p), p, binder_buffer_size(cs, p))
  OBVIOUS
<1>2. a \in DOMAIN bs /\ bs[a].free
  BY DEF Free
<1>3. p \in DOMAIN bs /\ bs[p].free /\ p # a /\ EndOf(bs, p) = a
  BY <1>2, PrevFacts DEF MergesPrev
<1>4. DOMAIN cs = DOMAIN bs \ {a} /\ \A c \in DOMAIN cs : cs[c] = bs[c]
  BY DEF Removed
<1>5. DOMAIN t = Free(bs) \ {a} /\ p \in DOMAIN t
  BY <1>3 DEF Tree, Free
<1>6. DOMAIN u = DOMAIN t /\ u[p] = binder_buffer_size(cs, p) /\ \A c \in DOMAIN t : c # p => u[c] = t[c]
  BY <1>1, <1>5 DEF Removed, Inserted
<1>7. Area(cs)
  BY <1>4 DEF Area
<1>8. Free(cs) = Free(bs) \ {a} /\ Used(cs) = Used(bs)
  BY <1>2, <1>4 DEF Free, Used
<1>9. EndOf(cs, p) = EndOf(bs, a)
  <2>1. p \in DOMAIN cs
    BY <1>3, <1>4
  <2> QED BY <1>2, <1>3, <1>4, <1>7, <2>1, EndRemoved
<1>10. ASSUME NEW c \in DOMAIN cs, c # p
       PROVE  EndOf(cs, c) = EndOf(bs, c)
  <2>1. c \in DOMAIN bs
    BY <1>4
  <2>2. EndOf(bs, c) # a
    BY <1>3, <1>10, <2>1, OneBefore
  <2> QED BY <1>2, <1>4, <1>7, <2>2, EndRemoved
<1>11. ASSUME NEW c \in DOMAIN u
       PROVE  u[c] = binder_buffer_size(cs, c) /\ EndOf(cs, c) \notin DOMAIN u
  <2>1. CASE c = p
    BY <1>6, <1>9, <2>1
  <2>2. CASE c # p
    <3>1. c \in DOMAIN t /\ c \in DOMAIN cs
      BY <1>4, <1>5, <1>6 DEF Free
    <3>2. EndOf(cs, c) = EndOf(bs, c)
      BY <1>10, <2>2, <3>1
    <3>3. t[c] = binder_buffer_size(bs, c) /\ EndOf(bs, c) \notin DOMAIN t
      BY <3>1 DEF Tree
    <3> QED BY <1>6, <2>2, <3>1, <3>2, <3>3 DEF binder_buffer_size
  <2> QED BY <2>1, <2>2
<1>12. Tree(cs, u, {})
  <2>1. DOMAIN u = Free(cs) \ {}
    BY <1>5, <1>6, <1>8
  <2> QED BY <1>11, <2>1 DEF Tree
<1>13. Keeps(bs, cs, {})
  <2>1. ASSUME NEW c \in Used(bs)
        PROVE  cs[c] = bs[c] /\ EndOf(cs, c) = EndOf(bs, c)
    <3>1. c \in DOMAIN cs /\ c # p
      BY <1>2, <1>3, <1>4 DEF Used
    <3> QED BY <1>4, <1>10, <3>1
  <2> QED BY <1>8, <2>1 DEF Keeps
<1> QED BY <1>1, <1>7, <1>8, <1>12, <1>13

\* The buffer before the one at a is in use, or there is none: a enters the tree itself.
LEMMA InsertKeeps ==
    ASSUME NEW bs, NEW t, NEW a, Area(bs), Tree(bs, t, {a}), a \in Free(bs), ~MergesPrev(bs, a),
           EndOf(bs, a) \notin DOMAIN t
    PROVE  Tree(bs, Inserted(t, a, binder_buffer_size(bs, a)), {})
<1>1. PICK u : u = Inserted(t, a, binder_buffer_size(bs, a))
  OBVIOUS
<1>2. a \in DOMAIN bs /\ bs[a].free
  BY DEF Free
<1>3. DOMAIN t = Free(bs) \ {a} /\ \A c \in DOMAIN t : c \in DOMAIN bs /\ c # a /\ bs[c].free
  BY DEF Tree, Free
<1>4. DOMAIN u = Free(bs) /\ u[a] = binder_buffer_size(bs, a) /\ \A c \in DOMAIN t : u[c] = t[c]
  BY <1>1, <1>3 DEF Inserted
<1>5. ASSUME NEW c \in DOMAIN t
      PROVE  EndOf(bs, c) # a
  <2>1. CASE Before(bs, a) = {}
    BY <1>2, <1>3, <2>1, NoPrev
  <2>2. CASE Before(bs, a) # {}
    <3>1. PICK p \in DOMAIN bs : p = Max(Before(bs, a)) /\ EndOf(bs, p) = a
      BY <1>2, <2>2, PrevFacts
    <3>2. ~bs[p].free
      BY <2>2, <3>1 DEF MergesPrev
    <3> QED BY <1>3, <3>1, <3>2, OneBefore
  <2> QED BY <2>1, <2>2
<1>6. EndOf(bs, a) # a
  BY <1>2, EndFacts
<1>7. ASSUME NEW c \in DOMAIN u
      PROVE  u[c] = binder_buffer_size(bs, c) /\ EndOf(bs, c) \notin DOMAIN u
  <2>1. CASE c = a
    BY <1>3, <1>4, <1>6, <2>1
  <2>2. CASE c # a
    <3>1. c \in DOMAIN t
      BY <1>3, <1>4, <2>2
    <3>2. t[c] = binder_buffer_size(bs, c) /\ EndOf(bs, c) \notin DOMAIN t
      BY <3>1 DEF Tree
    <3> QED BY <1>3, <1>4, <1>5, <3>1, <3>2
  <2> QED BY <2>1, <2>2
<1>8. Tree(bs, u, {})
  BY <1>4, <1>7 DEF Tree
<1> QED BY <1>1, <1>8

LEMMA KeepsBoth ==
    ASSUME NEW bs, NEW cs, NEW ds, NEW X, NEW Y, NEW Z, Keeps(bs, cs, X), Keeps(cs, ds, Y),
           X \subseteq Z, Y \cap Used(bs) \subseteq Z
    PROVE  Keeps(bs, ds, Z)
BY DEF Keeps

-----------------------------------------------------------------------------
(* The steps *)

\* A step frees the buffers in X and leaves the others in use alone.
Steps(X) ==
    /\ Area(buffers')
    /\ Tree(buffers', free_buffers', {})
    /\ X \cap Used(buffers') = {} /\ Used(buffers) \ X \subseteq Used(buffers')
    /\ Keeps(buffers, buffers', X)

LEMMA AllocBufStep ==
    ASSUME AllocInv, NEW d \in Data, NEW o \in Offsets, NEW async \in BOOLEAN,
           NEW a \in DOMAIN free_buffers, AllocBuf(d, o, async, a)
    PROVE  Steps({})
<1>1. d \in 0 .. SizeT - 1 /\ o \in 0 .. SizeT - 1
  BY AreaAssumption
<1>2. PICK size \in Nat : size = Needed(d, o)
  BY <1>1, NeededNat
<1>3. PICK rec \in BufRec : /\ rec = [free |-> FALSE, data_size |-> d, offsets_size |-> o, async |-> async]
                            /\ ~rec.free
  <2>1. [free |-> FALSE, data_size |-> d, offsets_size |-> o, async |-> async] \in BufRec
    BY <1>1 DEF BufRec
  <2> QED BY <2>1
<1>4. PICK cs, u : cs = Inserted(buffers, a, rec) /\ u = Removed(free_buffers, a)
  OBVIOUS
<1>5. Area(buffers) /\ Tree(buffers, free_buffers, {})
  BY DEF AllocInv
<1>6. /\ Area(cs) /\ Tree(cs, u, {}) /\ Keeps(buffers, cs, {})
      /\ a \in DOMAIN buffers /\ Used(cs) = Used(buffers) \cup {a}
  BY <1>3, <1>4, <1>5, TakeKeeps
<1>7. CASE ~Splits(a, size)
  <2>1. buffers' = cs /\ free_buffers' = u
    BY <1>2, <1>3, <1>4, <1>7 DEF AllocBuf
  <2> QED BY <1>6, <2>1 DEF Steps, Keeps
<1>8. CASE Splits(a, size)
  <2>1. PICK r : r = DataOf(a) + size
    OBVIOUS
  <2>2. PICK ds : ds = Inserted(cs, r, FreeBuf)
    OBVIOUS
  <2>3. PICK v : v = Inserted(u, r, binder_buffer_size(ds, r))
    OBVIOUS
  <2>4. buffers' = ds /\ free_buffers' = v
    BY <1>2, <1>3, <1>4, <1>8, <2>1, <2>2, <2>3 DEF AllocBuf
  <2>5. DOMAIN cs = DOMAIN buffers
    BY <1>4, <1>6 DEF Inserted
  <2>6. EndOf(cs, a) = EndOf(buffers, a)
    BY <2>5, EndSame
  <2>7. EndOf(cs, a) \notin DOMAIN u
    BY <1>4, <1>5, <2>6 DEF Tree, Removed
  <2>8. r \in Nat /\ a < r /\ r < EndOf(cs, a)
    <3>1. a \in Nat /\ EndOf(buffers, a) \in Nat /\ Header \in Nat \ {0}
      BY <1>5, <1>6, EndFacts, Sizes
    <3>2. ~(size + Header + 4 >= EndOf(buffers, a) - (a + Header))
      BY <1>8 DEF Splits, binder_buffer_size, DataOf
    <3> QED BY <2>1, <2>6, <3>1, <3>2 DEF DataOf
  <2>9. a \in Used(cs)
    BY <1>6
  <2>10. /\ Area(ds) /\ Tree(ds, v, {})
         /\ Used(ds) = Used(cs) /\ Keeps(cs, ds, {a})
    BY <1>6, <2>2, <2>3, <2>7, <2>8, <2>9, SplitKeeps
  <2>11. a \notin Used(buffers)
    BY <1>5 DEF Tree, Free, Used
  <2>12. Keeps(buffers, ds, {})
    BY <1>6, <2>10, <2>11, KeepsBoth
  <2> QED BY <1>6, <2>4, <2>10, <2>12 DEF Steps
<1> QED BY <1>7, <1>8

LEMMA FreeStep ==
    ASSUME AllocInv, NEW a \in Used(buffers), binder_free_buf(a)
    PROVE  Steps({a}) /\ Used(buffers') = Used(buffers) \ {a}
<1>1. PICK bs0 : bs0 = [buffers EXCEPT ![a].free = TRUE]
  OBVIOUS
<1>2. PICK n : n = EndOf(bs0, a)
  OBVIOUS
<1>3. PICK bs1 : bs1 = IF MergesNext(bs0, a) THEN Removed(bs0, n) ELSE bs0
  OBVIOUS
<1>4. PICK t1 : t1 = IF MergesNext(bs0, a) THEN Removed(free_buffers, n) ELSE free_buffers
  OBVIOUS
<1>5. PICK p : p = Max(Before(bs1, a))
  OBVIOUS
<1>6. PICK bs2 : bs2 = IF MergesPrev(bs1, a) THEN Removed(bs1, a) ELSE bs1
  OBVIOUS
<1>7. PICK t2 : t2 = IF MergesPrev(bs1, a) THEN Removed(t1, p) ELSE t1
  OBVIOUS
<1>8. PICK m : m = IF MergesPrev(bs1, a) THEN p ELSE a
  OBVIOUS
<1>9. buffers' = bs2 /\ free_buffers' = Inserted(t2, m, binder_buffer_size(bs2, m))
  BY <1>1, <1>2, <1>3, <1>4, <1>5, <1>6, <1>7, <1>8 DEF binder_free_buf, TreeWithout
<1>10. /\ Area(bs0) /\ Tree(bs0, free_buffers, {a}) /\ a \in Free(bs0)
       /\ Used(bs0) = Used(buffers) \ {a} /\ Keeps(buffers, bs0, {a})
  BY <1>1, MarkKeeps DEF AllocInv
<1>11. /\ Area(bs1) /\ Tree(bs1, t1, {a}) /\ a \in Free(bs1) /\ EndOf(bs1, a) \notin DOMAIN t1
       /\ Used(bs1) = Used(bs0) /\ Keeps(bs0, bs1, {})
  <2>1. CASE MergesNext(bs0, a)
    BY <1>2, <1>3, <1>4, <1>10, <2>1, MergeNextKeeps
  <2>2. CASE ~MergesNext(bs0, a)
    <3>1. bs1 = bs0 /\ t1 = free_buffers
      BY <1>3, <1>4, <2>2
    <3>2. EndOf(bs0, a) \notin DOMAIN free_buffers
      BY <1>10, <2>2 DEF Tree, Free, MergesNext
    <3> QED BY <1>10, <3>1, <3>2 DEF Keeps
  <2> QED BY <2>1, <2>2
<1>12. /\ Area(bs2) /\ Tree(bs2, Inserted(t2, m, binder_buffer_size(bs2, m)), {})
       /\ Used(bs2) = Used(bs1) /\ Keeps(bs1, bs2, {})
  <2>1. CASE MergesPrev(bs1, a)
    <3>1. bs2 = Removed(bs1, a) /\ t2 = Removed(t1, p) /\ m = p
      BY <1>6, <1>7, <1>8, <2>1
    <3> QED BY <1>5, <1>11, <2>1, <3>1, MergePrevKeeps
  <2>2. CASE ~MergesPrev(bs1, a)
    <3>1. bs2 = bs1 /\ t2 = t1 /\ m = a
      BY <1>6, <1>7, <1>8, <2>2
    <3> QED BY <1>11, <2>2, <3>1, InsertKeeps DEF Keeps
  <2> QED BY <2>1, <2>2
<1>13. Keeps(buffers, bs1, {a})
  BY <1>10, <1>11, KeepsBoth
<1>14. Keeps(buffers, bs2, {a})
  BY <1>12, <1>13, KeepsBoth
<1> QED BY <1>9, <1>10, <1>11, <1>12, <1>14 DEF Steps

LEMMA MmapStep ==
    ASSUME AllocInv, Mmap
    PROVE  Steps({})
<1>1. PICK bs, t : bs = Inserted(Empty, 0, FreeBuf) /\ t = Inserted(Empty, 0, Total - Header)
  OBVIOUS
<1>2. DOMAIN bs = {0} /\ bs[0] = FreeBuf /\ DOMAIN t = {0} /\ t[0] = Total - Header
  BY <1>1 DEF Inserted, Empty
<1>3. Total \in Nat \ {0} /\ Header \in Nat \ {0}
  BY Sizes
<1>4. Area(bs)
  BY <1>2, <1>3, FreeBufIs DEF Area
<1>5. EndOf(bs, 0) = Total
  <2>1. After(bs, 0) = {}
    BY <1>2 DEF After
  <2> QED BY <2>1 DEF EndOf
<1>6. Free(bs) = {0}
  BY <1>2, FreeBufIs DEF Free
<1>7. Tree(bs, t, {})
  BY <1>2, <1>3, <1>5, <1>6 DEF Tree, binder_buffer_size, DataOf
<1>8. Used(buffers) = {}
  BY DEF Mmap, AllocInv, Empty, Used
<1>9. buffers' = bs /\ free_buffers' = t
  BY <1>1 DEF Mmap
<1> QED BY <1>4, <1>7, <1>8, <1>9 DEF Steps, Keeps

LEMMA EmptyTree == Area(Empty) /\ Tree(Empty, Empty, {}) /\ Used(Empty) = {}
BY DEF Area, Tree, Empty, Free, Used

LEMMA UnchangedStep ==
    ASSUME AllocInv, UNCHANGED <<buffers, free_buffers>>
    PROVE  Steps({})
BY DEF AllocInv, Steps, Keeps

LEMMA AllocatedIs == Allocated = Used(buffers)
BY DEF Allocated, Used

LEMMA MinAllocated ==
    ASSUME AllocInv, Allocated # {}
    PROVE  Min(Allocated) \in Used(buffers)
<1>1. Used(buffers) \subseteq Nat
  BY Sizes DEF Used, AllocInv, Area
<1>2. Used(buffers) # {}
  BY AllocatedIs
<1> QED BY <1>1, <1>2, AllocatedIs, MinIn

\* A step of the allocator frees at most one buffer.
LEMMA NextStep ==
    ASSUME AllocInv, [Next]_vars
    PROVE  Steps({}) \/ \E a \in Used(buffers) : Steps({a})
<1>1. CASE Mmap
  BY <1>1, MmapStep
<1>2. CASE VmaClose
  BY <1>2, UnchangedStep DEF VmaClose
<1>3. CASE \E d \in Data, o \in Offsets, async \in BOOLEAN : \E a \in DOMAIN free_buffers :
               AllocBuf(d, o, async, a) \/ AllocNoPage(d, o, async, a)
  <2>1. PICK d \in Data, o \in Offsets, async \in BOOLEAN, a \in DOMAIN free_buffers :
               AllocBuf(d, o, async, a) \/ AllocNoPage(d, o, async, a)
    BY <1>3
  <2>2. CASE AllocBuf(d, o, async, a)
    BY <2>2, AllocBufStep
  <2>3. CASE AllocNoPage(d, o, async, a)
    BY <2>3, UnchangedStep DEF AllocNoPage
  <2> QED BY <2>1, <2>2, <2>3
<1>4. CASE \E a \in DOMAIN buffers : FreeBuffer(a)
  <2>1. PICK a \in DOMAIN buffers : FreeBuffer(a)
    BY <1>4
  <2>2. a \in Used(buffers) /\ binder_free_buf(a)
    BY <2>1, AllocatedIs DEF FreeBuffer
  <2> QED BY <2>2, FreeStep
<1>5. CASE StartRelease
  BY <1>5, UnchangedStep DEF StartRelease
<1>6. CASE ReleaseBuffer
  <2>1. PICK a \in Used(buffers) : a = Min(Allocated)
    BY <1>6, MinAllocated DEF ReleaseBuffer
  <2>2. binder_free_buf(a)
    BY <1>6, <2>1 DEF ReleaseBuffer
  <2> QED BY <2>2, FreeStep
<1>7. CASE ReleaseArea
  <2>1. buffers' = Empty /\ free_buffers' = Empty /\ Used(buffers) = {}
    BY <1>7, AllocatedIs DEF ReleaseArea
  <2> QED BY <2>1, EmptyTree DEF Steps, Keeps
<1>8. CASE UNCHANGED vars
  BY <1>8, UnchangedStep DEF vars
<1> QED BY <1>1, <1>2, <1>3, <1>4, <1>5, <1>6, <1>7, <1>8 DEF Next

\* Without a mapping there are no buffers.
LEMMA UnmappedStep ==
    ASSUME AllocInv, [Next]_vars, vma' = "none"
    PROVE  buffers' = Empty
<1>1. CASE vma = "none"
  <2>1. DOMAIN buffers = {} /\ DOMAIN free_buffers = {} /\ buffers = Empty
    BY <1>1 DEF AllocInv, Empty, Tree, Free
  <2>2. Allocated = {}
    BY <2>1 DEF Allocated
  <2> QED BY <1>1, <2>1, <2>2
        DEF Next, vars, Mmap, VmaClose, FreeBuffer, StartRelease, ReleaseBuffer, ReleaseArea
<1>2. CASE vma # "none"
  <2>1. \A d, o, async, a : AllocBuf(d, o, async, a) => vma' = vma
    BY DEF AllocBuf
  <2>2. \A d, o, async, a : AllocNoPage(d, o, async, a) => vma' = vma
    BY DEF AllocNoPage
  <2>3. \A a : FreeBuffer(a) => vma' = vma
    BY DEF FreeBuffer
  <2> QED BY <1>2, <2>1, <2>2, <2>3
        DEF Next, vars, Mmap, VmaClose, StartRelease, ReleaseBuffer, ReleaseArea
<1> QED BY <1>1, <1>2

LEMMA AllocInvInit ==
    ASSUME Init
    PROVE  AllocInv
BY EmptyTree DEF Init, AllocInv

LEMMA AllocInvNext ==
    ASSUME AllocInv, [Next]_vars
    PROVE  AllocInv'
<1>1. Area(buffers') /\ Tree(buffers', free_buffers', {})
  BY NextStep DEF Steps
<1>2. vma' = "none" => buffers' = Empty
  BY UnmappedStep
<1> QED BY <1>1, <1>2 DEF AllocInv

LEMMA AllocSafe == Spec => []AllocInv
<1>1. Init => AllocInv
  BY AllocInvInit
<1>2. AllocInv /\ [Next]_vars => AllocInv'
  BY AllocInvNext
<1> QED BY <1>1, <1>2, PTL DEF Spec

-----------------------------------------------------------------------------
(* Sizes and addresses in words *)

\* The size rounded up to words, before it is cut to a size_t.
Up(n) == ((n + Word - 1) \div Word) * Word

Whole(n) == \E k \in Nat : n = k * Word

LEMMA MultipleOrder ==
    ASSUME NEW w \in Nat \ {0}, NEW i \in Nat, NEW j \in Nat
    PROVE  /\ i <= j => i * w <= j * w
           /\ i < j => i * w + w <= j * w
           /\ i * w \in Nat
<1>1. ASSUME i <= j
      PROVE  i * w <= j * w
  <2>1. PICK e \in Nat : j = i + e
    <3>1. j - i \in Nat /\ j = i + (j - i)
      BY <1>1
    <3> QED BY <3>1
  <2>2. j * w = i * w + e * w /\ e * w \in Nat /\ i * w \in Nat
    BY <2>1
  <2> QED BY <2>2
<1>2. ASSUME i < j
      PROVE  i * w + w <= j * w
  <2>1. PICK e \in Nat : j = i + 1 + e
    <3>1. j - i - 1 \in Nat /\ j = i + 1 + (j - i - 1)
      BY <1>2
    <3> QED BY <3>1
  <2>2. j * w = i * w + w + e * w /\ e * w \in Nat /\ i * w \in Nat
    BY <2>1
  <2> QED BY <2>2
<1>3. i * w \in Nat
  OBVIOUS
<1> QED BY <1>1, <1>2, <1>3

\* A whole number of words below another one is below it by a word.
LEMMA Multiples ==
    ASSUME NEW w \in Nat \ {0}, NEW i \in Nat, NEW j \in Nat
    PROVE  /\ i * w + j * w = (i + j) * w
           /\ i * w < j * w => i * w + w <= j * w
<1>1. i * w + j * w = (i + j) * w
  OBVIOUS
<1>2. i * w \in Nat /\ j * w \in Nat /\ (j <= i => j * w <= i * w) /\ (i < j => i * w + w <= j * w)
  BY MultipleOrder
<1>3. i * w < j * w => i * w + w <= j * w
  BY <1>2
<1> QED BY <1>1, <1>3

LEMMA Division ==
    ASSUME NEW x \in Nat, NEW y \in Nat \ {0}
    PROVE  /\ x \div y \in Nat /\ x % y \in Nat /\ x % y < y
           /\ x % y = x - (x \div y) * y
<1>1. x \div y \in Nat /\ x % y \in Nat /\ x % y < y
  OBVIOUS
<1>2. x % y = x - (x \div y) * y
  OBVIOUS
<1> QED BY <1>1, <1>2

LEMMA WholeFacts ==
    ASSUME NEW m \in Nat
    PROVE  /\ Whole(m) <=> m % Word = 0
           /\ \A n \in Nat : Whole(m) /\ Whole(n) => Whole(m + n) /\ (m < n => m + Word <= n)
<1>1. Word \in Nat \ {0}
  BY Sizes
<1>2. ASSUME Whole(m)
      PROVE  m % Word = 0
  <2>1. PICK k \in Nat : m = k * Word
    BY <1>2 DEF Whole
  <2> QED BY <1>1, <2>1
<1>3. ASSUME m % Word = 0
      PROVE  Whole(m)
  <2>1. PICK q \in Nat : m % Word = m - q * Word
    BY <1>1, Division
  <2>2. q * Word \in Nat
    BY <1>1
  <2> QED BY <1>3, <2>1, <2>2 DEF Whole
<1>4. ASSUME NEW n \in Nat, Whole(m), Whole(n)
      PROVE  Whole(m + n) /\ (m < n => m + Word <= n)
  <2>1. PICK i \in Nat, j \in Nat : m = i * Word /\ n = j * Word
    BY <1>4 DEF Whole
  <2>2. m + n = (i + j) * Word /\ i + j \in Nat
    BY <1>1, <2>1, Multiples
  <2>3. m < n => m + Word <= n
    BY <1>1, <2>1, Multiples
  <2> QED BY <2>2, <2>3 DEF Whole
<1> QED BY <1>2, <1>3, <1>4

LEMMA UpFacts ==
    ASSUME NEW n \in Nat
    PROVE  Up(n) \in Nat /\ Whole(Up(n)) /\ n <= Up(n) /\ Up(n) < n + Word
<1>1. Word \in Nat \ {0}
  BY Sizes
<1>2. PICK x \in Nat : x = n + Word - 1
  BY <1>1
<1>3. PICK q \in Nat, r \in Nat : q = x \div Word /\ r < Word /\ r = x - q * Word
  BY <1>1, Division
<1>4. PICK u \in Nat : u = q * Word
  BY <1>1
<1>5. Up(n) = u /\ Whole(u)
  BY <1>2, <1>3, <1>4 DEF Up, Whole
<1> QED BY <1>1, <1>2, <1>3, <1>4, <1>5

\* A request whose size did not overflow takes the words its data and its offsets fill.
LEMMA NeededIs ==
    ASSUME NEW d \in 0 .. SizeT - 1, NEW o \in 0 .. SizeT - 1, SizeValid(d, o)
    PROVE  /\ ALIGN(d) = Up(d) /\ ALIGN(o) = Up(o) /\ Needed(d, o) = Up(d) + Up(o)
           /\ Needed(d, o) \in Nat /\ Whole(Needed(d, o))
<1>1. /\ SizeT \in Nat \ {0} /\ Word \in Nat \ {0} /\ Whole(SizeT)
      /\ d \in Nat /\ o \in Nat /\ d < SizeT /\ o < SizeT
  BY Sizes, AreaAssumption, WholeFacts
<1>2. ASSUME NEW n \in Nat, n < SizeT
      PROVE  /\ Up(n) < SizeT => ALIGN(n) = Up(n)
             /\ Up(n) >= SizeT => ALIGN(n) = 0 /\ n + Word > SizeT
             /\ ALIGN(n) \in Nat /\ Whole(ALIGN(n)) /\ ALIGN(n) < SizeT
  <2>1. PICK u \in Nat : u = Up(n) /\ Whole(u) /\ n <= u /\ u < n + Word
    BY UpFacts
  <2>2. ALIGN(n) = u % SizeT
    BY <2>1 DEF ALIGN, Up
  <2>3. CASE u < SizeT
    BY <1>1, <2>1, <2>2, <2>3
  <2>4. CASE u >= SizeT
    <3>1. u = SizeT
      <4>1. SizeT < u => SizeT + Word <= u
        BY <1>1, <2>1, WholeFacts
      <4> QED BY <1>1, <1>2, <2>1, <2>4, <4>1
    <3>2. ALIGN(n) = 0
      BY <1>1, <2>2, <3>1
    <3>3. Whole(0)
      BY <1>1 DEF Whole
    <3> QED BY <1>1, <2>1, <2>4, <3>1, <3>2, <3>3
  <2> QED BY <1>1, <2>1, <2>3, <2>4
<1>3. PICK x \in Nat, y \in Nat : x = ALIGN(d) /\ y = ALIGN(o)
  BY <1>1, <1>2
<1>4. x < SizeT /\ y < SizeT /\ Whole(x) /\ Whole(y) /\ x + y \in Nat /\ Whole(x + y)
  <2>1. x < SizeT /\ y < SizeT /\ Whole(x) /\ Whole(y)
    BY <1>1, <1>2, <1>3
  <2> QED BY <2>1, WholeFacts
<1>5. Needed(d, o) = (x + y) % SizeT
  BY <1>3 DEF Needed
<1>6. (x + y) % SizeT >= d /\ (x + y) % SizeT >= o
  <2>1. (x + y) % SizeT \in Nat
    BY <1>1, <1>4
  <2> QED BY <1>1, <1>5, <2>1 DEF SizeValid
<1>7. x + y < SizeT
  <2>1. SUFFICES ASSUME x + y >= SizeT
                 PROVE  FALSE
    BY <1>1
  <2>2. (x + y) % SizeT = x + y - SizeT
    BY <1>1, <1>4, <2>1
  <2>3. y < SizeT => y + Word <= SizeT
    BY <1>1, <1>4, WholeFacts
  <2>4. CASE x = Up(d)
    <3>1. x < d + Word
      BY <1>1, <2>4, UpFacts
    <3> QED BY <1>1, <1>4, <1>6, <2>2, <2>3, <3>1
  <2>5. CASE x = 0
    BY <1>1, <1>4, <2>1, <2>5
  <2> QED BY <1>1, <1>2, <1>3, <2>4, <2>5, UpFacts
<1>8. Needed(d, o) = x + y
  BY <1>1, <1>4, <1>5, <1>7
<1>9. Up(d) < SizeT /\ Up(o) < SizeT
  <2>1. ASSUME NEW n \in Nat, NEW z \in Nat, n < SizeT, n <= z, z < SizeT, Whole(z), Up(n) >= SizeT
        PROVE  FALSE
    <3>1. n + Word > SizeT
      BY <1>2, <2>1
    <3>2. z + Word <= SizeT
      BY <1>1, <2>1, WholeFacts
    <3> QED BY <1>1, <2>1, <3>1, <3>2
  <2>2. d <= x + y /\ o <= x + y
    BY <1>1, <1>4, <1>6, <1>7
  <2> QED BY <1>1, <1>4, <1>7, <2>1, <2>2, UpFacts
<1>10. x = Up(d) /\ y = Up(o)
  BY <1>1, <1>2, <1>3, <1>9
<1> QED BY <1>3, <1>4, <1>8, <1>10

-----------------------------------------------------------------------------
(* Pages *)

\* The first byte of page k.
Base(k) == k * PageSize

LEMMA PageBounds ==
    ASSUME NEW k \in Nat, NEW x \in Nat
    PROVE  /\ Base(k) \in Nat /\ PageSize \in Nat \ {0}
           /\ PageDown(x) \in Nat /\ PageUp(x) \in Nat
           /\ PageDown(x) <= k <=> x < Base(k) + PageSize
           /\ k <= PageDown(x) <=> Base(k) <= x
           /\ k < PageUp(x) <=> Base(k) < x
<1>1. PageSize \in Nat \ {0}
  BY Sizes
<1>2. PICK b \in Nat : b = k * PageSize
  BY <1>1
<1>3. ASSUME NEW z \in Nat
      PROVE  /\ z \div PageSize \in Nat
             /\ z \div PageSize <= k <=> z < b + PageSize
             /\ k <= z \div PageSize <=> b <= z
  <2>1. PICK q \in Nat : q = z \div PageSize
    BY <1>1, Division
  <2>2. PICK c \in Nat : c = q * PageSize
    BY <1>1
  <2>3. c <= z /\ z < c + PageSize
    <3>1. PICK r \in Nat : r < PageSize /\ r = z - c
      BY <1>1, <2>1, <2>2, Division
    <3> QED BY <1>1, <2>2, <3>1
  <2>4. /\ q <= k => c <= b
        /\ k < q => b + PageSize <= c
        /\ k <= q => b <= c
        /\ q < k => c + PageSize <= b
    BY <1>1, <1>2, <2>2, MultipleOrder
  <2>5. q <= k <=> z < b + PageSize
    BY <1>1, <2>3, <2>4
  <2>6. k <= q <=> b <= z
    BY <1>1, <2>3, <2>4
  <2> QED BY <2>1, <2>5, <2>6
<1>4. PICK z \in Nat : z = x + PageSize - 1
  BY <1>1
<1>5. PageUp(x) \in Nat /\ (PageUp(x) <= k <=> z < b + PageSize)
  BY <1>3, <1>4 DEF PageUp
<1>6. k < PageUp(x) <=> b < x
  BY <1>1, <1>4, <1>5
<1> QED BY <1>1, <1>2, <1>3, <1>5, <1>6 DEF Base, PageDown

\* The area ends at the end of a page.
LEMMA BaseTotal ==
    ASSUME NEW k \in Nat, Base(k) < Total
    PROVE  Base(k) + PageSize <= Total /\ k \in Pages
<1>1. PageSize \in Nat \ {0} /\ Total \in Nat \ {0} /\ Total % PageSize = 0
  BY Sizes, AreaAssumption
<1>2. PICK q \in Nat : q = Total \div PageSize /\ Total % PageSize = Total - q * PageSize
  BY <1>1, Division
<1>3. Total = q * PageSize
  <2>1. q * PageSize \in Nat
    BY <1>1
  <2> QED BY <1>1, <1>2, <2>1
<1>4. PICK b \in Nat : b = k * PageSize
  BY <1>1
<1>5. k < q
  <2>1. q <= k => Total <= b
    BY <1>1, <1>3, <1>4, MultipleOrder
  <2> QED BY <1>1, <1>4, <2>1 DEF Base
<1>6. b + PageSize <= Total
  BY <1>1, <1>3, <1>4, <1>5, MultipleOrder
<1>7. k \in Pages
  BY <1>2, <1>5 DEF Pages
<1> QED BY <1>4, <1>6, <1>7 DEF Base

UnderHeader(k, c) == Base(k) < c + Header /\ c < Base(k) + PageSize

LEMMA HeaderRange ==
    ASSUME NEW c \in Nat
    PROVE  /\ HeaderNeeds(c) \subseteq Nat
           /\ \A k \in Nat : k \in HeaderNeeds(c) <=> UnderHeader(k, c)
<1>1. Header \in Nat \ {0}
  BY Sizes
<1>2. PICK z \in Nat : z = c + Header - 1
  BY <1>1
<1>3. HeaderNeeds(c) = PageDown(c) .. PageDown(z)
  BY <1>2 DEF HeaderNeeds, buffer_start_page, buffer_end_page
<1>4. PageDown(c) \in Nat /\ PageDown(z) \in Nat
  BY PageBounds
<1>5. ASSUME NEW k \in Nat
      PROVE  k \in HeaderNeeds(c) <=> UnderHeader(k, c)
  <2>1. /\ Base(k) \in Nat
        /\ PageDown(c) <= k <=> c < Base(k) + PageSize
        /\ k <= PageDown(z) <=> Base(k) <= z
    BY PageBounds
  <2>2. Base(k) <= z <=> Base(k) < c + Header
    BY <1>1, <1>2, <2>1
  <2> QED BY <1>3, <1>4, <2>1, <2>2 DEF UnderHeader
<1>6. HeaderNeeds(c) \subseteq Nat
  BY <1>3, <1>4
<1> QED BY <1>5, <1>6

\* The pages from the first one that begins at x or later to the last one that ends at y
\* or before.
LEMMA InnerRange ==
    ASSUME NEW x \in Nat, NEW y \in Nat
    PROVE  /\ PageUp(x) .. PageDown(y) - 1 \subseteq Nat
           /\ \A k \in Nat : k \in PageUp(x) .. PageDown(y) - 1
                  <=> x <= Base(k) /\ Base(k) + PageSize <= y
<1>1. PageUp(x) \in Nat /\ PageDown(y) \in Nat
  BY PageBounds
<1>2. ASSUME NEW k \in Nat
      PROVE  k \in PageUp(x) .. PageDown(y) - 1
                  <=> x <= Base(k) /\ Base(k) + PageSize <= y
  <2>1. /\ Base(k) \in Nat /\ PageSize \in Nat
        /\ PageDown(y) <= k <=> y < Base(k) + PageSize
        /\ k < PageUp(x) <=> Base(k) < x
    BY PageBounds
  <2>2. k \in PageUp(x) .. PageDown(y) - 1 <=> ~(k < PageUp(x)) /\ ~(PageDown(y) <= k)
    BY <1>1
  <2> QED BY <2>1, <2>2
<1>3. PageUp(x) .. PageDown(y) - 1 \subseteq Nat
  BY <1>1
<1> QED BY <1>2, <1>3

\* The pages that bytes x up to y touch.
LEMMA OuterRange ==
    ASSUME NEW x \in Nat, NEW y \in Nat
    PROVE  /\ PageDown(x) .. PageUp(y) - 1 \subseteq Nat
           /\ \A k \in Nat : k \in PageDown(x) .. PageUp(y) - 1
                  <=> Base(k) < y /\ x < Base(k) + PageSize
<1>1. PageDown(x) \in Nat /\ PageUp(y) \in Nat
  BY PageBounds
<1>2. ASSUME NEW k \in Nat
      PROVE  k \in PageDown(x) .. PageUp(y) - 1
                  <=> Base(k) < y /\ x < Base(k) + PageSize
  <2>1. /\ PageDown(x) <= k <=> x < Base(k) + PageSize
        /\ k < PageUp(y) <=> Base(k) < y
    BY PageBounds
  <2>2. k \in PageDown(x) .. PageUp(y) - 1 <=> PageDown(x) <= k /\ k < PageUp(y)
    BY <1>1
  <2> QED BY <2>1, <2>2
<1>3. PageDown(x) .. PageUp(y) - 1 \subseteq Nat
  BY <1>1
<1> QED BY <1>2, <1>3

-----------------------------------------------------------------------------
(* What buffers need *)

\* The bytes that a buffer was asked to hold.
Room(rec) == Needed(rec.data_size, rec.offsets_size)

\* The buffer at a in bs has room for what was asked, and not for another one beside it.
Filled(bs, a) ==
    /\ SizeValid(bs[a].data_size, bs[a].offsets_size)
    /\ a + Header + Room(bs[a]) <= EndOf(bs, a)
    /\ EndOf(bs, a) <= a + Header + Room(bs[a]) + Header + 4

\* Headers begin at whole words and do not overlap with anything.
Laid(bs) ==
    \A a \in DOMAIN bs :
        /\ Whole(a) /\ a + Header <= EndOf(bs, a)
        /\ ~bs[a].free => Filled(bs, a)

UnderData(bs, k, c) ==
    Base(k) < c + Header + Room(bs[c]) /\ c + Header < Base(k) + PageSize

\* Page k is under a header, or under data that is in use.
Touches(bs, k) ==
    \E c \in DOMAIN bs : UnderHeader(k, c) \/ (~bs[c].free /\ UnderData(bs, k, c))

PagesAre(bs, ps) == ps \subseteq Nat /\ \A k \in Nat : k \in ps <=> Touches(bs, k)

\* Page k lies between the header of the buffer at a and the end of the buffer.
InGap(bs, k, a) == a + Header <= Base(k) /\ Base(k) + PageSize <= EndOf(bs, a)

LEMMA RoomIs ==
    ASSUME NEW bs, Area(bs), NEW a \in DOMAIN bs
    PROVE  /\ Room(bs[a]) \in Nat
           /\ SizeValid(bs[a].data_size, bs[a].offsets_size) =>
                 /\ Whole(Room(bs[a]))
                 /\ Room(bs[a]) = ALIGN(bs[a].data_size) + ALIGN(bs[a].offsets_size)
                 /\ Room(bs[a]) = Up(bs[a].data_size) + Up(bs[a].offsets_size)
<1>1. bs[a].data_size \in 0 .. SizeT - 1 /\ bs[a].offsets_size \in 0 .. SizeT - 1
  BY DEF Area, BufRec
<1> QED BY <1>1, NeededNat, NeededIs DEF Room

LEMMA LaidFacts ==
    ASSUME NEW bs, Area(bs), Laid(bs), NEW a \in DOMAIN bs
    PROVE  /\ a \in Nat /\ Header \in Nat \ {0} /\ PageSize \in Nat \ {0}
           /\ Header + 4 < PageSize /\ Total \in Nat
           /\ EndOf(bs, a) \in Nat /\ a + Header <= EndOf(bs, a) /\ EndOf(bs, a) <= Total
           /\ EndOf(bs, a) # Total => EndOf(bs, a) \in DOMAIN bs
           /\ \A c \in DOMAIN bs : c \in Nat /\ (c > a => EndOf(bs, a) <= c)
           /\ Room(bs[a]) \in Nat
           /\ ~bs[a].free => a + Header + Room(bs[a]) <= EndOf(bs, a)
BY EndFacts, RoomIs, Sizes, AreaAssumption DEF Laid, Filled

\* Only the buffer itself needs a page in its gap.
LEMMA GapIsOwn ==
    ASSUME NEW bs, Area(bs), Laid(bs), NEW a \in DOMAIN bs, NEW k \in Nat, InGap(bs, k, a),
           Touches(bs, k)
    PROVE  ~bs[a].free /\ UnderData(bs, k, a)
<1>1. PICK c \in DOMAIN bs : UnderHeader(k, c) \/ (~bs[c].free /\ UnderData(bs, k, c))
  BY DEF Touches
<1>2. PICK b \in Nat : b = Base(k)
  BY PageBounds
<1>3. PICK e \in Nat : e = EndOf(bs, a)
  BY LaidFacts
<1>4. /\ a \in Nat /\ Header \in Nat \ {0} /\ PageSize \in Nat \ {0} /\ c \in Nat
      /\ c > a => e <= c
      /\ a + Header <= b /\ b + PageSize <= e
  BY <1>2, <1>3, LaidFacts DEF InGap
<1>5. PICK f \in Nat, s \in Nat : f = EndOf(bs, c) /\ s = Room(bs[c])
  BY LaidFacts
<1>6. c + Header <= f /\ (~bs[c].free => c + Header + s <= f) /\ (a > c => f <= a)
  BY <1>5, LaidFacts
<1>7. \/ b < c + Header /\ c < b + PageSize
      \/ ~bs[c].free /\ b < c + Header + s /\ c + Header < b + PageSize
  BY <1>1, <1>2, <1>5 DEF UnderHeader, UnderData
<1>8. c = a
  <2>1. ~(c < a)
    BY <1>4, <1>6, <1>7
  <2>2. ~(c > a)
    BY <1>4, <1>7
  <2> QED BY <1>4, <2>1, <2>2
<1>9. ~UnderHeader(k, a)
  BY <1>2, <1>4 DEF UnderHeader
<1> QED BY <1>1, <1>8, <1>9

\* The page under the last byte of a buffer that ends within the page is under the header
\* that begins there.
LEMMA LastPageShared ==
    ASSUME NEW bs, Area(bs), Laid(bs), NEW a \in DOMAIN bs, NEW k \in Nat,
           Base(k) < EndOf(bs, a), EndOf(bs, a) < Base(k) + PageSize
    PROVE  EndOf(bs, a) \in DOMAIN bs /\ UnderHeader(k, EndOf(bs, a))
<1>1. PICK b \in Nat, e \in Nat : b = Base(k) /\ e = EndOf(bs, a)
  BY PageBounds, LaidFacts
<1>2. Header \in Nat \ {0} /\ Total \in Nat /\ PageSize \in Nat
  BY LaidFacts
<1>3. e # Total
  BY <1>1, <1>2, BaseTotal
<1> QED BY <1>1, <1>2, <1>3, LaidFacts DEF UnderHeader

-----------------------------------------------------------------------------
(* Allocation *)

\* The pages that are allocated when the buffer at a is taken for u bytes.
InAlloc(bs, k, a, u) ==
    a + Header <= Base(k) /\ Base(k) < a + Header + u /\ Base(k) + PageSize <= EndOf(bs, a)

\* cs is bs with the free buffer at a taken for s bytes whole, or up to a new buffer at r.
TakenWhole(bs, cs, a, s) ==
    /\ DOMAIN cs = DOMAIN bs
    /\ a + Header + s <= EndOf(bs, a) /\ EndOf(bs, a) <= a + Header + s + Header + 4

TakenSplit(bs, cs, a, s, r) ==
    /\ DOMAIN cs = DOMAIN bs \cup {r} /\ cs[r].free
    /\ r = a + Header + s /\ r + Header + 4 < EndOf(bs, a)

LEMMA TakenEnds ==
    ASSUME NEW bs, Area(bs), NEW cs, Area(cs), Laid(bs), NEW a \in Free(bs), NEW s \in Nat, NEW r,
           TakenWhole(bs, cs, a, s) \/ TakenSplit(bs, cs, a, s, r)
    PROVE  /\ DOMAIN bs \subseteq DOMAIN cs
           /\ \A c \in DOMAIN bs : c # a => EndOf(cs, c) = EndOf(bs, c)
           /\ TakenWhole(bs, cs, a, s) => EndOf(cs, a) = EndOf(bs, a)
           /\ TakenSplit(bs, cs, a, s, r) =>
                 r \notin DOMAIN bs /\ EndOf(cs, a) = r /\ EndOf(cs, r) = EndOf(bs, a)
<1>1. a \in DOMAIN bs
  BY DEF Free
<1>2. CASE TakenWhole(bs, cs, a, s)
  <2>1. DOMAIN cs = DOMAIN bs
    BY <1>2 DEF TakenWhole
  <2>2. \A c : EndOf(cs, c) = EndOf(bs, c)
    BY <2>1, EndSame
  <2>3. ~TakenSplit(bs, cs, a, s, r)
    <3>1. a \in Nat /\ Header \in Nat \ {0}
      BY <1>1, LaidFacts
    <3>2. SUFFICES ASSUME TakenSplit(bs, cs, a, s, r)
                   PROVE  FALSE
      OBVIOUS
    <3>3. r \in DOMAIN bs /\ r = a + Header + s /\ r + Header + 4 < EndOf(bs, a)
      BY <2>1, <3>2 DEF TakenSplit
    <3>4. EndOf(bs, a) <= r /\ EndOf(bs, a) \in Nat
      BY <1>1, <3>1, <3>3, LaidFacts
    <3> QED BY <3>1, <3>3, <3>4
  <2> QED BY <1>2, <2>1, <2>2, <2>3
<1>3. CASE TakenSplit(bs, cs, a, s, r)
  <2>1. DOMAIN cs = DOMAIN bs \cup {r} /\ r = a + Header + s /\ r + Header + 4 < EndOf(bs, a)
    BY <1>3 DEF TakenSplit
  <2>2. a < r /\ r < EndOf(bs, a)
    <3>1. a \in Nat /\ Header \in Nat \ {0} /\ EndOf(bs, a) \in Nat
      BY <1>1, LaidFacts
    <3> QED BY <2>1, <3>1
  <2>3. /\ r \notin DOMAIN bs
        /\ EndOf(cs, a) = r /\ EndOf(cs, r) = EndOf(bs, a)
        /\ \A c \in DOMAIN bs : c # a => EndOf(cs, c) = EndOf(bs, c)
    BY <1>1, <2>1, <2>2, EndAdded
  <2>4. ~TakenWhole(bs, cs, a, s)
    BY <2>1, <2>3 DEF TakenWhole
  <2> QED BY <1>3, <2>1, <2>3, <2>4
<1> QED BY <1>2, <1>3

LEMMA TakenLaid ==
    ASSUME NEW bs, Area(bs), NEW cs, Area(cs), Laid(bs), NEW a \in Free(bs), NEW s \in Nat, NEW r,
           TakenWhole(bs, cs, a, s) \/ TakenSplit(bs, cs, a, s, r),
           \A c \in DOMAIN bs : c # a => cs[c] = bs[c],
           ~cs[a].free, s = Room(cs[a]), SizeValid(cs[a].data_size, cs[a].offsets_size)
    PROVE  Laid(cs)
<1>1. a \in DOMAIN bs /\ a \in DOMAIN cs
  BY TakenEnds DEF Free
<1>2. /\ a \in Nat /\ Header \in Nat \ {0} /\ Whole(a) /\ Whole(s) /\ Whole(Header)
      /\ EndOf(bs, a) \in Nat /\ a + Header <= EndOf(bs, a)
  BY <1>1, LaidFacts, RoomIs, WholeFacts, AreaAssumption DEF Laid
<1>3. ASSUME NEW c \in DOMAIN bs, c # a
      PROVE  Whole(c) /\ c + Header <= EndOf(cs, c) /\ (~cs[c].free => Filled(cs, c))
  <2>1. cs[c] = bs[c] /\ EndOf(cs, c) = EndOf(bs, c)
    BY <1>3, TakenEnds
  <2>2. Whole(c) /\ c + Header <= EndOf(bs, c) /\ (~bs[c].free => Filled(bs, c))
    BY <1>3 DEF Laid
  <2>3. Filled(bs, c) => Filled(cs, c)
    BY <2>1 DEF Filled
  <2> QED BY <2>1, <2>2, <2>3
<1>4. CASE TakenWhole(bs, cs, a, s)
  <2>1. EndOf(cs, a) = EndOf(bs, a) /\ DOMAIN cs = DOMAIN bs
    BY <1>4, TakenEnds DEF TakenWhole
  <2>2. Filled(cs, a)
    BY <1>4, <2>1 DEF TakenWhole, Filled
  <2> QED BY <1>2, <1>3, <2>1, <2>2 DEF Laid
<1>5. CASE TakenSplit(bs, cs, a, s, r)
  <2>1. /\ EndOf(cs, a) = r /\ EndOf(cs, r) = EndOf(bs, a)
        /\ DOMAIN cs = DOMAIN bs \cup {r} /\ cs[r].free
        /\ r = a + Header + s /\ r + Header + 4 < EndOf(bs, a)
    BY <1>5, TakenEnds DEF TakenSplit
  <2>2. Filled(cs, a) /\ a + Header <= EndOf(cs, a)
    BY <1>2, <2>1 DEF Filled
  <2>3. Whole(r)
    <3>1. Whole(a + Header) /\ a + Header \in Nat
      BY <1>2, WholeFacts
    <3> QED BY <1>2, <2>1, <3>1, WholeFacts
  <2>4. r + Header <= EndOf(cs, r)
    BY <1>2, <2>1
  <2> QED BY <1>2, <1>3, <2>1, <2>2, <2>3, <2>4 DEF Laid
<1> QED BY <1>4, <1>5

\* The pages that are allocated are the ones that the new headers and the data need beyond
\* those that are there.
LEMMA TakenPages ==
    ASSUME NEW bs, Area(bs), NEW cs, Area(cs), Laid(bs), NEW a \in Free(bs), NEW s \in Nat, NEW r,
           TakenWhole(bs, cs, a, s) \/ TakenSplit(bs, cs, a, s, r),
           \A c \in DOMAIN bs : c # a => cs[c] = bs[c],
           ~cs[a].free, s = Room(cs[a]),
           NEW u, u = IF TakenSplit(bs, cs, a, s, r) THEN s + Header ELSE s,
           NEW k \in Nat
    PROVE  Touches(cs, k) <=> Touches(bs, k) \/ InAlloc(bs, k, a, u)
<1>1. a \in DOMAIN bs /\ bs[a].free /\ a \in DOMAIN cs
  BY TakenEnds DEF Free
<1>2. PICK b \in Nat, e \in Nat : b = Base(k) /\ e = EndOf(bs, a)
  BY <1>1, PageBounds, LaidFacts
<1>3. a \in Nat /\ Header \in Nat \ {0} /\ PageSize \in Nat \ {0} /\ a + Header <= e
  BY <1>1, <1>2, LaidFacts
<1>4. DOMAIN bs \subseteq DOMAIN cs
  BY TakenEnds
<1>5. ASSUME Touches(bs, k)
      PROVE  Touches(cs, k)
  <2>1. PICK c \in DOMAIN bs : UnderHeader(k, c) \/ (~bs[c].free /\ UnderData(bs, k, c))
    BY <1>5 DEF Touches
  <2>2. c # a => cs[c] = bs[c]
    OBVIOUS
  <2> QED BY <1>1, <1>4, <2>1, <2>2 DEF Touches, UnderData
<1>6. /\ UnderData(cs, k, a) <=> b < a + Header + s /\ a + Header < b + PageSize
      /\ UnderHeader(k, a) <=> b < a + Header /\ a < b + PageSize
      /\ \A x : InAlloc(bs, k, a, x) <=> a + Header <= b /\ b < a + Header + x /\ b + PageSize <= e
  BY <1>2 DEF UnderData, UnderHeader, InAlloc
<1>7. a + Header <= b /\ b < e /\ ~(b + PageSize <= e) => Touches(bs, k)
  BY <1>1, <1>2, <1>3, LastPageShared DEF Touches
<1>8. UnderHeader(k, a) => Touches(bs, k)
  BY <1>1 DEF Touches
<1>9. CASE TakenWhole(bs, cs, a, s) /\ ~TakenSplit(bs, cs, a, s, r)
  <2>1. u = s /\ DOMAIN cs = DOMAIN bs /\ a + Header + s <= e
    BY <1>2, <1>9 DEF TakenWhole
  <2>2. InAlloc(bs, k, a, s) => UnderData(cs, k, a)
    BY <1>3, <1>6
  <2>3. UnderData(cs, k, a) => Touches(bs, k) \/ InAlloc(bs, k, a, s)
    <3>1. b < a + Header + s /\ a + Header < b + PageSize
              => \/ a + Header <= b /\ b < e /\ ~(b + PageSize <= e)
                 \/ a + Header <= b /\ b < a + Header + s /\ b + PageSize <= e
                 \/ b < a + Header /\ a < b + PageSize
      BY <1>3, <2>1
    <3> QED BY <1>6, <1>7, <1>8, <3>1
  <2>4. UnderData(cs, k, a) => Touches(cs, k)
    BY <1>1 DEF Touches
  <2>5. Touches(cs, k) => Touches(bs, k) \/ UnderData(cs, k, a)
    BY <2>1 DEF Touches, UnderData
  <2> QED BY <1>5, <2>1, <2>2, <2>3, <2>4, <2>5
<1>10. CASE TakenSplit(bs, cs, a, s, r)
  <2>1. /\ u = s + Header /\ DOMAIN cs = DOMAIN bs \cup {r} /\ cs[r].free
        /\ r = a + Header + s /\ r + Header + 4 < e
    BY <1>2, <1>10 DEF TakenSplit
  <2>2. UnderHeader(k, r) <=> b < r + Header /\ r < b + PageSize
    BY <1>2 DEF UnderHeader
  <2>3. InAlloc(bs, k, a, u) => UnderData(cs, k, a) \/ UnderHeader(k, r)
    <3>1. a + Header <= b /\ b < a + Header + u
              => \/ b < a + Header + s /\ a + Header < b + PageSize
                 \/ b < r + Header /\ r < b + PageSize
      BY <1>3, <2>1
    <3> QED BY <1>6, <2>2, <3>1
  <2>4. UnderData(cs, k, a) \/ UnderHeader(k, r) => Touches(bs, k) \/ InAlloc(bs, k, a, u)
    <3>1. b < a + Header + s /\ a + Header < b + PageSize
              => \/ a + Header <= b /\ b < e /\ ~(b + PageSize <= e)
                 \/ a + Header <= b /\ b < a + Header + u /\ b + PageSize <= e
                 \/ b < a + Header /\ a < b + PageSize
      BY <1>3, <2>1
    <3>2. b < r + Header /\ r < b + PageSize
              => \/ a + Header <= b /\ b < e /\ ~(b + PageSize <= e)
                 \/ a + Header <= b /\ b < a + Header + u /\ b + PageSize <= e
                 \/ b < a + Header /\ a < b + PageSize
      BY <1>3, <2>1
    <3> QED BY <1>6, <1>7, <1>8, <2>2, <3>1, <3>2
  <2>5. UnderData(cs, k, a) \/ UnderHeader(k, r) => Touches(cs, k)
    BY <1>1, <2>1 DEF Touches
  <2>6. Touches(cs, k) => Touches(bs, k) \/ UnderData(cs, k, a) \/ UnderHeader(k, r)
    BY <2>1 DEF Touches, UnderData
  <2> QED BY <1>5, <2>3, <2>4, <2>5, <2>6
<1> QED BY <1>9, <1>10

-----------------------------------------------------------------------------
(* Freeing *)

\* A buffer that is marked free gives up the pages in its gap, which were all there.
LEMMA MarkedPages ==
    ASSUME NEW bs, Area(bs), Laid(bs), NEW a \in Used(bs),
           NEW cs, Area(cs), DOMAIN cs = DOMAIN bs, cs[a].free,
           \A c \in DOMAIN bs : c # a => cs[c] = bs[c],
           NEW k \in Nat
    PROVE  /\ Laid(cs)
           /\ Touches(cs, k) <=> Touches(bs, k) /\ ~InGap(bs, k, a)
           /\ InGap(bs, k, a) => Touches(bs, k)
<1>1. a \in DOMAIN bs /\ ~bs[a].free
  BY DEF Used
<1>2. \A c : EndOf(cs, c) = EndOf(bs, c)
  BY EndSame
<1>3. Laid(cs)
  <2>1. ASSUME NEW c \in DOMAIN cs
        PROVE  Whole(c) /\ c + Header <= EndOf(cs, c) /\ (~cs[c].free => Filled(cs, c))
    <3>1. Whole(c) /\ c + Header <= EndOf(bs, c) /\ (~bs[c].free => Filled(bs, c))
      BY DEF Laid
    <3>2. c # a => (Filled(bs, c) => Filled(cs, c))
      BY <1>2 DEF Filled
    <3> QED BY <1>2, <3>1, <3>2
  <2> QED BY <2>1 DEF Laid
<1>4. PICK b \in Nat, e \in Nat, s \in Nat : b = Base(k) /\ e = EndOf(bs, a) /\ s = Room(bs[a])
  BY <1>1, PageBounds, LaidFacts
<1>5. /\ a \in Nat /\ Header \in Nat \ {0} /\ PageSize \in Nat \ {0} /\ Header + 4 < PageSize
      /\ a + Header + s <= e /\ e <= a + Header + s + Header + 4
  BY <1>1, <1>4, LaidFacts DEF Laid, Filled
<1>6. /\ UnderData(bs, k, a) <=> b < a + Header + s /\ a + Header < b + PageSize
      /\ UnderHeader(k, a) <=> b < a + Header /\ a < b + PageSize
      /\ InGap(bs, k, a) <=> a + Header <= b /\ b + PageSize <= e
  BY <1>4 DEF UnderData, UnderHeader, InGap
<1>7. InGap(bs, k, a) => Touches(bs, k)
  <2>1. InGap(bs, k, a) => UnderData(bs, k, a)
    BY <1>5, <1>6
  <2> QED BY <1>1, <2>1 DEF Touches
<1>8. Touches(cs, k) => Touches(bs, k)
  BY <1>1 DEF Touches, UnderData
<1>9. Touches(cs, k) => ~InGap(bs, k, a)
  <2>1. InGap(cs, k, a) <=> InGap(bs, k, a)
    BY <1>2 DEF InGap
  <2> QED BY <1>1, <1>3, <2>1, GapIsOwn
<1>10. ASSUME Touches(bs, k), ~InGap(bs, k, a)
       PROVE  Touches(cs, k)
  <2>1. PICK c \in DOMAIN bs : UnderHeader(k, c) \/ (~bs[c].free /\ UnderData(bs, k, c))
    BY <1>10 DEF Touches
  <2>2. CASE UnderHeader(k, c) \/ c # a
    BY <2>1, <2>2 DEF Touches, UnderData
  <2>3. CASE c = a /\ UnderData(bs, k, a)
    <3>1. \/ UnderHeader(k, a)
          \/ b < e /\ e < b + PageSize
      BY <1>5, <1>6, <1>10, <2>3
    <3>2. CASE UnderHeader(k, a)
      BY <1>1, <3>2 DEF Touches
    <3>3. CASE b < e /\ e < b + PageSize
      <4>1. e \in DOMAIN bs /\ UnderHeader(k, e)
        BY <1>1, <1>4, <3>3, LastPageShared
      <4> QED BY <4>1 DEF Touches
    <3> QED BY <3>1, <3>2, <3>3
  <2> QED BY <2>1, <2>2, <2>3
<1> QED BY <1>3, <1>7, <1>8, <1>9, <1>10

\* binder_delete_free_buffer frees the pages of the header that it does not share with the
\* headers on either side.
LEMMA HeaderPagesAre ==
    ASSUME NEW bs, Area(bs), Laid(bs), NEW x \in DOMAIN bs, Before(bs, x) # {},
           NEW p, p = Max(Before(bs, x)), NEW n, n = EndOf(bs, x)
    PROVE  /\ HeaderPages(bs, x) \subseteq Nat
           /\ \A k \in Nat : k \in HeaderPages(bs, x)
                  <=> /\ UnderHeader(k, x)
                      /\ ~(Base(k) < p + Header)
                      /\ ~(n \in DOMAIN bs /\ n < Base(k) + PageSize)
<1>1. p \in DOMAIN bs /\ EndOf(bs, p) = x
  BY PrevFacts
<1>2. /\ x \in Nat /\ p \in Nat /\ n \in Nat /\ Header \in Nat \ {0} /\ PageSize \in Nat \ {0}
      /\ Header < PageSize /\ p + Header <= x /\ x + Header <= n
  BY <1>1, LaidFacts
<1>3. PICK y \in Nat, z \in Nat : y = p + Header - 1 /\ z = x + Header - 1
  BY <1>2
<1>4. PICK pe \in Nat, s \in Nat, e \in Nat, ns \in Nat :
          pe = PageDown(y) /\ s = PageDown(x) /\ e = PageDown(z) /\ ns = PageDown(n)
  BY <1>2, PageBounds
<1>5. /\ buffer_end_page(p) = pe /\ buffer_start_page(x) = s /\ buffer_end_page(x) = e
      /\ buffer_start_page(n) = ns
  BY <1>3, <1>4 DEF buffer_start_page, buffer_end_page
<1>6. ASSUME NEW k \in Nat
      PROVE  /\ s <= k <=> x < Base(k) + PageSize
             /\ k <= e <=> Base(k) < x + Header
             /\ k <= pe <=> Base(k) < p + Header
             /\ ns <= k <=> n < Base(k) + PageSize
  <2>1. PICK b \in Nat : b = Base(k)
    BY PageBounds
  <2>2. k <= e <=> b <= z
    BY <1>4, <2>1, PageBounds
  <2>3. k <= pe <=> b <= y
    BY <1>3, <1>4, <2>1, PageBounds
  <2>4. s <= k <=> x < b + PageSize
    BY <1>2, <1>4, <2>1, PageBounds
  <2>5. ns <= k <=> n < b + PageSize
    BY <1>2, <1>4, <2>1, PageBounds
  <2> QED BY <1>2, <1>3, <2>1, <2>2, <2>3, <2>4, <2>5
<1>7. pe <= s /\ s <= e /\ e <= s + 1 /\ e <= ns
  <2>1. PICK b \in Nat, c \in Nat, d \in Nat, f \in Nat :
            b = Base(s) /\ c = Base(pe) /\ d = Base(e) /\ f = Base(s + 1)
    <3>1. s + 1 \in Nat
      OBVIOUS
    <3>2. Base(s) \in Nat /\ Base(pe) \in Nat /\ Base(e) \in Nat /\ Base(s + 1) \in Nat
      BY <3>1, PageBounds
    <3> QED BY <3>2
  <2>2. f = b + PageSize
    BY <1>2, <2>1 DEF Base
  <2>3. s <= s /\ pe <= pe /\ e <= e /\ s + 1 \in Nat
    OBVIOUS
  <2>4. x < b + PageSize /\ b <= x
    BY <1>2, <1>4, <2>1, <2>3, PageBounds
  <2>5. c < p + Header /\ d < x + Header
    BY <1>6, <2>1, <2>3
  <2>6. pe <= s
    <3>1. pe <= s <=> y < b + PageSize
      BY <1>4, <2>1, PageBounds
    <3> QED BY <1>2, <1>3, <2>4, <3>1
  <2>7. s <= e
    <3>1. s <= e <=> b < x + Header
      BY <1>6, <2>1
    <3> QED BY <1>2, <2>4, <3>1
  <2>8. e <= s + 1
    <3>1. e <= s + 1 <=> z < f + PageSize
      BY <1>4, <2>1, <2>3, PageBounds
    <3> QED BY <1>2, <1>3, <2>2, <2>4, <3>1
  <2>9. e <= ns
    <3>1. e <= ns <=> d <= n
      BY <1>2, <1>4, <2>1, PageBounds
    <3> QED BY <1>2, <2>5, <3>1
  <2> QED BY <2>6, <2>7, <2>8, <2>9
<1> DEFINE fs == pe # s /\ ~(n \in DOMAIN bs /\ ns = e /\ ns = s)
           fe == ~(n \in DOMAIN bs /\ ns = e) /\ ~(pe = s /\ pe = e)
<1>8. HeaderPages(bs, x) = IF ~fs /\ ~fe THEN {} ELSE (IF fs THEN s ELSE e) .. (IF fe THEN e ELSE s)
  BY <1>4, <1>5 DEF HeaderPages
<1>9. ASSUME NEW k \in Nat
      PROVE  k \in HeaderPages(bs, x)
                  <=> s <= k /\ k <= e /\ ~(k <= pe) /\ ~(n \in DOMAIN bs /\ ns <= k)
  <2>1. CASE n \in DOMAIN bs
    BY <1>7, <1>8, <2>1
  <2>2. CASE n \notin DOMAIN bs
    BY <1>7, <1>8, <2>2
  <2> QED BY <2>1, <2>2
<1>10. HeaderPages(bs, x) \subseteq Nat
  BY <1>8
<1> QED BY <1>6, <1>9, <1>10 DEF UnderHeader

\* A free buffer after a free one leaves its header behind, and the pages only it needed.
LEMMA MergedPages ==
    ASSUME NEW bs, Area(bs), Laid(bs), NEW x \in Free(bs), MergesPrev(bs, x),
           NEW cs, cs = Removed(bs, x), Area(cs), NEW k \in Nat
    PROVE  /\ Laid(cs)
           /\ HeaderPages(bs, x) \subseteq Nat
           /\ Touches(cs, k) <=> Touches(bs, k) /\ k \notin HeaderPages(bs, x)
           /\ k \in HeaderPages(bs, x) => Touches(bs, k)
<1>1. PICK p, n : p = Max(Before(bs, x)) /\ n = EndOf(bs, x)
  OBVIOUS
<1>2. x \in DOMAIN bs /\ bs[x].free /\ Before(bs, x) # {}
  BY DEF Free, MergesPrev
<1>3. p \in DOMAIN bs /\ p # x /\ EndOf(bs, p) = x /\ bs[p].free
  BY <1>1, <1>2, PrevFacts DEF MergesPrev
<1>4. DOMAIN cs = DOMAIN bs \ {x} /\ \A c \in DOMAIN cs : cs[c] = bs[c]
  BY DEF Removed
<1>5. /\ x \in Nat /\ p \in Nat /\ n \in Nat /\ Header \in Nat \ {0} /\ PageSize \in Nat \ {0}
      /\ p + Header <= x /\ x + Header <= n
      /\ n # Total => n \in DOMAIN bs
      /\ \A c \in DOMAIN bs : c \in Nat /\ (c > x => n <= c) /\ (c > p => x <= c)
  BY <1>1, <1>2, <1>3, LaidFacts
<1>6. ASSUME NEW c \in DOMAIN cs
      PROVE  /\ c = p => EndOf(cs, c) = n
             /\ c # p => EndOf(cs, c) = EndOf(bs, c)
  <2>1. EndOf(cs, c) = IF EndOf(bs, c) = x THEN EndOf(bs, x) ELSE EndOf(bs, c)
    BY <1>2, <1>4, EndRemoved
  <2>2. c # p => EndOf(bs, c) # x
    BY <1>3, <1>4, OneBefore
  <2> QED BY <1>1, <1>3, <2>1, <2>2
<1>7. Laid(cs)
  <2>1. ASSUME NEW c \in DOMAIN cs
        PROVE  Whole(c) /\ c + Header <= EndOf(cs, c) /\ (~cs[c].free => Filled(cs, c))
    <3>1. /\ c \in DOMAIN bs /\ cs[c] = bs[c]
          /\ Whole(c) /\ c + Header <= EndOf(bs, c) /\ (~bs[c].free => Filled(bs, c))
      BY <1>4 DEF Laid
    <3>2. c # p => (Filled(bs, c) => Filled(cs, c))
      BY <1>6, <3>1 DEF Filled
    <3>3. c = p => c + Header <= EndOf(cs, c)
      BY <1>5, <1>6
    <3> QED BY <1>3, <1>6, <3>1, <3>2, <3>3
  <2> QED BY <2>1 DEF Laid
<1>8. /\ HeaderPages(bs, x) \subseteq Nat
      /\ k \in HeaderPages(bs, x)
             <=> /\ UnderHeader(k, x)
                 /\ ~(Base(k) < p + Header)
                 /\ ~(n \in DOMAIN bs /\ n < Base(k) + PageSize)
  BY <1>1, <1>2, HeaderPagesAre
<1>9. PICK b \in Nat : b = Base(k)
  BY PageBounds
<1>10. \A c : UnderHeader(k, c) <=> b < c + Header /\ c < b + PageSize
  BY <1>9 DEF UnderHeader
<1>11. k \in HeaderPages(bs, x) => Touches(bs, k)
  BY <1>2, <1>8 DEF Touches
<1>12. Touches(cs, k) => Touches(bs, k)
  BY <1>4 DEF Touches, UnderData
<1>13. ASSUME Touches(cs, k), k \in HeaderPages(bs, x)
       PROVE  FALSE
  <2>1. PICK c \in DOMAIN cs : UnderHeader(k, c) \/ (~cs[c].free /\ UnderData(cs, k, c))
    BY <1>13 DEF Touches
  <2>2. c \in DOMAIN bs /\ c # x /\ cs[c] = bs[c]
    BY <1>4
  <2>3. PICK f \in Nat, s \in Nat : f = EndOf(bs, c) /\ s = Room(bs[c])
    BY <2>2, LaidFacts
  <2>4. /\ c \in Nat /\ c + Header <= f /\ (~bs[c].free => c + Header + s <= f)
        /\ p > c => f <= p
    BY <1>3, <2>2, <2>3, LaidFacts
  <2>5. \/ b < c + Header /\ c < b + PageSize
        \/ ~bs[c].free /\ b < c + Header + s /\ c + Header < b + PageSize
    BY <1>9, <1>10, <2>1, <2>2, <2>3 DEF UnderData
  <2>6. b < x + Header /\ x < b + PageSize /\ p + Header <= b
    BY <1>5, <1>8, <1>9, <1>10, <1>13
  <2>7. n \in DOMAIN bs => b + PageSize <= n
    BY <1>5, <1>8, <1>9, <1>13
  <2>8. c < p \/ c = p \/ c > x
    BY <1>5, <2>2, <2>4
  <2>9. CASE c < p
    BY <1>5, <2>4, <2>5, <2>6, <2>9
  <2>10. CASE c = p
    BY <1>3, <1>5, <2>5, <2>6, <2>10
  <2>11. CASE c > x
    <3>1. n <= c /\ c < Total /\ Total \in Nat /\ n <= Total
      BY <1>1, <1>2, <2>2, <2>11, EndFacts, Sizes
    <3>2. n \in DOMAIN bs
      BY <1>5, <2>4, <3>1
    <3> QED BY <1>5, <2>4, <2>5, <2>7, <3>1, <3>2
  <2> QED BY <2>8, <2>9, <2>10, <2>11
<1>14. ASSUME Touches(bs, k), k \notin HeaderPages(bs, x)
       PROVE  Touches(cs, k)
  <2>1. PICK c \in DOMAIN bs : UnderHeader(k, c) \/ (~bs[c].free /\ UnderData(bs, k, c))
    BY <1>14 DEF Touches
  <2>2. CASE c # x
    BY <1>4, <2>1, <2>2 DEF Touches, UnderData
  <2>3. CASE c = x
    <3>1. UnderHeader(k, x)
      BY <1>2, <2>1, <2>3
    <3>2. b < x + Header /\ x < b + PageSize
      BY <1>10, <3>1
    <3>3. CASE b < p + Header
      <4>1. UnderHeader(k, p)
        BY <1>5, <1>10, <3>2, <3>3
      <4> QED BY <1>3, <1>4, <4>1 DEF Touches
    <3>4. CASE n \in DOMAIN bs /\ n < b + PageSize
      <4>1. UnderHeader(k, n) /\ n # x
        BY <1>5, <1>10, <3>2, <3>4
      <4> QED BY <1>4, <3>4, <4>1 DEF Touches
    <3> QED BY <1>8, <1>9, <1>14, <3>1, <3>3, <3>4
  <2> QED BY <2>2, <2>3
<1> QED BY <1>7, <1>8, <1>11, <1>12, <1>13, <1>14

-----------------------------------------------------------------------------
(* The steps and the pages *)

PagesInv ==
    /\ Laid(buffers)
    /\ PagesAre(buffers, pages)
    /\ ~bug

\* The bytes for which pages are allocated.
UsedBytes(a, s) == IF Splits(a, s) THEN s + Header ELSE s

LEMMA AllocRange ==
    ASSUME AllocInv, PagesInv, NEW a \in DOMAIN buffers, NEW s \in Nat
    PROVE  /\ FirstPage(a) .. LastPage(a, s) - 1 \subseteq Nat
           /\ \A k \in Nat : k \in FirstPage(a) .. LastPage(a, s) - 1
                  <=> InAlloc(buffers, k, a, UsedBytes(a, s))
<1>1. Area(buffers) /\ Laid(buffers)
  BY DEF AllocInv, PagesInv
<1>2. PICK e \in Nat : e = EndOf(buffers, a)
  BY <1>1, LaidFacts
<1>3. a \in Nat /\ Header \in Nat \ {0} /\ PageSize \in Nat \ {0} /\ a + Header <= e
  BY <1>1, <1>2, LaidFacts
<1>4. PICK x \in Nat, u \in Nat : x = a + Header /\ u = UsedBytes(a, s)
  BY <1>3 DEF UsedBytes
<1>5. PICK full : full = binder_buffer_size(buffers, a)
  OBVIOUS
<1>6. x + full = e
  BY <1>2, <1>3, <1>4, <1>5 DEF binder_buffer_size, DataOf
<1>7. PICK has \in Nat, end \in Nat : has = PageDown(e) /\ end = PageUp(x + u)
  <2>1. x + u \in Nat
    OBVIOUS
  <2> QED BY <2>1, PageBounds
<1>8. LastPage(a, s) = IF end > has THEN has ELSE end
  BY <1>4, <1>5, <1>6, <1>7 DEF LastPage, DataOf, UsedBytes
<1>9. PICK f \in Nat : f = FirstPage(a) /\ f = PageUp(x)
  BY <1>4, PageBounds DEF FirstPage, DataOf
<1>10. ASSUME NEW k \in Nat
       PROVE  k \in FirstPage(a) .. LastPage(a, s) - 1 <=> InAlloc(buffers, k, a, u)
  <2>1. PICK b \in Nat : b = Base(k)
    BY PageBounds
  <2>2. k < f <=> b < x
    BY <1>9, <2>1, PageBounds
  <2>3. k < end <=> b < x + u
    <3>1. x + u \in Nat
      OBVIOUS
    <3> QED BY <1>7, <2>1, <3>1, PageBounds
  <2>4. has <= k <=> e < b + PageSize
    BY <1>7, <2>1, PageBounds
  <2>5. k \in FirstPage(a) .. LastPage(a, s) - 1 <=> ~(k < f) /\ k < end /\ ~(has <= k)
    BY <1>7, <1>8, <1>9
  <2>6. InAlloc(buffers, k, a, u) <=> x <= b /\ b < x + u /\ b + PageSize <= e
    BY <1>2, <1>4, <2>1 DEF InAlloc
  <2> QED BY <1>3, <2>2, <2>3, <2>4, <2>5, <2>6
<1>11. FirstPage(a) .. LastPage(a, s) - 1 \subseteq Nat
  BY <1>7, <1>8, <1>9
<1> QED BY <1>4, <1>10, <1>11

\* The buffers after an allocation.
AllocBuffers(a, s, rec) ==
    IF Splits(a, s) THEN Inserted(Inserted(buffers, a, rec), a + Header + s, FreeBuf)
    ELSE Inserted(buffers, a, rec)

AllocRec(d, o, async) ==
    [free |-> FALSE, data_size |-> d, offsets_size |-> o, async |-> async]

\* cs is the buffers with the free one at a taken for the s bytes of rec.
AllocTaken(cs, a, s, r, rec) ==
    /\ a \in Free(buffers) /\ s \in Nat /\ s = Room(cs[a]) /\ cs[a] = rec
    /\ ~cs[a].free /\ SizeValid(cs[a].data_size, cs[a].offsets_size) /\ rec \in BufRec
    /\ \A c \in DOMAIN buffers : c # a => cs[c] = buffers[c]
    /\ Splits(a, s) => TakenSplit(buffers, cs, a, s, r)
    /\ ~Splits(a, s) => TakenWhole(buffers, cs, a, s) /\ ~TakenSplit(buffers, cs, a, s, r)
    /\ DOMAIN cs = IF Splits(a, s) THEN DOMAIN buffers \cup {r} ELSE DOMAIN buffers

LEMMA AllocTakes ==
    ASSUME AllocInv, Laid(buffers), NEW d \in Data, NEW o \in Offsets, NEW async \in BOOLEAN,
           NEW a \in DOMAIN free_buffers, Allocates(d, o, async, a),
           NEW s, s = Needed(d, o), NEW r, r = a + Header + s,
           NEW cs, cs = AllocBuffers(a, s, AllocRec(d, o, async))
    PROVE  AllocTaken(cs, a, s, r, AllocRec(d, o, async))
<1>1. a \in Free(buffers) /\ a \in DOMAIN buffers /\ Area(buffers)
  BY DEF AllocInv, Tree, Free
<1>2. d \in 0 .. SizeT - 1 /\ o \in 0 .. SizeT - 1
  BY AreaAssumption
<1>3. s \in Nat /\ SizeValid(d, o)
  BY <1>2, NeededNat DEF Allocates
<1>4. PICK rec \in BufRec :
          /\ rec = AllocRec(d, o, async) /\ rec.free = FALSE
          /\ rec.data_size = d /\ rec.offsets_size = o
  <2>1. AllocRec(d, o, async) \in BufRec
    BY <1>2 DEF BufRec, AllocRec
  <2> QED BY <2>1 DEF AllocRec
<1>5. PICK e \in Nat : e = EndOf(buffers, a)
  BY <1>1, LaidFacts
<1>6. a \in Nat /\ Header \in Nat \ {0} /\ a + Header <= e
  BY <1>1, <1>5, LaidFacts
<1>7. e - (a + Header) >= s
  BY <1>5 DEF Allocates, BestFit, binder_buffer_size, DataOf
<1>8. Splits(a, s) <=> e - (a + Header) # s /\ ~(s + Header + 4 >= e - (a + Header))
  BY <1>5 DEF Splits, binder_buffer_size, DataOf
<1>9. PICK bs : /\ bs = Inserted(buffers, a, rec)
                /\ DOMAIN bs = DOMAIN buffers /\ bs[a] = rec
                /\ \A c \in DOMAIN buffers : c # a => bs[c] = buffers[c]
  <2>1. PICK bs : bs = Inserted(buffers, a, rec)
    OBVIOUS
  <2>2. DOMAIN bs = DOMAIN buffers
    BY <1>1, <2>1 DEF Inserted
  <2>3. bs[a] = rec /\ \A c \in DOMAIN buffers : c # a => bs[c] = buffers[c]
    BY <1>1, <2>1 DEF Inserted
  <2> QED BY <2>1, <2>2, <2>3
<1>10. CASE Splits(a, s)
  <2>1. cs = Inserted(bs, r, FreeBuf)
    BY <1>4, <1>9, <1>10 DEF AllocBuffers
  <2>2. a < r /\ r < e
    BY <1>3, <1>6, <1>8, <1>10
  <2>3. r \notin DOMAIN buffers
    <3>1. r \in DOMAIN buffers => e <= r
      BY <1>1, <1>5, <2>2, LaidFacts
    <3>2. r \in Nat
      BY <1>3, <1>6
    <3> QED BY <2>2, <3>1, <3>2
  <2>4. /\ DOMAIN cs = DOMAIN buffers \cup {r} /\ cs[r] = FreeBuf /\ cs[a] = rec
        /\ \A c \in DOMAIN buffers : c # a => cs[c] = buffers[c]
    BY <1>1, <1>9, <2>1, <2>3 DEF Inserted
  <2>5. r + Header + 4 < e
    BY <1>3, <1>6, <1>8, <1>10
  <2>6. TakenSplit(buffers, cs, a, s, r)
    BY <1>5, <2>4, <2>5, FreeBufIs DEF TakenSplit
  <2> QED BY <1>1, <1>3, <1>4, <1>10, <2>4, <2>6 DEF Room, AllocTaken
<1>11. CASE ~Splits(a, s)
  <2>1. cs = bs
    BY <1>4, <1>9, <1>11 DEF AllocBuffers
  <2>2. a + Header + s <= e /\ e <= a + Header + s + Header + 4
    BY <1>3, <1>6, <1>7, <1>8, <1>11
  <2>3. TakenWhole(buffers, cs, a, s)
    BY <1>5, <1>9, <2>1, <2>2 DEF TakenWhole
  <2>4. ~(r + Header + 4 < e)
    BY <1>3, <1>6, <2>2
  <2>5. ~TakenSplit(buffers, cs, a, s, r)
    BY <1>5, <2>4 DEF TakenSplit
  <2> QED BY <1>1, <1>3, <1>4, <1>9, <1>11, <2>1, <2>3, <2>5 DEF Room, AllocTaken
<1> QED BY <1>10, <1>11

\* No page of the range that an allocation asks for is there already.
LEMMA RangeAbsent ==
    ASSUME AllocInv, PagesInv, NEW a \in Free(buffers), NEW s \in Nat,
           NEW k \in FirstPage(a) .. LastPage(a, s) - 1
    PROVE  k \in Nat /\ k \notin pages
<1>1. a \in DOMAIN buffers /\ buffers[a].free /\ Area(buffers) /\ Laid(buffers)
  BY DEF Free, AllocInv, PagesInv
<1>2. k \in Nat /\ InAlloc(buffers, k, a, UsedBytes(a, s))
  BY <1>1, AllocRange
<1>3. InGap(buffers, k, a)
  BY <1>2 DEF InAlloc, InGap
<1>4. ~Touches(buffers, k)
  BY <1>1, <1>2, <1>3, GapIsOwn
<1> QED BY <1>2, <1>4 DEF PagesInv, PagesAre

LEMMA AllocPagesStep ==
    ASSUME AllocInv, PagesInv, Area(buffers'), NEW d \in Data, NEW o \in Offsets,
           NEW async \in BOOLEAN, NEW a \in DOMAIN free_buffers, AllocBuf(d, o, async, a)
    PROVE  PagesInv'
<1>1. PICK s, r, cs : s = Needed(d, o) /\ r = a + Header + s
                      /\ cs = AllocBuffers(a, s, AllocRec(d, o, async))
  OBVIOUS
<1>2. Area(buffers) /\ Laid(buffers) /\ Allocates(d, o, async, a)
  BY DEF AllocInv, PagesInv, AllocBuf
<1>3. buffers' = cs
  BY <1>1 DEF AllocBuf, AllocBuffers, AllocRec, DataOf
<1>4. /\ a \in Free(buffers) /\ s \in Nat /\ s = Room(cs[a])
      /\ ~cs[a].free
      /\ SizeValid(cs[a].data_size, cs[a].offsets_size)
      /\ \A c \in DOMAIN buffers : c # a => cs[c] = buffers[c]
      /\ Splits(a, s) => TakenSplit(buffers, cs, a, s, r)
      /\ ~Splits(a, s) => TakenWhole(buffers, cs, a, s) /\ ~TakenSplit(buffers, cs, a, s, r)
  <2>1. AllocTaken(cs, a, s, r, AllocRec(d, o, async))
    BY <1>1, <1>2, AllocTakes
  <2> QED BY <2>1 DEF AllocTaken
<1>5. Laid(cs)
  BY <1>2, <1>3, <1>4, TakenLaid
<1>6. PICK R : R = FirstPage(a) .. LastPage(a, s) - 1
  OBVIOUS
<1>7. /\ R \subseteq Nat /\ R \cap pages = {}
      /\ \A k \in Nat : k \in R <=> InAlloc(buffers, k, a, UsedBytes(a, s))
  BY <1>4, <1>6, AllocRange, RangeAbsent DEF Free
<1>8. pages' = pages \cup R /\ bug' = (bug \/ pages \cap R # {})
  BY <1>1, <1>6 DEF AllocBuf, PagesAllocated
<1>9. ASSUME NEW k \in Nat
      PROVE  Touches(cs, k) <=> Touches(buffers, k) \/ InAlloc(buffers, k, a, UsedBytes(a, s))
  <2>1. UsedBytes(a, s) = IF TakenSplit(buffers, cs, a, s, r) THEN s + Header ELSE s
    BY <1>4 DEF UsedBytes
  <2> QED BY <1>2, <1>3, <1>4, <2>1, TakenPages
<1>10. PagesAre(cs, pages \cup R)
  BY <1>7, <1>9 DEF PagesAre, PagesInv
<1> QED BY <1>3, <1>5, <1>7, <1>8, <1>10 DEF PagesInv

\* The pages that were had before one was missing are given back, and no others.
LEMMA NoPageStep ==
    ASSUME AllocInv, PagesInv, NEW d \in Data, NEW o \in Offsets,
           NEW async \in BOOLEAN, NEW a \in DOMAIN free_buffers, AllocNoPage(d, o, async, a)
    PROVE  PagesInv'
<1>1. a \in Free(buffers) /\ d \in 0 .. SizeT - 1 /\ o \in 0 .. SizeT - 1
  BY AreaAssumption DEF AllocInv, Tree
<1>2. PICK s \in Nat : s = Needed(d, o)
  BY <1>1, NeededNat
<1>3. PICK k \in FirstPage(a) .. LastPage(a, s) - 1 :
          /\ bug' = (bug \/ pages \cap (FirstPage(a) .. k) # {})
          /\ pages' = PagesUndone(PagesAllocated(pages, FirstPage(a), k + 1), FirstPage(a), k)
  BY <1>2 DEF AllocNoPage
<1>4. FirstPage(a) \in Nat /\ LastPage(a, s) \in Int
  <2>1. a \in DOMAIN buffers /\ Area(buffers) /\ Laid(buffers)
    BY <1>1 DEF Free, AllocInv, PagesInv
  <2>2. a \in Nat /\ EndOf(buffers, a) \in Nat /\ Header \in Nat \ {0} /\ a + Header <= EndOf(buffers, a)
    BY <2>1, LaidFacts
  <2>3. PICK x \in Nat, e \in Nat : x = a + Header /\ e = EndOf(buffers, a)
    BY <2>2
  <2>4. PICK full : full = binder_buffer_size(buffers, a) /\ x + full = e
    BY <2>2, <2>3 DEF binder_buffer_size, DataOf
  <2>5. PageUp(x) \in Nat /\ PageDown(x + full) \in Nat /\ PageUp(x + s) \in Nat /\ PageUp(x + (s + Header)) \in Nat
    <3>1. x + s \in Nat /\ x + (s + Header) \in Nat /\ x + full \in Nat
      BY <2>2, <2>4
    <3> QED BY <3>1, PageBounds
  <2> QED BY <2>3, <2>4, <2>5 DEF FirstPage, LastPage, DataOf
<1>5. FirstPage(a) .. k \subseteq FirstPage(a) .. LastPage(a, s) - 1
  BY <1>4
<1>6. pages \cap (FirstPage(a) .. k) = {}
  BY <1>1, <1>5, RangeAbsent
<1>7. FirstPage(a) .. (k + 1) - 1 = FirstPage(a) .. k
  BY <1>4
<1>8. pages' = pages /\ ~bug'
  <2>1. PICK R : R = FirstPage(a) .. k
    OBVIOUS
  <2>2. PagesUndone(PagesAllocated(pages, FirstPage(a), k + 1), FirstPage(a), k) = (pages \cup R) \ R
    BY <1>7, <2>1 DEF PagesUndone, PagesAllocated
  <2>3. pages' = pages
    BY <1>3, <1>6, <2>1, <2>2
  <2>4. ~bug'
    BY <1>3, <1>6 DEF PagesInv
  <2> QED BY <2>3, <2>4
<1>9. buffers' = buffers
  BY DEF AllocNoPage
<1> QED BY <1>8, <1>9 DEF PagesInv

LEMMA FreePagesStep ==
    ASSUME AllocInv, PagesInv, NEW a \in Used(buffers), binder_free_buf(a)
    PROVE  PagesInv'
<1>1. PICK bs0, n, bs1 :
          /\ bs0 = [buffers EXCEPT ![a].free = TRUE]
          /\ n = EndOf(bs0, a)
          /\ bs1 = IF MergesNext(bs0, a) THEN Removed(bs0, n) ELSE bs0
  OBVIOUS
<1>2. PICK bs2 : bs2 = IF MergesPrev(bs1, a) THEN Removed(bs1, a) ELSE bs1
  OBVIOUS
<1>3. PICK data, hdrNext, hdr :
          /\ data = PageUp(DataOf(a)) .. PageDown(EndOf(buffers, a)) - 1
          /\ hdrNext = IF MergesNext(bs0, a) THEN HeaderPages(bs0, n) ELSE {}
          /\ hdr = IF MergesPrev(bs1, a) THEN HeaderPages(bs1, a) ELSE {}
  OBVIOUS
<1>4. /\ buffers' = bs2
      /\ pages' = ((pages \ data) \ hdrNext) \ hdr
      /\ bug' = \/ bug
                \/ Room(buffers[a]) > binder_buffer_size(buffers, a)
                \/ ~(data \subseteq pages)
                \/ ~(hdrNext \subseteq pages \ data)
                \/ ~(hdr \subseteq (pages \ data) \ hdrNext)
  BY <1>1, <1>2, <1>3 DEF binder_free_buf, Room
<1>5. /\ a \in DOMAIN buffers /\ ~buffers[a].free
      /\ Area(buffers) /\ Laid(buffers) /\ PagesAre(buffers, pages) /\ ~bug
  BY DEF Used, AllocInv, PagesInv
<1>6. /\ Area(bs0) /\ Tree(bs0, free_buffers, {a}) /\ a \in Free(bs0) /\ DOMAIN bs0 = DOMAIN buffers
      /\ bs0[a].free /\ \A c \in DOMAIN buffers : c # a => bs0[c] = buffers[c]
  <2>1. Area(bs0) /\ Tree(bs0, free_buffers, {a}) /\ a \in Free(bs0) /\ DOMAIN bs0 = DOMAIN buffers
    BY <1>1, MarkKeeps DEF AllocInv
  <2> QED BY <1>1, <2>1 DEF Free
<1>7. Room(buffers[a]) <= binder_buffer_size(buffers, a)
  BY <1>5, LaidFacts DEF binder_buffer_size, DataOf
<1>8. Laid(bs0) /\ PagesAre(bs0, pages \ data) /\ data \subseteq pages
  <2>1. data \subseteq Nat /\ \A k \in Nat : k \in data <=> InGap(buffers, k, a)
    <3>1. PICK x \in Nat, e \in Nat : x = a + Header /\ e = EndOf(buffers, a)
      BY <1>5, LaidFacts
    <3> QED BY <1>3, <3>1, InnerRange DEF InGap, DataOf
  <2>2. ASSUME NEW k \in Nat
        PROVE  /\ Laid(bs0)
               /\ Touches(bs0, k) <=> Touches(buffers, k) /\ ~InGap(buffers, k, a)
               /\ InGap(buffers, k, a) => Touches(buffers, k)
    BY <1>5, <1>6, MarkedPages
  <2>3. Laid(bs0)
    <3>1. 0 \in Nat
      OBVIOUS
    <3> QED BY <2>2, <3>1
  <2> QED BY <1>5, <2>1, <2>2, <2>3 DEF PagesAre
<1>9. /\ Area(bs1) /\ Laid(bs1) /\ PagesAre(bs1, (pages \ data) \ hdrNext)
      /\ hdrNext \subseteq pages \ data /\ a \in Free(bs1)
  <2>1. CASE ~MergesNext(bs0, a)
    BY <1>1, <1>3, <1>6, <1>8, <2>1 DEF PagesAre
  <2>2. CASE MergesNext(bs0, a)
    <3>1. n \in DOMAIN bs0 /\ bs0[n].free /\ bs1 = Removed(bs0, n) /\ hdrNext = HeaderPages(bs0, n)
      BY <1>1, <1>3, <2>2 DEF MergesNext
    <3>2. Area(bs1) /\ a \in Free(bs1)
      <4>1. Area(Removed(bs0, n)) /\ a \in Free(Removed(bs0, n))
        BY <1>1, <1>6, <2>2, MergeNextKeeps
      <4> QED BY <3>1, <4>1
    <3>3. MergesPrev(bs0, n)
      <4>1. a \in Nat /\ n \in Nat /\ a < n
        BY <1>1, <1>5, <1>6, EndFacts
      <4>2. Before(bs0, n) # {}
        BY <1>5, <1>6, <4>1 DEF Before
      <4>3. Max(Before(bs0, n)) \in DOMAIN bs0 /\ EndOf(bs0, Max(Before(bs0, n))) = n
        BY <1>6, <3>1, <4>2, PrevFacts
      <4>4. Max(Before(bs0, n)) = a
        BY <1>1, <1>5, <1>6, <4>3, OneBefore
      <4> QED BY <1>6, <4>2, <4>4 DEF MergesPrev
    <3>4. n \in Free(bs0)
      BY <3>1 DEF Free
    <3>5. ASSUME NEW k \in Nat
          PROVE  /\ Laid(bs1) /\ hdrNext \subseteq Nat
                 /\ Touches(bs1, k) <=> Touches(bs0, k) /\ k \notin hdrNext
                 /\ k \in hdrNext => Touches(bs0, k)
      BY <1>6, <1>8, <3>1, <3>2, <3>3, <3>4, MergedPages
    <3>6. Laid(bs1) /\ hdrNext \subseteq Nat
      <4>1. 0 \in Nat
        OBVIOUS
      <4> QED BY <3>5, <4>1
    <3> QED BY <1>8, <3>2, <3>5, <3>6 DEF PagesAre
  <2> QED BY <2>1, <2>2
<1>10. /\ Laid(bs2) /\ PagesAre(bs2, ((pages \ data) \ hdrNext) \ hdr)
       /\ hdr \subseteq (pages \ data) \ hdrNext
  <2>1. CASE ~MergesPrev(bs1, a)
    BY <1>2, <1>3, <1>9, <2>1 DEF PagesAre
  <2>2. CASE MergesPrev(bs1, a)
    <3>1. bs2 = Removed(bs1, a) /\ hdr = HeaderPages(bs1, a)
      BY <1>2, <1>3, <2>2
    <3>2. Area(bs2)
      BY <1>9, <3>1 DEF Area, Removed
    <3>3. ASSUME NEW k \in Nat
          PROVE  /\ Laid(bs2) /\ hdr \subseteq Nat
                 /\ Touches(bs2, k) <=> Touches(bs1, k) /\ k \notin hdr
                 /\ k \in hdr => Touches(bs1, k)
      BY <1>9, <2>2, <3>1, <3>2, MergedPages
    <3>4. Laid(bs2) /\ hdr \subseteq Nat
      <4>1. 0 \in Nat
        OBVIOUS
      <4> QED BY <3>3, <4>1
    <3> QED BY <1>9, <3>3, <3>4 DEF PagesAre
  <2> QED BY <2>1, <2>2
<1>11. ~(Room(buffers[a]) > binder_buffer_size(buffers, a))
  <2>1. Room(buffers[a]) \in Nat /\ binder_buffer_size(buffers, a) \in Int
    BY <1>5, LaidFacts DEF binder_buffer_size, DataOf
  <2> QED BY <1>7, <2>1
<1>12. ~bug'
  BY <1>4, <1>5, <1>8, <1>9, <1>10, <1>11
<1> QED BY <1>4, <1>10, <1>12 DEF PagesInv

LEMMA MmapPagesStep ==
    ASSUME AllocInv, PagesInv, Mmap, Area(buffers')
    PROVE  PagesInv'
<1>1. PICK bs : bs = Inserted(Empty, 0, FreeBuf) /\ DOMAIN bs = {0} /\ bs[0] = FreeBuf
  <2>1. PICK bs : bs = Inserted(Empty, 0, FreeBuf)
    OBVIOUS
  <2>2. DOMAIN bs = {0}
    BY <2>1 DEF Inserted, Empty
  <2>3. bs[0] = FreeBuf
    BY <2>1 DEF Inserted, Empty
  <2> QED BY <2>1, <2>2, <2>3
<1>2. buffers' = bs /\ pages' = {0} /\ bug' = bug
  BY <1>1 DEF Mmap
<1>3. EndOf(bs, 0) = Total
  <2>1. After(bs, 0) = {}
    BY <1>1 DEF After
  <2> QED BY <2>1 DEF EndOf
<1>4. /\ Total \in Nat \ {0} /\ Header \in Nat \ {0} /\ PageSize \in Nat \ {0} /\ Word \in Nat \ {0}
      /\ Header + 4 < PageSize
  BY Sizes, AreaAssumption
<1>5. Base(0) = 0
  BY <1>4 DEF Base
<1>6. Laid(bs)
  <2>1. Whole(0)
    BY <1>4 DEF Whole
  <2>2. PageSize <= Total
    BY <1>4, <1>5, BaseTotal
  <2>3. 0 + Header <= Total
    BY <1>4, <2>2
  <2> QED BY <1>1, <1>3, <2>1, <2>3, FreeBufIs DEF Laid
<1>7. ASSUME NEW k \in Nat
      PROVE  k \in {0} <=> Touches(bs, k)
  <2>1. Touches(bs, k) <=> UnderHeader(k, 0)
    BY <1>1, FreeBufIs DEF Touches
  <2>2. PICK b \in Nat : b = Base(k)
    BY PageBounds
  <2>3. UnderHeader(k, 0) <=> b < 0 + Header /\ 0 < b + PageSize
    BY <2>2 DEF UnderHeader
  <2>4. 0 < k => 0 + PageSize <= b
    BY <1>4, <2>2, MultipleOrder DEF Base
  <2>5. k = 0 => b = 0
    BY <1>5, <2>2
  <2> QED BY <1>4, <2>1, <2>3, <2>4, <2>5
<1>8. PagesAre(bs, {0})
  BY <1>7 DEF PagesAre
<1> QED BY <1>2, <1>6, <1>8 DEF PagesInv

LEMMA NoPages == Laid(Empty) /\ PagesAre(Empty, {})
BY DEF Laid, PagesAre, Touches, Empty

LEMMA SamePages ==
    ASSUME PagesInv, UNCHANGED <<buffers, pages, bug>>
    PROVE  PagesInv'
BY DEF PagesInv

LEMMA PagesNext ==
    ASSUME AllocInv, AllocInv', PagesInv, [Next]_vars
    PROVE  PagesInv'
<1>1. Area(buffers')
  BY DEF AllocInv
<1>2. CASE Mmap
  BY <1>1, <1>2, MmapPagesStep
<1>3. CASE VmaClose
  BY <1>3, SamePages DEF VmaClose
<1>4. CASE \E d \in Data, o \in Offsets, async \in BOOLEAN : \E a \in DOMAIN free_buffers :
               AllocBuf(d, o, async, a) \/ AllocNoPage(d, o, async, a)
  <2>1. PICK d \in Data, o \in Offsets, async \in BOOLEAN, a \in DOMAIN free_buffers :
               AllocBuf(d, o, async, a) \/ AllocNoPage(d, o, async, a)
    BY <1>4
  <2>2. CASE AllocBuf(d, o, async, a)
    BY <1>1, <2>2, AllocPagesStep
  <2>3. CASE AllocNoPage(d, o, async, a)
    BY <2>3, NoPageStep
  <2> QED BY <2>1, <2>2, <2>3
<1>5. CASE \E a \in DOMAIN buffers : FreeBuffer(a)
  <2>1. PICK a \in DOMAIN buffers : FreeBuffer(a)
    BY <1>5
  <2>2. a \in Used(buffers) /\ binder_free_buf(a)
    BY <2>1, AllocatedIs DEF FreeBuffer
  <2> QED BY <2>2, FreePagesStep
<1>6. CASE StartRelease
  BY <1>6, SamePages DEF StartRelease
<1>7. CASE ReleaseBuffer
  <2>1. PICK a \in Used(buffers) : a = Min(Allocated)
    BY <1>7, MinAllocated DEF ReleaseBuffer
  <2>2. binder_free_buf(a)
    BY <1>7, <2>1 DEF ReleaseBuffer
  <2> QED BY <2>2, FreePagesStep
<1>8. CASE ReleaseArea
  BY <1>8, NoPages DEF ReleaseArea, PagesInv
<1>9. CASE UNCHANGED vars
  BY <1>9, SamePages DEF vars
<1> QED BY <1>2, <1>3, <1>4, <1>5, <1>6, <1>7, <1>8, <1>9 DEF Next

-----------------------------------------------------------------------------
(* The space of one-way calls *)

\* What a one-way buffer takes of the space.
Takes(bs, c) == ALIGN(bs[c].data_size) + ALIGN(bs[c].offsets_size) + Header

OneWay(bs) == {c \in Used(bs) : bs[c].async}

\* One element for each byte that the buffers in S take.
Units(bs, S) == UNION {{c} \X (1 .. Takes(bs, c)) : c \in S}

Sum(bs, S) == MapThenSumSet(LAMBDA c : Takes(bs, c), S)

LEMMA TakesNat ==
    ASSUME NEW bs, Area(bs), NEW c \in DOMAIN bs
    PROVE  Takes(bs, c) \in Nat
<1>1. bs[c].data_size \in Nat /\ bs[c].offsets_size \in Nat
  BY Sizes DEF Area, BufRec
<1>2. ASSUME NEW x \in Nat
      PROVE  ALIGN(x) \in Nat
  <2>1. PICK u \in Nat : u = Up(x)
    BY UpFacts
  <2>2. ALIGN(x) = u % SizeT
    BY <2>1 DEF ALIGN, Up
  <2> QED BY <2>2, Sizes
<1>3. ALIGN(bs[c].data_size) \in Nat /\ ALIGN(bs[c].offsets_size) \in Nat /\ Header \in Nat
  BY <1>1, <1>2, Sizes
<1> QED BY <1>3 DEF Takes

LEMMA UnitsFacts ==
    ASSUME NEW bs, Area(bs), NEW S \in SUBSET DOMAIN bs
    PROVE  /\ IsFiniteSet(S) /\ Cardinality(Units(bs, S)) \in Nat
           /\ S = {} => Cardinality(Units(bs, S)) = 0
           /\ \A c \in S : Cardinality(Units(bs, S)) = Takes(bs, c) + Cardinality(Units(bs, S \ {c}))
<1>1. IsFiniteSet(DOMAIN bs)
  <2>1. Total \in Nat
    BY Sizes
  <2>2. IsFiniteSet(0 .. Total - 1)
    BY <2>1, FS_Interval
  <2> QED BY <2>2, FS_Subset DEF Area
<1>2. \A T \in SUBSET DOMAIN bs : IsFiniteSet(T)
  BY <1>1, FS_Subset
<1>3. ASSUME NEW c \in DOMAIN bs
      PROVE  /\ IsFiniteSet({c} \X (1 .. Takes(bs, c)))
             /\ Cardinality({c} \X (1 .. Takes(bs, c))) = Takes(bs, c)
  <2>1. PICK n \in Nat : n = Takes(bs, c)
    BY TakesNat
  <2>2. IsFiniteSet(1 .. n) /\ Cardinality(1 .. n) = n
    BY FS_Interval
  <2>3. IsFiniteSet({c}) /\ Cardinality({c}) = 1
    BY FS_Singleton
  <2>4. IsFiniteSet({c} \X (1 .. n)) /\ Cardinality({c} \X (1 .. n)) = Cardinality({c}) * Cardinality(1 .. n)
    BY <2>2, <2>3, FS_Product
  <2> QED BY <2>1, <2>2, <2>3, <2>4
<1>4. ASSUME NEW T \in SUBSET DOMAIN bs
      PROVE  IsFiniteSet(Units(bs, T))
  <2>1. PICK P : P = {{c} \X (1 .. Takes(bs, c)) : c \in T}
    OBVIOUS
  <2>2. IsFiniteSet(P)
    <3>1. PICK F : F = [c \in T |-> {c} \X (1 .. Takes(bs, c))]
      OBVIOUS
    <3>2. P = {F[c] : c \in T} /\ F \in [T -> P]
      BY <2>1, <3>1
    <3>3. F \in Surjection(T, P)
      BY <3>2 DEF Surjection
    <3>4. IsFiniteSet(T)
      BY <1>2
    <3> QED BY <3>3, <3>4, FS_Surjection
  <2>3. \A Q \in P : IsFiniteSet(Q)
    BY <1>3, <2>1
  <2>4. IsFiniteSet(UNION P)
    BY <2>2, <2>3, FS_UNION
  <2> QED BY <2>1, <2>4 DEF Units
<1>5. ASSUME NEW c \in S
      PROVE  Cardinality(Units(bs, S)) = Takes(bs, c) + Cardinality(Units(bs, S \ {c}))
  <2>1. PICK A, B : A = {c} \X (1 .. Takes(bs, c)) /\ B = Units(bs, S \ {c})
    OBVIOUS
  <2>2. Units(bs, S) = A \cup B
    BY <2>1 DEF Units
  <2>3. A \cap B = {}
    BY <2>1 DEF Units
  <2>4. IsFiniteSet(A) /\ Cardinality(A) = Takes(bs, c) /\ Takes(bs, c) \in Nat
    BY <1>3, <2>1, TakesNat
  <2>5. IsFiniteSet(B)
    BY <1>4, <2>1
  <2>6. Cardinality(A \cup B) = Cardinality(A) + Cardinality(B) - Cardinality({})
    BY <2>3, <2>4, <2>5, FS_Union
  <2>7. Cardinality({}) = 0 /\ Cardinality(B) \in Nat
    BY <2>5, FS_EmptySet, FS_CardinalityType
  <2> QED BY <2>1, <2>2, <2>4, <2>6, <2>7
<1>6. S = {} => Cardinality(Units(bs, S)) = 0
  <2>1. S = {} => Units(bs, S) = {}
    BY DEF Units
  <2> QED BY <2>1, FS_EmptySet
<1>7. Cardinality(Units(bs, S)) \in Nat
  BY <1>4, FS_CardinalityType
<1> QED BY <1>2, <1>5, <1>6, <1>7

\* The recursion that adds up what the buffers in S take.
Adds(bs, S, f) ==
    f = [s \in SUBSET S |->
            IF s = {} THEN 0
            ELSE Takes(bs, CHOOSE x \in s : TRUE) + f[s \ {CHOOSE x \in s : TRUE}]]

LEMMA SumIs ==
    ASSUME NEW bs, Area(bs), NEW S \in SUBSET DOMAIN bs
    PROVE  Sum(bs, S) = Cardinality(Units(bs, S))
<1>1. Sum(bs, S) = (CHOOSE f : Adds(bs, S, f))[S]
  BY DEF Sum, Adds, MapThenSumSet, MapThenFoldSet
<1> DEFINE g == [s \in SUBSET S |-> Cardinality(Units(bs, s))]
<1>2. Adds(bs, S, g)
  <2>1. ASSUME NEW s \in SUBSET S, s # {}, NEW x, x = CHOOSE y \in s : TRUE
        PROVE  x \in s /\ g[s] = Takes(bs, x) + g[s \ {x}]
    <3>1. x \in s /\ s \in SUBSET DOMAIN bs /\ s \ {x} \in SUBSET S
      BY <2>1
    <3>2. Cardinality(Units(bs, s)) = Takes(bs, x) + Cardinality(Units(bs, s \ {x}))
      BY <3>1, UnitsFacts
    <3> QED BY <3>1, <3>2
  <2>2. ASSUME NEW s \in SUBSET S, s = {}
        PROVE  g[s] = 0
    BY <2>2, UnitsFacts
  <2>3. ASSUME NEW s \in SUBSET S
        PROVE  g[s] = IF s = {} THEN 0
                      ELSE Takes(bs, CHOOSE x \in s : TRUE) + g[s \ {CHOOSE x \in s : TRUE}]
    <3>1. CASE s = {}
      BY <2>2, <3>1
    <3>2. CASE s # {}
      <4>1. PICK x : x = CHOOSE y \in s : TRUE
        OBVIOUS
      <4>2. g[s] = Takes(bs, x) + g[s \ {x}]
        BY <2>1, <3>2, <4>1
      <4> HIDE DEF g
      <4> QED BY <3>2, <4>1, <4>2
    <3> QED BY <3>1, <3>2
  <2>4. g = [s \in SUBSET S |-> g[s]]
    OBVIOUS
  <2> HIDE DEF g
  <2>5. [s \in SUBSET S |-> g[s]]
          = [s \in SUBSET S |->
                IF s = {} THEN 0
                ELSE Takes(bs, CHOOSE x \in s : TRUE) + g[s \ {CHOOSE x \in s : TRUE}]]
    BY <2>3, Zenon
  <2> QED BY <2>4, <2>5 DEF Adds
<1>3. PICK f : Adds(bs, S, f) /\ Sum(bs, S) = f[S]
  <2>1. Adds(bs, S, CHOOSE f : Adds(bs, S, f))
    BY <1>2, Zenon
  <2> QED BY <1>1, <2>1, Zenon
<1> DEFINE Bad == {Cardinality(s) : s \in {t \in SUBSET S : f[t] # Cardinality(Units(bs, t))}}
<1>4. Bad = {}
  <2>1. SUFFICES ASSUME Bad # {}
                 PROVE  FALSE
    OBVIOUS
  <2>2. \A s \in SUBSET S : IsFiniteSet(s) /\ Cardinality(s) \in Nat
    BY UnitsFacts, FS_CardinalityType
  <2>3. Bad \subseteq Nat
    BY <2>2
  <2>4. Min(Bad) \in Bad /\ \A y \in Bad : Min(Bad) <= y
    <3> HIDE DEF Bad
    <3> QED BY <2>1, <2>3, MinIn
  <2>5. PICK s \in SUBSET S : f[s] # Cardinality(Units(bs, s)) /\ Min(Bad) = Cardinality(s)
    BY <2>4
  <2>6. f[s] = IF s = {} THEN 0
               ELSE Takes(bs, CHOOSE x \in s : TRUE) + f[s \ {CHOOSE x \in s : TRUE}]
    BY <1>3 DEF Adds
  <2>7. s # {}
    BY <2>5, <2>6, UnitsFacts
  <2>8. PICK x \in s : x = CHOOSE y \in s : TRUE
    BY <2>7
  <2>9. f[s] = Takes(bs, x) + f[s \ {x}]
    BY <2>6, <2>7, <2>8
  <2>10. Cardinality(Units(bs, s)) = Takes(bs, x) + Cardinality(Units(bs, s \ {x}))
    BY UnitsFacts
  <2>11. f[s \ {x}] # Cardinality(Units(bs, s \ {x}))
    BY <2>5, <2>9, <2>10
  <2>12. Cardinality(s \ {x}) \in Bad
    BY <2>11
  <2>13. Cardinality(s \ {x}) = Cardinality(s) - 1
    BY <2>2, FS_RemoveElement
  <2>14. Cardinality(s) <= Cardinality(s \ {x})
    BY <2>4, <2>5, <2>12
  <2>15. Cardinality(s) \in Nat
    BY <2>2
  <2> QED BY <2>13, <2>14, <2>15
<1>5. f[S] = Cardinality(Units(bs, S))
  <2>1. f[S] # Cardinality(Units(bs, S)) => Cardinality(S) \in Bad
    OBVIOUS
  <2> QED BY <1>4, <2>1
<1> QED BY <1>3, <1>5

\* The bytes that the one-way buffers take.
Held(bs) == Cardinality(Units(bs, OneWay(bs)))

AsyncInv ==
    /\ free_async_space \in Nat
    /\ IF vma = "none" THEN free_async_space = 0
       ELSE free_async_space + Held(buffers) = Total \div 2

LEMMA HeldFacts ==
    ASSUME NEW bs, Area(bs)
    PROVE  Held(bs) \in Nat /\ (Used(bs) = {} => Held(bs) = 0)
<1>1. OneWay(bs) \in SUBSET DOMAIN bs /\ (Used(bs) = {} => OneWay(bs) = {})
  BY DEF OneWay, Used
<1> QED BY <1>1, UnitsFacts DEF Held

LEMMA HeldSame ==
    ASSUME NEW bs, NEW cs, NEW S \in SUBSET (DOMAIN bs \cap DOMAIN cs), \A c \in S : cs[c] = bs[c]
    PROVE  Units(cs, S) = Units(bs, S)
BY DEF Units, Takes

\* A buffer more in use takes its bytes if it is a one-way one.
LEMMA HeldMore ==
    ASSUME NEW bs, Area(bs), NEW cs, Area(cs), NEW a, Used(cs) = Used(bs) \cup {a}, a \notin Used(bs),
           \A c \in Used(bs) : cs[c] = bs[c]
    PROVE  Held(cs) = IF cs[a].async THEN Takes(cs, a) + Held(bs) ELSE Held(bs)
<1>1. Used(bs) \subseteq DOMAIN bs /\ Used(cs) \subseteq DOMAIN cs /\ a \in DOMAIN cs
  BY DEF Used
<1>2. OneWay(cs) = (IF cs[a].async THEN OneWay(bs) \cup {a} ELSE OneWay(bs)) /\ a \notin OneWay(bs)
  BY DEF OneWay
<1>3. Units(cs, OneWay(bs)) = Units(bs, OneWay(bs))
  <2>1. OneWay(bs) \in SUBSET (DOMAIN bs \cap DOMAIN cs) /\ \A c \in OneWay(bs) : cs[c] = bs[c]
    BY <1>1 DEF OneWay
  <2> QED BY <2>1, HeldSame
<1>4. CASE cs[a].async
  <2>1. OneWay(cs) \in SUBSET DOMAIN cs /\ a \in OneWay(cs) /\ OneWay(cs) \ {a} = OneWay(bs)
    BY <1>1, <1>2, <1>4 DEF OneWay
  <2>2. Cardinality(Units(cs, OneWay(cs))) = Takes(cs, a) + Cardinality(Units(cs, OneWay(cs) \ {a}))
    BY <2>1, UnitsFacts
  <2> QED BY <1>3, <1>4, <2>1, <2>2 DEF Held
<1>5. CASE ~cs[a].async
  BY <1>2, <1>3, <1>5 DEF Held
<1> QED BY <1>4, <1>5

\* What a buffer that was asked for d and o bytes takes.
LEMMA TakesRoom ==
    ASSUME NEW bs, Area(bs), NEW a \in DOMAIN bs, SizeValid(bs[a].data_size, bs[a].offsets_size)
    PROVE  Takes(bs, a) = Room(bs[a]) + Header
BY RoomIs DEF Takes

LEMMA AllocAsyncStep ==
    ASSUME AllocInv, Laid(buffers), AsyncInv, Area(buffers'), NEW d \in Data, NEW o \in Offsets,
           NEW async \in BOOLEAN, NEW a \in DOMAIN free_buffers, AllocBuf(d, o, async, a)
    PROVE  AsyncInv'
<1>1. PICK s, r, cs, rec : /\ s = Needed(d, o) /\ r = a + Header + s
                           /\ rec = AllocRec(d, o, async) /\ cs = AllocBuffers(a, s, rec)
  OBVIOUS
<1>2. Area(buffers) /\ Allocates(d, o, async, a)
  BY DEF AllocInv, AllocBuf
<1>3. buffers' = cs
  BY <1>1 DEF AllocBuf, AllocBuffers, AllocRec, DataOf
<1>4. AllocTaken(cs, a, s, r, rec)
  BY <1>1, <1>2, AllocTakes
<1>5. a \in Free(buffers) /\ s \in Nat /\ s = Room(cs[a]) /\ cs[a] = rec
  BY <1>4 DEF AllocTaken
<1>6. Used(cs) = Used(buffers) \cup {a} /\ a \notin Used(buffers)
      /\ \A c \in Used(buffers) : cs[c] = buffers[c]
  <2>1. \A c \in DOMAIN buffers : c # a => cs[c] = buffers[c]
    BY <1>4 DEF AllocTaken
  <2>2. ~cs[a].free
    BY <1>4 DEF AllocTaken
  <2>3. a \in DOMAIN buffers /\ buffers[a].free
    BY <1>5 DEF Free
  <2>4. CASE Splits(a, s)
    <3>1. DOMAIN cs = DOMAIN buffers \cup {r} /\ cs[r].free
      BY <1>4, <2>4 DEF AllocTaken, TakenSplit
    <3> QED BY <2>1, <2>2, <2>3, <3>1 DEF Used
  <2>5. CASE ~Splits(a, s)
    <3>1. DOMAIN cs = DOMAIN buffers
      BY <1>4, <2>5 DEF AllocTaken
    <3> QED BY <2>1, <2>2, <2>3, <3>1 DEF Used
  <2> QED BY <2>4, <2>5
<1>7. Takes(cs, a) = s + Header
  <2>1. SizeValid(cs[a].data_size, cs[a].offsets_size) /\ a \in DOMAIN cs
    BY <1>4, <1>6 DEF AllocTaken, Used
  <2> QED BY <1>3, <1>5, <2>1, TakesRoom
<1>8. Held(cs) = IF cs[a].async THEN Takes(cs, a) + Held(buffers) ELSE Held(buffers)
  BY <1>2, <1>3, <1>6, HeldMore
<1>9. cs[a].async = async
  BY <1>1, <1>5 DEF AllocRec
<1>10. vma = "open" /\ vma' = "open" /\ (async => free_async_space >= s + Header)
  BY <1>1, <1>2 DEF Allocates, AllocBuf, AsyncFits
<1>11. free_async_space' = IF async THEN free_async_space - (s + Header) ELSE free_async_space
  BY <1>1 DEF AllocBuf
<1>12. PICK h \in Nat, f \in Nat, t \in Nat : /\ h = Held(buffers) /\ f = free_async_space
                                              /\ t = Total \div 2 /\ f + h = t
  <2>1. Total \div 2 \in Nat
    BY Sizes, Division
  <2> QED BY <1>2, <1>10, <2>1, HeldFacts DEF AsyncInv
<1>13. Header \in Nat
  BY Sizes
<1>14. CASE async
  <2>1. Held(cs) = s + Header + h /\ free_async_space' = f - (s + Header) /\ f >= s + Header
    BY <1>7, <1>8, <1>9, <1>10, <1>11, <1>12, <1>14
  <2>2. free_async_space' \in Nat /\ free_async_space' + Held(cs) = t
    BY <1>5, <1>12, <1>13, <2>1
  <2> QED BY <1>3, <1>10, <1>12, <2>2 DEF AsyncInv
<1>15. CASE ~async
  <2>1. Held(cs) = h /\ free_async_space' = f
    BY <1>8, <1>9, <1>11, <1>12, <1>15
  <2> QED BY <1>3, <1>10, <1>12, <2>1 DEF AsyncInv
<1> QED BY <1>14, <1>15

LEMMA FreeAsyncStep ==
    ASSUME AllocInv, Laid(buffers), AsyncInv, NEW a \in Used(buffers), binder_free_buf(a), vma' = vma
    PROVE  AsyncInv'
<1>1. a \in DOMAIN buffers /\ ~buffers[a].free /\ Area(buffers)
  BY DEF Used, AllocInv
<1>2. Steps({a}) /\ Used(buffers') = Used(buffers) \ {a}
  BY FreeStep
<1>3. PICK bs : bs = buffers' /\ Area(bs)
  BY <1>2 DEF Steps
<1>4. /\ Used(buffers) = Used(bs) \cup {a} /\ a \notin Used(bs)
      /\ \A c \in Used(bs) : buffers[c] = bs[c]
  BY <1>2, <1>3 DEF Steps, Keeps
<1>5. Held(buffers) = IF buffers[a].async THEN Takes(buffers, a) + Held(bs) ELSE Held(bs)
  BY <1>1, <1>3, <1>4, HeldMore
<1>6. SizeValid(buffers[a].data_size, buffers[a].offsets_size)
  BY <1>1 DEF Laid, Filled
<1>7. PICK x \in Nat : x = Takes(buffers, a) /\ x = AsyncReturned(a)
  <2>1. Takes(buffers, a) = AsyncReturned(a)
    BY <1>1, <1>6, TakesRoom DEF AsyncReturned, Room
  <2> QED BY <1>1, <2>1, TakesNat
<1>8. free_async_space' = IF buffers[a].async THEN free_async_space + x ELSE free_async_space
  BY <1>7 DEF binder_free_buf
<1>9. vma # "none"
  BY <1>1 DEF AllocInv, Empty
<1>10. PICK h \in Nat, g \in Nat, f \in Nat, t \in Nat :
            /\ h = Held(buffers) /\ g = Held(bs) /\ f = free_async_space /\ t = Total \div 2
            /\ f + h = t
  <2>1. Total \div 2 \in Nat
    BY Sizes, Division
  <2> QED BY <1>1, <1>3, <1>9, <2>1, HeldFacts DEF AsyncInv
<1>11. CASE buffers[a].async
  <2>1. h = x + g /\ free_async_space' = f + x
    BY <1>5, <1>7, <1>8, <1>10, <1>11
  <2>2. free_async_space' \in Nat /\ free_async_space' + g = t
    BY <1>10, <2>1
  <2> QED BY <1>3, <1>9, <1>10, <2>2 DEF AsyncInv
<1>12. CASE ~buffers[a].async
  BY <1>3, <1>5, <1>8, <1>9, <1>10, <1>12 DEF AsyncInv
<1> QED BY <1>11, <1>12

LEMMA SameAsync ==
    ASSUME AsyncInv, UNCHANGED <<buffers, free_async_space>>, (vma = "none") = (vma' = "none")
    PROVE  AsyncInv'
BY DEF AsyncInv

LEMMA AsyncNext ==
    ASSUME AllocInv, AllocInv', Laid(buffers), AsyncInv, [Next]_vars
    PROVE  AsyncInv'
<1>1. Area(buffers) /\ Area(buffers')
  BY DEF AllocInv
<1>2. CASE Mmap
  <2>1. Used(buffers') = {}
    BY <1>2, FreeBufIs DEF Mmap, Used, Inserted, Empty
  <2>2. PICK t \in Nat : t = Total \div 2
    BY Sizes, Division
  <2>3. free_async_space' = t /\ vma' = "open"
    BY <1>2, <2>2 DEF Mmap
  <2>4. Held(buffers') = 0
    BY <1>1, <2>1, HeldFacts
  <2> QED BY <2>2, <2>3, <2>4 DEF AsyncInv
<1>3. CASE VmaClose
  BY <1>3, SameAsync DEF VmaClose
<1>4. CASE \E d \in Data, o \in Offsets, async \in BOOLEAN : \E a \in DOMAIN free_buffers :
               AllocBuf(d, o, async, a) \/ AllocNoPage(d, o, async, a)
  <2>1. PICK d \in Data, o \in Offsets, async \in BOOLEAN, a \in DOMAIN free_buffers :
               AllocBuf(d, o, async, a) \/ AllocNoPage(d, o, async, a)
    BY <1>4
  <2>2. CASE AllocBuf(d, o, async, a)
    BY <1>1, <2>2, AllocAsyncStep
  <2>3. CASE AllocNoPage(d, o, async, a)
    BY <2>3, SameAsync DEF AllocNoPage
  <2> QED BY <2>1, <2>2, <2>3
<1>5. CASE \E a \in DOMAIN buffers : FreeBuffer(a)
  <2>1. PICK a \in DOMAIN buffers : FreeBuffer(a)
    BY <1>5
  <2>2. a \in Used(buffers) /\ binder_free_buf(a) /\ vma' = vma
    BY <2>1, AllocatedIs DEF FreeBuffer
  <2> QED BY <2>2, FreeAsyncStep
<1>6. CASE StartRelease
  BY <1>6, SameAsync DEF StartRelease
<1>7. CASE ReleaseBuffer
  <2>1. PICK a \in Used(buffers) : a = Min(Allocated)
    BY <1>7, MinAllocated DEF ReleaseBuffer
  <2>2. binder_free_buf(a) /\ vma' = vma
    BY <1>7, <2>1 DEF ReleaseBuffer
  <2> QED BY <2>2, FreeAsyncStep
<1>8. CASE ReleaseArea
  <2>1. /\ Used(buffers) = {} /\ buffers' = Empty /\ vma' = vma
        /\ free_async_space' = free_async_space
    BY <1>8, AllocatedIs DEF ReleaseArea
  <2>2. Held(buffers) = 0 /\ Held(buffers') = 0
    BY <1>1, <2>1, EmptyTree, HeldFacts
  <2> QED BY <2>1, <2>2 DEF AsyncInv
<1>9. CASE UNCHANGED vars
  BY <1>9, SameAsync DEF vars
<1> QED BY <1>2, <1>3, <1>4, <1>5, <1>6, <1>7, <1>8, <1>9 DEF Next

Flags == vma \in {"none", "open", "closed"} /\ releasing \in BOOLEAN /\ bug \in BOOLEAN

LEMMA FlagsNext ==
    ASSUME Flags, [Next]_vars
    PROVE  Flags'
<1>1. \A a : binder_free_buf(a) => bug' \in BOOLEAN
  BY DEF binder_free_buf
<1>2. \A d, o, async, a : AllocBuf(d, o, async, a) => Flags'
  BY DEF AllocBuf, Flags
<1>3. \A d, o, async, a : AllocNoPage(d, o, async, a) => Flags'
  BY DEF AllocNoPage, Flags
<1>4. (\E a \in DOMAIN buffers : FreeBuffer(a)) \/ ReleaseBuffer => Flags'
  BY <1>1 DEF FreeBuffer, ReleaseBuffer, Flags
<1>5. Mmap \/ VmaClose \/ StartRelease \/ ReleaseArea \/ UNCHANGED vars => Flags'
  BY DEF Mmap, VmaClose, StartRelease, ReleaseArea, vars, Flags
<1> QED BY <1>2, <1>3, <1>4, <1>5 DEF Next

-----------------------------------------------------------------------------
\* The invariant of the whole area.
AreaInv == AllocInv /\ PagesInv /\ AsyncInv /\ Flags

LEMMA AreaSafe == Spec => []AreaInv
<1>1. ASSUME Init
      PROVE  AreaInv
  <2>1. AllocInv
    BY <1>1, AllocInvInit
  <2>2. PagesInv /\ AsyncInv /\ Flags
    BY <1>1, NoPages DEF Init, PagesInv, AsyncInv, Flags
  <2> QED BY <2>1, <2>2 DEF AreaInv
<1>2. ASSUME AreaInv, [Next]_vars
      PROVE  AreaInv'
  <2>1. AllocInv /\ PagesInv /\ AsyncInv /\ Flags /\ Laid(buffers)
    BY <1>2 DEF AreaInv, PagesInv
  <2>2. AllocInv'
    BY <1>2, <2>1, AllocInvNext
  <2> QED BY <1>2, <2>1, <2>2, PagesNext, AsyncNext, FlagsNext DEF AreaInv
<1>3. AreaInv /\ [Next]_vars => AreaInv'
  BY <1>2
<1> QED BY <1>1, <1>3, PTL DEF Spec

-----------------------------------------------------------------------------
(* The theorems *)

\* After every sequence of allocations, failed allocations, frees and merges, the tree of
\* free buffers that binder_alloc_buf searches holds exactly the buffers that are not in
\* use, each under the size it has now, and no two of them side by side.
THEOREM GapsInTree == Spec => []TreeSorted
<1>1. AllocInv => TreeSorted
  <2>1. DOMAIN buffers \ Used(buffers) = Free(buffers)
    BY DEF Used, Free
  <2> QED BY <2>1, AllocatedIs DEF AllocInv, TreeSorted, Tree
<1> QED BY <1>1, AllocSafe, PTL

\* No step of the allocator frees more than one buffer in use, and none touches the
\* record or the extent of another one: not the split in binder_alloc_buf, not the merges in
\* binder_free_buf, and not a page that cannot be had.
THEOREM OthersUntouched == Spec => Undisturbed
<1>1. ASSUME AllocInv, [Next]_vars
      PROVE  LeavesOthers
  <2>1. PICK X : Steps(X) /\ (X = {} \/ \E a \in Used(buffers) : X = {a})
    BY <1>1, NextStep
  <2>2. PICK U, V : U = Allocated /\ V = Allocated'
    OBVIOUS
  <2>3. U = Used(buffers) /\ V = Used(buffers')
    BY <2>2 DEF Allocated, Used
  <2>4. IsFiniteSet(X) /\ Cardinality(X) <= 1
    <3>1. CASE X = {}
      BY <3>1, FS_EmptySet
    <3>2. CASE \E a \in Used(buffers) : X = {a}
      BY <3>2, FS_Singleton
    <3> QED BY <2>1, <3>1, <3>2
  <2>5. U \ V \subseteq X
    BY <2>1, <2>3 DEF Steps
  <2>6. Cardinality(U \ V) <= 1
    <3>1. IsFiniteSet(U \ V) /\ Cardinality(U \ V) <= Cardinality(X)
      BY <2>4, <2>5, FS_Subset
    <3>2. Cardinality(U \ V) \in Nat /\ Cardinality(X) \in Nat
      BY <2>4, <3>1, FS_CardinalityType
    <3> QED BY <2>4, <3>1, <3>2
  <2>7. ASSUME NEW a \in U \cap V
        PROVE  buffers'[a] = buffers[a] /\ EndOf(buffers', a) = EndOf(buffers, a)
    <3>1. a \in Used(buffers) \ X
      BY <2>1, <2>3 DEF Steps
    <3> QED BY <2>1, <3>1 DEF Steps, Keeps
  <2> QED BY <2>2, <2>6, <2>7 DEF LeavesOthers
<1> QED BY <1>1, AllocSafe, PTL DEF Spec, Undisturbed

\* The buffers lie in the area, their headers at whole words and clear of each other; the
\* pages are pages of the area; and the space for one-way calls, which binder_alloc_buf
\* takes from and binder_free_buf gives back to, stays between nothing and half the area.
THEOREM AllocTypeCorrect == Spec => []TypeOK
<1>1. ASSUME AreaInv
      PROVE  TypeOK
  <2>1. /\ Area(buffers) /\ Laid(buffers) /\ Tree(buffers, free_buffers, {})
        /\ PagesAre(buffers, pages) /\ AsyncInv /\ Flags
    BY <1>1 DEF AreaInv, AllocInv, PagesInv
  <2>2. ASSUME NEW a \in DOMAIN buffers
        PROVE  /\ a \in 0 .. Total - Header /\ a % Word = 0
               /\ buffers[a] \in BufRec /\ binder_buffer_size(buffers, a) >= 0
    <3>1. /\ a \in Nat /\ Header \in Nat \ {0} /\ Total \in Nat
          /\ EndOf(buffers, a) \in Nat /\ a + Header <= EndOf(buffers, a) /\ EndOf(buffers, a) <= Total
      BY <2>1, LaidFacts
    <3>2. Whole(a)
      BY <2>1 DEF Laid
    <3>3. buffers[a] \in BufRec
      BY <2>1 DEF Area
    <3> QED BY <3>1, <3>2, <3>3, WholeFacts DEF binder_buffer_size, DataOf
  <2>3. DOMAIN free_buffers \subseteq DOMAIN buffers
    BY <2>1 DEF Tree, Free
  <2>4. free_async_space \in 0 .. Total \div 2
    <3>1. PICK h \in Nat, f \in Nat, t \in Nat :
              h = Held(buffers) /\ f = free_async_space /\ t = Total \div 2
      <4>1. Total \div 2 \in Nat
        BY Sizes, Division
      <4>2. Held(buffers) \in Nat /\ free_async_space \in Nat
        BY <2>1, HeldFacts DEF AsyncInv
      <4> QED BY <4>1, <4>2
    <3>2. f = 0 \/ f + h = t
      BY <2>1, <3>1 DEF AsyncInv
    <3> QED BY <3>1, <3>2
  <2>5. ASSUME NEW k \in pages
        PROVE  k \in Pages
    <3>1. k \in Nat /\ Touches(buffers, k)
      BY <2>1 DEF PagesAre
    <3>2. PICK c \in DOMAIN buffers :
              UnderHeader(k, c) \/ (~buffers[c].free /\ UnderData(buffers, k, c))
      BY <3>1 DEF Touches
    <3>3. PICK b \in Nat, e \in Nat, s \in Nat : b = Base(k) /\ e = EndOf(buffers, c) /\ s = Room(buffers[c])
      BY <2>1, <3>1, PageBounds, LaidFacts
    <3>4. /\ c \in Nat /\ Header \in Nat \ {0} /\ Total \in Nat /\ e <= Total
          /\ c + Header <= e /\ (~buffers[c].free => c + Header + s <= e)
      BY <2>1, <3>3, LaidFacts
    <3>5. b < c + Header \/ (~buffers[c].free /\ b < c + Header + s)
      BY <3>2, <3>3 DEF UnderHeader, UnderData
    <3>6. b < Total
      BY <3>3, <3>4, <3>5
    <3> QED BY <3>1, <3>3, <3>6, BaseTotal
  <2> QED BY <2>1, <2>2, <2>3, <2>4, <2>5 DEF TypeOK, Flags
<1> QED BY <1>1, AreaSafe, PTL

\* After every sequence of allocations, allocations that fail for want of a page, frees and
\* merges, the pages that are present are exactly those under a header or under data in use:
\* binder_update_page_range and binder_delete_free_buffer agree on which pages neighbours
\* share.
THEOREM PagesStayExact == Spec => []PagesExact
<1>1. ASSUME AreaInv
      PROVE  PagesExact
  <2>1. Area(buffers) /\ Laid(buffers) /\ PagesAre(buffers, pages)
    BY <1>1 DEF AreaInv, AllocInv, PagesInv
  <2>2. ASSUME NEW a \in DOMAIN buffers
        PROVE  /\ HeaderNeeds(a) \subseteq Nat
               /\ \A k \in Nat : k \in HeaderNeeds(a) <=> UnderHeader(k, a)
    BY <2>1, HeaderRange, LaidFacts
  <2>3. ASSUME NEW a \in Allocated
        PROVE  /\ DataNeeds(a) \subseteq Nat
               /\ \A k \in Nat : k \in DataNeeds(a) <=> UnderData(buffers, k, a)
    <3>1. a \in DOMAIN buffers /\ ~buffers[a].free
      BY DEF Allocated
    <3>2. SizeValid(buffers[a].data_size, buffers[a].offsets_size)
      BY <2>1, <3>1 DEF Laid, Filled
    <3>3. PICK x \in Nat, s \in Nat : x = a + Header /\ s = Room(buffers[a])
      BY <2>1, <3>1, LaidFacts
    <3>4. Room(buffers[a]) = Up(buffers[a].data_size) + Up(buffers[a].offsets_size)
      BY <2>1, <3>1, <3>2, RoomIs
    <3>5. buffers[a].data_size \in Nat /\ buffers[a].offsets_size \in Nat
      BY <2>1, <3>1, Sizes DEF Area, BufRec
    <3>6. Up(buffers[a].data_size) \in Nat /\ Up(buffers[a].offsets_size) \in Nat
      BY <3>5, UpFacts
    <3>7. WrittenEnd(a) = x + s
      BY <3>3, <3>4, <3>6 DEF WrittenEnd, DataOf, Up
    <3>8. DataNeeds(a) = PageDown(x) .. PageUp(x + s) - 1 /\ x + s \in Nat
      BY <3>3, <3>7 DEF DataNeeds, DataOf
    <3>9. \A k : UnderData(buffers, k, a) <=> Base(k) < x + s /\ x < Base(k) + PageSize
      BY <3>3 DEF UnderData
    <3> QED BY <3>8, <3>9, OuterRange
  <2>4. ASSUME NEW k \in Nat
        PROVE  Touches(buffers, k) <=> \/ \E a \in DOMAIN buffers : k \in HeaderNeeds(a)
                                       \/ \E a \in Allocated : k \in DataNeeds(a)
    BY <2>2, <2>3 DEF Touches, Allocated
  <2>5. PICK H, D : /\ H = UNION {HeaderNeeds(a) : a \in DOMAIN buffers}
                    /\ D = UNION {DataNeeds(a) : a \in Allocated}
    OBVIOUS
  <2>6. H \subseteq Nat /\ D \subseteq Nat
    BY <2>2, <2>3, <2>5
  <2>7. \A k \in Nat : k \in pages <=> k \in H \/ k \in D
    BY <2>1, <2>4, <2>5 DEF PagesAre
  <2>8. pages = H \cup D
    BY <2>1, <2>6, <2>7 DEF PagesAre
  <2>9. NoBug
    BY <1>1 DEF AreaInv, PagesInv, NoBug
  <2> QED BY <2>5, <2>8, <2>9 DEF PagesExact
<1> QED BY <1>1, AreaSafe, PTL

\* The space that is left for one-way calls is half of the area less what the one-way
\* buffers in use take: binder_free_buf gives back what binder_alloc_buf took.
THEOREM AsyncStaysAccounted == Spec => []AsyncAccounted
<1>1. ASSUME AreaInv
      PROVE  AsyncAccounted
  <2>1. Area(buffers) /\ AsyncInv
    BY <1>1 DEF AreaInv, AllocInv
  <2>2. OneWay(buffers) = {a \in Allocated : buffers[a].async} /\ OneWay(buffers) \in SUBSET DOMAIN buffers
    BY DEF OneWay, Used, Allocated
  <2>3. Sum(buffers, OneWay(buffers)) = Held(buffers)
    BY <2>1, <2>2, SumIs DEF Held
  <2>4. PICK S : S = OneWay(buffers)
    OBVIOUS
  <2>5. AsyncAccounted <=> (vma # "none" => free_async_space = Total \div 2 - Sum(buffers, S))
    BY <2>2, <2>4 DEF AsyncAccounted, Sum, MapThenSumSet, MapThenFoldSet, Takes
  <2>6. PICK h \in Nat, f \in Nat, t \in Nat :
            h = Held(buffers) /\ f = free_async_space /\ t = Total \div 2
    <3>1. Total \div 2 \in Nat
      BY Sizes, Division
    <3>2. Held(buffers) \in Nat /\ free_async_space \in Nat
      BY <2>1, HeldFacts DEF AsyncInv
    <3> QED BY <3>1, <3>2
  <2>7. vma # "none" => f = t - h
    BY <2>1, <2>6 DEF AsyncInv
  <2> QED BY <2>3, <2>4, <2>5, <2>6, <2>7
<1> QED BY <1>1, AreaSafe, PTL

=============================================================================
