---------------------------- MODULE BinderAlloc ----------------------------
(***************************************************************************)
(* The buffer area of one process (driver/binder.c): binder_alloc_buf,     *)
(* binder_free_buf and the pages under the area.                           *)
(*                                                                         *)
(* The area is the addresses 0 .. Total-1.  A struct binder_buffer takes   *)
(* Header bytes at its address and its data follows, up to the next one.   *)
(* The list proc->buffers is the domain of buffers, in address order; the  *)
(* tree proc->free_buffers is the function that gives the size each of its *)
(* entries had when it was inserted.  Both run under binder_main_lock.     *)
(*                                                                         *)
(* A definition Name_Fault is a faulty variant of the definition Name that *)
(* follows it; the specification does not use it.                          *)
(***************************************************************************)
EXTENDS Integers, FiniteSets, FiniteSetsExt

CONSTANTS
    PageSize,  \* PAGE_SIZE
    Header,    \* sizeof(struct binder_buffer)
    Word,      \* sizeof(void *)
    Total,     \* proc->buffer_size
    SizeT,     \* 2^w for a size_t of w bits
    Data,      \* the data sizes that programs send
    Offsets    \* ... and the sizes of the offsets array

ASSUME AreaAssumption ==
    /\ {PageSize, Header, Word, Total, SizeT} \subseteq Nat \ {0}
    /\ PageSize % Word = 0 /\ Header % Word = 0
    /\ Total % PageSize = 0 /\ SizeT % Word = 0
    /\ Header + 4 < PageSize
    /\ 2 * Total <= SizeT
    /\ Data \cup Offsets \subseteq 0 .. SizeT - 1

VARIABLES
    vma,              \* "none", "open", "closed": proc->vma
    buffers,          \* proc->buffers and proc->allocated_buffers
    free_buffers,     \* proc->free_buffers
    free_async_space, \* proc->free_async_space
    pages,            \* the pages that are present, proc->pages
    releasing,        \* binder_deferred_release frees the buffers
    bug               \* a page is allocated twice, or freed when absent

vars == <<vma, buffers, free_buffers, free_async_space, pages, releasing, bug>>

Pages == 0 .. Total \div PageSize - 1
BufRec == [free: BOOLEAN, data_size: 0 .. SizeT - 1, offsets_size: 0 .. SizeT - 1,
           async: BOOLEAN]

FreeBuf == [free |-> TRUE, data_size |-> 0, offsets_size |-> 0, async |-> FALSE]

Empty == [a \in {} |-> 0]

Init ==
    /\ vma = "none"
    /\ buffers = Empty
    /\ free_buffers = Empty
    /\ free_async_space = 0
    /\ pages = {}
    /\ releasing = FALSE
    /\ bug = FALSE

-----------------------------------------------------------------------------
(* Helpers *)

ALIGN(n) == (((n + Word - 1) \div Word) * Word) % SizeT

\* buffer->data
DataOf(a) == a + Header

\* PAGE_ALIGN and PAGE_MASK, as page numbers.
PageUp(x) == (x + PageSize - 1) \div PageSize
PageDown(x) == x \div PageSize

After(bs, a) == {c \in DOMAIN bs : c > a}
Before(bs, a) == {c \in DOMAIN bs : c < a}

\* The end of the buffer at a: the next one, or the end of the area.
EndOf(bs, a) == IF After(bs, a) = {} THEN Total ELSE Min(After(bs, a))

binder_buffer_size(bs, a) == EndOf(bs, a) - DataOf(a)

\* The bytes a transaction needs, and the test for overflow.
Needed(data_size, offsets_size) == (ALIGN(data_size) + ALIGN(offsets_size)) % SizeT
SizeValid_Unchecked(data_size, offsets_size) == TRUE
SizeValid(data_size, offsets_size) ==
    LET size == Needed(data_size, offsets_size)
    IN ~(size < data_size \/ size < offsets_size)

Removed(f, a) == [c \in DOMAIN f \ {a} |-> f[c]]
Inserted(f, a, v) == [c \in DOMAIN f \cup {a} |-> IF c = a THEN v ELSE f[c]]

\* The pages under the header of the buffer at a.
buffer_start_page(a) == PageDown(a)
buffer_end_page(a) == PageDown(a + Header - 1)

-----------------------------------------------------------------------------
(* binder_update_page_range *)

\* Pages first .. last - 1 are allocated.
PagesAllocated(ps, first, last) == ps \cup first .. last - 1

\* The error path frees from page k, where the allocation stopped, down to the
\* first one.
PagesUndone(ps, first, k) == ps \ (first .. k)

-----------------------------------------------------------------------------
(* binder_mmap *)

\* The first page and one free buffer over the whole area.
Mmap ==
    /\ vma = "none"
    /\ ~releasing
    /\ vma' = "open"
    /\ pages' = {0}
    /\ buffers' = Inserted(Empty, 0, FreeBuf)
    /\ free_buffers' = Inserted(Empty, 0, Total - Header)
    /\ free_async_space' = Total \div 2
    /\ UNCHANGED <<releasing, bug>>

\* binder_vma_close: the program unmaps the area.
VmaClose ==
    /\ vma = "open"
    /\ vma' = "closed"
    /\ UNCHANGED <<buffers, free_buffers, free_async_space, pages, releasing, bug>>

-----------------------------------------------------------------------------
(* binder_alloc_buf *)

\* One-way calls may fill only half of the area.
AsyncFits(size, async) == async => free_async_space >= size + Header

\* The search in the tree: a free buffer of the least size that is enough.
BestFit(size) ==
    LET fits == {a \in DOMAIN free_buffers : binder_buffer_size(buffers, a) >= size}
    IN {a \in fits : \A c \in fits :
            binder_buffer_size(buffers, a) <= binder_buffer_size(buffers, c)}

\* The request is one that binder_alloc_buf serves from the buffer at a.
Allocates(d, o, async, a) ==
    /\ vma = "open"
    /\ ~releasing
    /\ SizeValid(d, o)
    /\ AsyncFits(Needed(d, o), async)
    /\ a \in BestFit(Needed(d, o))

\* Whether the rest of the buffer at a becomes a buffer of its own.
Splits(a, size) ==
    LET full == binder_buffer_size(buffers, a)
    IN full # size /\ ~(size + Header + 4 >= full)

\* The first page to allocate and the page after the last one: up to the end of
\* the new header, or to the page that the next buffer starts in.
FirstPage(a) == PageUp(DataOf(a))
LastPage(a, size) ==
    LET full == binder_buffer_size(buffers, a)
        used == IF Splits(a, size) THEN size + Header ELSE size
        has == PageDown(DataOf(a) + full)
        end == PageUp(DataOf(a) + used)
    IN IF end > has THEN has ELSE end

AllocBuf(d, o, async, a) ==
    LET size == Needed(d, o)
        rest == DataOf(a) + size
        rec == [free |-> FALSE, data_size |-> d, offsets_size |-> o, async |-> async]
        taken == Inserted(buffers, a, rec)
        split == Inserted(taken, rest, FreeBuf)
    IN /\ Allocates(d, o, async, a)
       /\ bug' = (bug \/ pages \cap (FirstPage(a) .. LastPage(a, size) - 1) # {})
       /\ pages' = PagesAllocated(pages, FirstPage(a), LastPage(a, size))
       /\ IF Splits(a, size)
          THEN /\ buffers' = split
               /\ free_buffers' = Inserted(Removed(free_buffers, a), rest,
                                           binder_buffer_size(split, rest))
          ELSE /\ buffers' = taken
               /\ free_buffers' = Removed(free_buffers, a)
       /\ free_async_space' = IF async THEN free_async_space - (size + Header)
                              ELSE free_async_space
       /\ UNCHANGED <<vma, releasing>>

\* There is no memory for page k of the range, or it cannot be mapped.
AllocNoPage(d, o, async, a) ==
    LET size == Needed(d, o)
        first == FirstPage(a)
    IN /\ Allocates(d, o, async, a)
       /\ \E k \in first .. LastPage(a, size) - 1 :
              /\ bug' = (bug \/ pages \cap (first .. k) # {})
              /\ pages' = PagesUndone(PagesAllocated(pages, first, k + 1), first, k)
       /\ UNCHANGED <<vma, buffers, free_buffers, free_async_space, releasing>>

-----------------------------------------------------------------------------
(* binder_free_buf *)

\* The pages binder_delete_free_buffer frees with the header of the buffer at a:
\* not one that it shares with the header before or after it.
HeaderPages(bs, a) ==
    LET prev == Max(Before(bs, a))
        next == {EndOf(bs, a)} \cap DOMAIN bs
        sharesPrev == buffer_end_page(prev) = buffer_start_page(a)
        sharesNext == \E n \in next : buffer_start_page(n) = buffer_end_page(a)
        freeStart == /\ ~sharesPrev
                     /\ ~\E n \in next : sharesNext /\ buffer_start_page(n) = buffer_start_page(a)
        freeEnd == /\ ~sharesNext
                   /\ ~(sharesPrev /\ buffer_end_page(prev) = buffer_end_page(a))
    IN IF ~freeStart /\ ~freeEnd THEN {}
       ELSE (IF freeStart THEN buffer_start_page(a) ELSE buffer_end_page(a)) ..
            (IF freeEnd THEN buffer_end_page(a) ELSE buffer_start_page(a))

\* The tree entry of a merged neighbour leaves the tree.
TreeWithout_Stale(tree, a) == tree
TreeWithout(tree, a) == Removed(tree, a)

\* The bytes that a one-way buffer gives back.
AsyncReturned_NoHeader(a) ==
    Needed(buffers[a].data_size, buffers[a].offsets_size)
AsyncReturned(a) ==
    Needed(buffers[a].data_size, buffers[a].offsets_size) + Header

\* The buffer after, or before, the one at a is free too.
MergesNext_Unchecked(bs, a) == EndOf(bs, a) \in DOMAIN bs
MergesNext(bs, a) == EndOf(bs, a) \in DOMAIN bs /\ bs[EndOf(bs, a)].free
MergesPrev(bs, a) == Before(bs, a) # {} /\ bs[Max(Before(bs, a))].free

\* The buffer at a is freed and merged with the one after and the one before it.
binder_free_buf(a) ==
    LET data == PageUp(DataOf(a)) .. PageDown(EndOf(buffers, a)) - 1
        bs0 == [buffers EXCEPT ![a].free = TRUE]
        mergeNext == MergesNext(bs0, a)
        n == EndOf(bs0, a)
        hdrNext == IF mergeNext THEN HeaderPages(bs0, n) ELSE {}
        bs1 == IF mergeNext THEN Removed(bs0, n) ELSE bs0
        tree1 == IF mergeNext THEN TreeWithout(free_buffers, n) ELSE free_buffers
        p == Max(Before(bs1, a))
        mergePrev == MergesPrev(bs1, a)
        hdr == IF mergePrev THEN HeaderPages(bs1, a) ELSE {}
        bs2 == IF mergePrev THEN Removed(bs1, a) ELSE bs1
        tree2 == IF mergePrev THEN TreeWithout(tree1, p) ELSE tree1
        merged == IF mergePrev THEN p ELSE a
        size == Needed(buffers[a].data_size, buffers[a].offsets_size)
    IN /\ buffers' = bs2
       /\ free_buffers' = Inserted(tree2, merged, binder_buffer_size(bs2, merged))
       /\ pages' = ((pages \ data) \ hdrNext) \ hdr
       /\ free_async_space' = IF buffers[a].async THEN free_async_space + AsyncReturned(a)
                              ELSE free_async_space
       /\ bug' = \/ bug
                 \/ size > binder_buffer_size(buffers, a)
                 \/ ~(data \subseteq pages)
                 \/ ~(hdrNext \subseteq pages \ data)
                 \/ ~(hdr \subseteq (pages \ data) \ hdrNext)

Allocated == {a \in DOMAIN buffers : ~buffers[a].free}

\* BC_FREE_BUFFER, or a transaction that fails after its allocation.
FreeBuffer(a) ==
    /\ a \in Allocated
    /\ ~releasing
    /\ binder_free_buf(a)
    /\ UNCHANGED <<vma, releasing>>

-----------------------------------------------------------------------------
(* binder_deferred_release *)

\* The open file is released, after its mapping is closed: the mapping holds
\* a reference to the file (BUG_ON(proc->vma)).
StartRelease ==
    /\ ~releasing
    /\ vma # "open"
    /\ releasing' = TRUE
    /\ UNCHANGED <<vma, buffers, free_buffers, free_async_space, pages, bug>>

\* The allocated buffers are freed in the order of their addresses.
ReleaseBuffer ==
    /\ releasing
    /\ Allocated # {}
    /\ binder_free_buf(Min(Allocated))
    /\ UNCHANGED <<vma, releasing>>

\* Then the pages that are left, and the area.
ReleaseArea ==
    /\ releasing
    /\ Allocated = {}
    /\ buffers # Empty
    /\ pages' = {}
    /\ buffers' = Empty
    /\ free_buffers' = Empty
    /\ UNCHANGED <<vma, free_async_space, releasing, bug>>

-----------------------------------------------------------------------------
Next ==
    \/ Mmap
    \/ VmaClose
    \/ \E d \in Data, o \in Offsets, async \in BOOLEAN : \E a \in DOMAIN free_buffers :
           AllocBuf(d, o, async, a) \/ AllocNoPage(d, o, async, a)
    \/ \E a \in DOMAIN buffers : FreeBuffer(a)
    \/ StartRelease
    \/ ReleaseBuffer
    \/ ReleaseArea

Spec == Init /\ [][Next]_vars

-----------------------------------------------------------------------------
(* Properties *)

\* Every variable keeps its type, buffers lie in the area at aligned addresses,
\* and their headers do not overlap.
TypeOK ==
    /\ vma \in {"none", "open", "closed"}
    /\ DOMAIN buffers \subseteq {a \in 0 .. Total - Header : a % Word = 0}
    /\ \A a \in DOMAIN buffers : buffers[a] \in BufRec /\ binder_buffer_size(buffers, a) >= 0
    /\ DOMAIN free_buffers \subseteq DOMAIN buffers
    /\ free_async_space \in 0 .. Total \div 2
    /\ pages \subseteq Pages
    /\ releasing \in BOOLEAN
    /\ bug \in BOOLEAN

\* The end of the data and the offsets that a sender puts into the buffer at a, as it
\* gave their sizes: sums that do not wrap around.
WrittenEnd(a) ==
    LET Up(n) == ((n + Word - 1) \div Word) * Word
    IN DataOf(a) + Up(buffers[a].data_size) + Up(buffers[a].offsets_size)

\* The pages of the header of the buffer at a, and those its data touches.
HeaderNeeds(a) == buffer_start_page(a) .. buffer_end_page(a)
DataNeeds(a) == PageDown(DataOf(a)) .. PageUp(WrittenEnd(a)) - 1

\* binder_update_page_range never finds a page that it allocates present (BUG_ON(*page)), nor
\* one that it frees absent, and a buffer is never smaller than the request it was taken
\* for (BUG_ON(size > buffer_size)): the ranges that are computed at an allocation and at a
\* free agree, though the neighbours have changed in between.
NoBug == ~bug

\* The pages that are present are exactly those under a header or under the data
\* of an allocated buffer: no page is missing where the driver or the program
\* writes, and none stays behind, whatever was split, merged, or failed before,
\* and whichever sizes a sender gave; and every step that led here found the pages it
\* allocates absent and those it frees present.
PagesExact ==
    /\ NoBug
    /\ pages = (UNION {HeaderNeeds(a) : a \in DOMAIN buffers})
               \cup (UNION {DataNeeds(a) : a \in Allocated})

\* The tree holds the gaps between the buffers in use, each in one piece and under the
\* size it has now.  The search computes the sizes anew, so an entry whose size changed
\* after its insertion would be in the wrong place; and a gap in two pieces would fail
\* requests there is room for.
TreeSorted ==
    /\ DOMAIN free_buffers = DOMAIN buffers \ Allocated
    /\ \A a \in DOMAIN free_buffers :
          /\ free_buffers[a] = binder_buffer_size(buffers, a)
          /\ EndOf(buffers, a) \notin DOMAIN free_buffers

\* The space left for one-way calls is half of the area less what the one-way
\* buffers take, whichever way each of them was freed.
AsyncAccounted ==
    LET Takes(a) == ALIGN(buffers[a].data_size) + ALIGN(buffers[a].offsets_size) + Header
    IN vma # "none" =>
           free_async_space = Total \div 2
               - MapThenSumSet(Takes, {a \in Allocated : buffers[a].async})

\* A step frees at most one allocated buffer and leaves the others alone.
LeavesOthers ==
    /\ Cardinality(Allocated \ Allocated') <= 1
    /\ \A a \in Allocated \cap Allocated' :
          /\ buffers'[a] = buffers[a]
          /\ EndOf(buffers', a) = EndOf(buffers, a)

\* An allocated buffer stays where it is, with its data and its size, until it
\* is freed itself: allocations and merges around it do not touch it.
Undisturbed == [][LeavesOthers]_vars
=============================================================================
