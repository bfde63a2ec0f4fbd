------------------------------- MODULE Buddy -------------------------------
(***************************************************************************)
(* The physical page allocator of kernel/mm/mm.c after the switch of CR3:  *)
(* amm_phys_init fills the free lists from the boot memory map,            *)
(* amm_phys_alloc splits a block, amm_phys_free merges one with its        *)
(* buddies.  Both run under g_phys.lock.  Addresses are page numbers and   *)
(* an exclusive or with a block size is an addition or a subtraction.      *)
(*                                                                         *)
(* A free list is kept as the set of its blocks: which block of an order   *)
(* is at its head is left open.  page_info records what the code writes    *)
(* there, and only that: entries of merged or split blocks go stale.       *)
(***************************************************************************)
EXTENDS Integers, FiniteSets, FiniteSetsExt

CONSTANTS
    MaxOrder,     \* MAX_ORDER
    Top,          \* the pages that page_info has an entry for
    Regions,      \* the ASD_MEM_FREE ranges without the bump pool: <<base, pages>>
    MaxAllocs     \* bound: blocks allocated at the same time

Orders == 0..MaxOrder
Pages == 0..(Top - 1)

ASSUME BuddyAssumption ==
    /\ MaxOrder \in Nat /\ Top \in Nat /\ MaxAllocs \in Nat
    /\ Top % 2^MaxOrder = 0
    /\ \A r \in Regions : r[1] \in Pages /\ r[2] \in Nat /\ r[1] + r[2] <= Top

Size(o) == 2^o
Block(p, o) == p..(p + Size(o) - 1)
BuddyOf(p, o) == IF (p \div Size(o)) % 2 = 0 THEN p + Size(o) ELSE p - Size(o)

\* phys_free_range: from the front, the highest order that fits and is aligned.
phys_free_range(base, pages) ==
    LET Fits(i, o) == i + Size(o) <= pages /\ (base + i) % Size(o) = 0
        From[i \in 0..pages] ==
            IF i = pages THEN {}
            ELSE LET o == Max({k \in Orders : k = 0 \/ Fits(i, k)})
                 IN  {<<base + i, o>>} \cup From[i + Size(o)]
    IN  From[0]

InitialBlocks == UNION {phys_free_range(r[1], r[2]) : r \in Regions}

VARIABLES
    lists,        \* g_phys.lists: order -> set of page numbers
    free_pages,
    page_info,    \* [flags, order] of every page
    allocated     \* the blocks clients hold: <<page, order>>

vars == <<lists, free_pages, page_info, allocated>>

Info(f, o) == [flags |-> f, order |-> o]

Init ==
    /\ lists = [o \in Orders |-> {b[1] : b \in {c \in InitialBlocks : c[2] = o}}]
    /\ free_pages = MapThenSumSet(LAMBDA b : Size(b[2]), InitialBlocks)
    /\ page_info = [p \in Pages |->
                       IF \E o \in Orders : <<p, o>> \in InitialBlocks
                       THEN Info("FREE", CHOOSE o \in Orders :
                                            <<p, o>> \in InitialBlocks)
                       ELSE Info("NONE", 0)]
    /\ allocated = {}

-----------------------------------------------------------------------------
\* Faulty: the order of a freed block is not recorded.
phys_free_block_no_order(info, p, o) == [info EXCEPT ![p].flags = "FREE"]

\* Faulty: the order recorded is that of the next merge.
phys_free_block_next_order(info, p, o) == [info EXCEPT ![p] = Info("FREE", o + 1)]

\* phys_free_block, its entry of page_info.
phys_free_block(info, p, o) == [info EXCEPT ![p] = Info("FREE", o)]

\* Faulty: the whole block is listed along with its halves.
HalvesOneTooMany(p, order, o) == {<<BuddyOf(p, k), k>> : k \in order..o}

\* Faulty: the last split loses its upper half.
HalvesOneTooFew(p, order, o) ==
    {<<BuddyOf(p, k), k>> : k \in (order + 1)..(o - 1)}

\* The upper halves when a block of order o is split down to order.
Halves(p, order, o) == {<<BuddyOf(p, k), k>> : k \in order..(o - 1)}

\* amm_phys_alloc: the lowest order with a free block; the upper halves of
\* the splits go to the lists of the orders below it.
Alloc(order) ==
    /\ Cardinality(allocated) < MaxAllocs
    /\ \E o \in Orders :
        /\ o >= order /\ lists[o] # {}
        /\ \A k \in order..(o - 1) : lists[k] = {}
        /\ \E p \in lists[o] :
            LET halves == Halves(p, order, o)
            IN  /\ lists' = [k \in Orders |->
                               IF k = o THEN lists[k] \ {p}
                               ELSE lists[k] \cup
                                    {b[1] : b \in {h \in halves : h[2] = k}}]
                /\ free_pages' = free_pages - Size(o)
                                 + MapThenSumSet(LAMBDA b : Size(b[2]), halves)
                /\ page_info' = [q \in Pages |->
                     IF q = p THEN Info("ALLOC", order)
                     ELSE IF \E h \in halves : h[1] = q
                     THEN Info("FREE", CHOOSE k \in Orders :
                                          <<q, k>> \in halves)
                     ELSE page_info[q]]
                /\ allocated' = allocated \cup {<<p, order>>}

\* amm_phys_alloc with every list from order on empty: 0.
AllocFails(order) ==
    /\ \A o \in Orders : o >= order => lists[o] = {}
    /\ UNCHANGED vars

\* Faulty: merging stops an order early.
MergesTooLittle(p, k) ==
    /\ k < MaxOrder - 1
    /\ page_info[BuddyOf(p - (p % Size(k)), k)] = Info("FREE", k)

\* The block of order k that holds page p, and whether the loop of
\* amm_phys_free goes on from it: its buddy is marked free with that order.
HeadAt(p, k) == p - (p % Size(k))
Merges(p, k) ==
    /\ k < MaxOrder
    /\ page_info[BuddyOf(HeadAt(p, k), k)] = Info("FREE", k)

\* Faulty: the pages of the buddies taken off the lists are counted twice.
FreedPagesNoUnlink(found, last) == Size(last)

\* Change of free_pages: the merged block comes, the unlinked buddies go.
FreedPages(found, last) == Size(last) - MapThenSumSet(Size, found)

\* amm_phys_free of a block a client holds.
Free(p, order) ==
    LET last == Min({k \in Orders : k >= order /\ ~Merges(p, k)})
        Unlinked(k) == IF k \in order..(last - 1)
                       THEN {BuddyOf(HeadAt(p, k), k)} \cap lists[k] ELSE {}
        found == {k \in Orders : Unlinked(k) # {}}
        head == HeadAt(p, last)
    IN  /\ <<p, order>> \in allocated
        /\ allocated' = allocated \ {<<p, order>>}
        /\ lists' = [k \in Orders |->
                        (lists[k] \ Unlinked(k)) \cup
                        (IF k = last THEN {head} ELSE {})]
        /\ free_pages' = free_pages + FreedPages(found, last)
        /\ page_info' = phys_free_block(page_info, head, last)

Next ==
    \/ \E o \in Orders : Alloc(o) \/ AllocFails(o)
    \/ \E p \in Pages, o \in Orders : Free(p, o)

Spec == Init /\ [][Next]_vars

-----------------------------------------------------------------------------
TypeOK ==
    /\ lists \in [Orders -> SUBSET Pages]
    /\ free_pages \in 0..Top
    /\ page_info \in [Pages -> [flags : {"NONE", "FREE", "ALLOC"},
                                order : Orders]]
    /\ allocated \subseteq Pages \X Orders

FreeBlocks == {b \in Pages \X Orders : b[1] \in lists[b[2]]}
Managed == UNION {Block(b[1], b[2]) : b \in InitialBlocks}

(***************************************************************************)
(* No page is in two blocks: what amm_phys_alloc hands out belongs to no   *)
(* other client and to no free list, through any splitting and merging.    *)
(***************************************************************************)
Disjoint ==
    \A b, c \in FreeBlocks \cup allocated :
        b # c => Block(b[1], b[2]) \cap Block(c[1], c[2]) = {}

(***************************************************************************)
(* No page is lost and none invented: free and allocated blocks cover      *)
(* exactly the pages of the memory map.                                    *)
(***************************************************************************)
Covered ==
    UNION {Block(b[1], b[2]) : b \in FreeBlocks \cup allocated} = Managed

(***************************************************************************)
(* free_pages, which mm_get_meminfo reports, is the size of the lists.     *)
(***************************************************************************)
FreePagesExact ==
    free_pages = MapThenSumSet(LAMBDA b : Size(b[2]), FreeBlocks)

\* The free blocks that could merge with their buddy.
Apart == {b \in FreeBlocks : /\ b[2] < MaxOrder
                             /\ BuddyOf(b[1], b[2]) \in lists[b[2]]}

(***************************************************************************)
(* amm_phys_free merges as far as it can.  phys_free_range never merges    *)
(* across two entries of the memory map, so boot leaves free buddies       *)
(* apart; no call adds to them, and a pair once merged stays merged or in  *)
(* use, so memory does not break up further than it was at boot.           *)
(***************************************************************************)
Coalesced == [][Apart' \subseteq Apart]_vars

(***************************************************************************)
(* A stale page_info entry that still says FREE lies strictly inside a     *)
(* larger block, where no buddy test looks: every block head in a list or  *)
(* with a client is described by its own entry.                            *)
(***************************************************************************)
InfoExact ==
    /\ \A b \in FreeBlocks : page_info[b[1]] = Info("FREE", b[2])
    /\ \A b \in allocated : page_info[b[1]] = Info("ALLOC", b[2])
    /\ \A p \in Pages, k \in Orders :
         page_info[p] = Info("FREE", k) /\ p \notin lists[k] =>
            \E b \in FreeBlocks \cup allocated :
                b[2] > k /\ b[1] < p /\ p < b[1] + Size(b[2])
=============================================================================
