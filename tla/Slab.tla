-------------------------------- MODULE Slab --------------------------------
(***************************************************************************)
(* The kernel heap, kmalloc and kfree of kernel/mm/mm.c: per size class a  *)
(* list of slabs of one or two pages, with a header that holds a free      *)
(* count and a bitmap of the slots in use.  Requests above the largest     *)
(* class go straight to the page allocator (module Buddy).                 *)
(*                                                                         *)
(* kfree finds the header from the address alone.  The second page of a    *)
(* two-page slab never heads a block of its own of order 1 (block heads of *)
(* order 1 have even page numbers), so its page_info order is never 1 and  *)
(* the step back to the first page is not taken: kfree reads the words of  *)
(* the object that happens to lie at the start of the second page.         *)
(***************************************************************************)
EXTENDS Integers, Sequences, FiniteSets

CONSTANTS
    PageSize,     \* PAGE_SIZE
    HdrSize,      \* SLAB_HDR_SZ
    BitmapBits,   \* 288, slots the bitmap can describe
    ObjSizes,     \* the size classes in use, of slab_sizes
    MaxSlabs,     \* bound: slabs the page allocator grants
    MaxLarge,     \* bound: blocks above the largest class at a time
    ClientsFree   \* whether clients call kfree at all

ASSUME SlabAssumption ==
    /\ PageSize \in Nat /\ HdrSize \in Nat /\ BitmapBits \in Nat \ {0}
    /\ ObjSizes \subseteq Nat \ {0}
    /\ \A c \in ObjSizes : HdrSize + c <= 2 * PageSize
    /\ {MaxSlabs, MaxLarge} \subseteq Nat /\ ClientsFree \in BOOLEAN

SlabPages(c) == IF c >= PageSize \div 2 THEN 2 ELSE 1
RawCapacity(c) == (SlabPages(c) * PageSize - HdrSize) \div c
Capacity(c) == IF RawCapacity(c) > BitmapBits THEN BitmapBits ELSE RawCapacity(c)
Slots(c) == 0..(Capacity(c) - 1)
AllSlots == UNION {Slots(c) : c \in ObjSizes}

VARIABLES
    slabs,        \* in order of creation: [size, free_count, bitmap]
    handed,       \* times an address, <<slab, slot>>, is with a client
    large,        \* blocks of the page allocator with clients
    misfreed      \* slabs with a page given to amm_phys_free while in use

vars == <<slabs, handed, large, misfreed>>

Init ==
    /\ slabs = <<>>
    /\ handed = [a \in (1..MaxSlabs) \X AllSlots |-> 0]
    /\ large = 0
    /\ misfreed = {}

-----------------------------------------------------------------------------
\* slab_new: the free count is taken before the capacity is cut down.
slab_new(c) == [size |-> c, free_count |-> RawCapacity(c), bitmap |-> {}]

\* Faulty: full slabs are not passed over.
WithRoomUnchecked(c) == {s \in DOMAIN slabs : slabs[s].size = c}

\* The slabs of class c the list search may stop at; the list is newest first.
WithRoom(c) == {s \in DOMAIN slabs : slabs[s].size = c /\ slabs[s].free_count # 0}

\* Faulty: the scan does not look at the bits.
FirstClearAlwaysZero(c, bitmap) == 0

\* The first clear bit, or slot 0 when the scan finds none.
FirstClear(c, bitmap) ==
    LET clear == Slots(c) \ bitmap
    IN  IF clear = {} THEN 0 ELSE CHOOSE i \in clear : \A j \in clear : i <= j

\* Take a slot of slab s of the list l.
Take(l, s) ==
    LET slot == FirstClear(l[s].size, l[s].bitmap)
    IN  /\ slabs' = [l EXCEPT ![s].free_count = @ - 1,
                              ![s].bitmap = @ \cup {slot}]
        /\ handed' = [handed EXCEPT ![<<s, slot>>] = @ + 1]

\* kmalloc: a slab with room, else a new one; NULL when no page is left.
Kmalloc(c) ==
    /\ \/ /\ WithRoom(c) # {}
          /\ Take(slabs, CHOOSE s \in WithRoom(c) : \A t \in WithRoom(c) : t <= s)
       \/ /\ WithRoom(c) = {} /\ Len(slabs) < MaxSlabs
          /\ Take(Append(slabs, slab_new(c)), Len(slabs) + 1)
    /\ UNCHANGED <<large, misfreed>>

Offset(c, slot) == HdrSize + slot * c

\* Whether kfree rounds the address of a slot down to its slab's header.
HeaderFound(s, slot) == Offset(slabs[s].size, slot) < PageSize

\* Clears the bit of a slot.
Cleared(s, slot) == [slabs EXCEPT ![s].free_count = @ + 1,
                                  ![s].bitmap = @ \ {slot}]

\* Faulty: no check for a second free.
KfreeUnchecked(s, slot) ==
    /\ s \in DOMAIN slabs /\ ClientsFree /\ slot \in Slots(slabs[s].size)
    /\ handed[<<s, slot>>] > 0 \/ slot \notin slabs[s].bitmap
    /\ HeaderFound(s, slot)
    /\ slabs' = Cleared(s, slot)
    /\ handed' = [handed EXCEPT ![<<s, slot>>] = IF @ > 0 THEN @ - 1 ELSE 0]
    /\ UNCHANGED <<large, misfreed>>

\* Faulty: the call returns before it clears the bit.
KfreeKeepsBit(s, slot) ==
    /\ s \in DOMAIN slabs /\ ClientsFree /\ slot \in Slots(slabs[s].size)
    /\ handed[<<s, slot>>] > 0 /\ HeaderFound(s, slot)
    /\ handed' = [handed EXCEPT ![<<s, slot>>] = @ - 1]
    /\ UNCHANGED <<slabs, large, misfreed>>

\* kfree of an address kmalloc returned, whose header is found: a slot whose
\* bit is clear already (a second free) is left alone.
Kfree(s, slot) ==
    /\ s \in DOMAIN slabs /\ ClientsFree /\ slot \in Slots(slabs[s].size)
    /\ handed[<<s, slot>>] > 0 \/ slot \notin slabs[s].bitmap
    /\ HeaderFound(s, slot)
    /\ slabs' = IF slot \in slabs[s].bitmap THEN Cleared(s, slot) ELSE slabs
    /\ handed' = [handed EXCEPT ![<<s, slot>>] = IF @ > 0 THEN @ - 1 ELSE 0]
    /\ UNCHANGED <<large, misfreed>>

\* kfree of an object in the second page: whatever the neighbouring object
\* stores there is taken for the header.  If it looks like one, its words are
\* taken for the bitmap; if not, the page goes to amm_phys_free.
KfreeSecondPage(s, slot) ==
    /\ s \in DOMAIN slabs /\ ClientsFree /\ slot \in Slots(slabs[s].size)
    /\ handed[<<s, slot>>] > 0
    /\ ~HeaderFound(s, slot)
    /\ handed' = [handed EXCEPT ![<<s, slot>>] = @ - 1]
    /\ \E looksLikeHeader \in BOOLEAN :
         misfreed' = IF looksLikeHeader THEN misfreed ELSE misfreed \cup {s}
    /\ UNCHANGED <<slabs, large>>

\* kmalloc above the largest class: a block of the page allocator.
KmallocLarge ==
    /\ large < MaxLarge
    /\ large' = large + 1
    /\ UNCHANGED <<slabs, handed, misfreed>>

\* kfree of such a block, the only page-aligned addresses kmalloc returns.
\* Whether its contents look like a header decides which of two branches
\* gives it back to the page allocator, not whether one does.
KfreeLarge ==
    /\ ClientsFree /\ large > 0
    /\ large' = large - 1
    /\ UNCHANGED <<slabs, handed, misfreed>>

Next ==
    \/ \E c \in ObjSizes : Kmalloc(c)
    \/ KmallocLarge \/ KfreeLarge
    \/ \E s \in 1..MaxSlabs, slot \in AllSlots :
          Kfree(s, slot) \/ KfreeSecondPage(s, slot)

Spec == Init /\ [][Next]_vars

-----------------------------------------------------------------------------
\* free_count is unsigned: kmalloc never takes it below 0.
TypeOK ==
    /\ slabs \in Seq([size : ObjSizes, free_count : Nat, bitmap : SUBSET AllSlots])
    /\ Len(slabs) <= MaxSlabs
    /\ handed \in [(1..MaxSlabs) \X AllSlots -> Nat]
    /\ large \in 0..MaxLarge
    /\ misfreed \subseteq 1..MaxSlabs

(***************************************************************************)
(* kmalloc never returns an address that a client still holds, whatever    *)
(* second frees came before.  Two cases are not told apart here: a slab    *)
(* page that kfree gave to the page allocator by mistake, and a second     *)
(* free that comes after the address went to another client, which the     *)
(* code takes for that client's own.                                       *)
(***************************************************************************)
NoDoubleHandout ==
    \A a \in DOMAIN handed : a[1] \notin misfreed => handed[a] <= 1

(***************************************************************************)
(* The free count kmalloc trusts is the number of clear bits it can find.  *)
(***************************************************************************)
FreeCountExact ==
    \A s \in DOMAIN slabs :
        slabs[s].free_count = Capacity(slabs[s].size) - Cardinality(slabs[s].bitmap)

(***************************************************************************)
(* A slot of the slab's first page is marked used exactly while a client   *)
(* holds it, through second frees as well; one of the second page is       *)
(* marked at least as long (BitmapExact is about how much longer).         *)
(***************************************************************************)
MarkedWhileHeld ==
    \A s \in DOMAIN slabs : \A i \in Slots(slabs[s].size) :
        /\ handed[<<s, i>>] > 0 => i \in slabs[s].bitmap
        /\ HeaderFound(s, i) /\ i \in slabs[s].bitmap => handed[<<s, i>>] > 0

(***************************************************************************)
(* Every slot that no client holds can be handed out again: kfree finds    *)
(* the header of every object (mm.c: "slabs are at most 2 pages, but       *)
(* always start at page boundary").                                        *)
(***************************************************************************)
BitmapExact ==
    \A s \in DOMAIN slabs :
        slabs[s].bitmap = {i \in Slots(slabs[s].size) : handed[<<s, i>>] > 0}
=============================================================================
