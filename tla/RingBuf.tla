------------------------------ MODULE RingBuf ------------------------------
(***************************************************************************)
(* The single-producer single-consumer ring buffer of                      *)
(* kernel/ipc/ringbuf.h, which backs IPC ports, pipes and driver queues.   *)
(* Every access one side makes to memory the other side also touches is a  *)
(* step of its own: the load of the opposite index, each unit of the       *)
(* memcpy between a slot and the caller's buffer, the store that publishes *)
(* the new index.  The acquire/release pairs of the code order these steps *)
(* as written, so interleaving them is what the two sides can observe.     *)
(*                                                                         *)
(* The 64-bit indices are unbounded here: they count calls and do not wrap *)
(* within any reachable number of them.  Sizes are counted in copy units.  *)
(***************************************************************************)
EXTENDS Integers, Sequences

CONSTANTS
    SlotCount,    \* slots of the ring
    SlotSize,     \* units of a slot
    Data,         \* values of one unit
    Zero,         \* what ringbuf_init's memset leaves in a unit
    Items,        \* the messages producers offer
    BufSizes,     \* the buffer sizes consumers pass
    MaxBatch,     \* bound: largest n of a batch call
    MaxSent       \* bound: messages the producer offers in one behaviour

is_pow2(n) == \E k \in 0..n : n = 2^k

ASSUME RingAssumption ==
    /\ SlotCount \in Nat /\ SlotCount >= 2 /\ is_pow2(SlotCount)
    /\ SlotSize \in Nat \ {0}
    /\ Zero \in Data
    /\ Items \subseteq Seq(Data) /\ <<>> \notin Items
    /\ BufSizes \subseteq Nat \ {0}
    /\ MaxBatch \in Nat /\ MaxSent \in Nat

VARIABLES
    mem,          \* data[]: the slots
    write_idx,    \* rb->write_idx, stored by the producer only
    read_idx,     \* rb->read_idx, stored by the consumer only
    ppc,          \* where the producer is in ringbuf_push or _push_batch
    pbatch,       \* the call in progress is ringbuf_push_batch
    pitems,       \* the items the caller passed
    psize,        \* size (item_size) of each of them
    pwidx,        \* local widx
    pn,           \* number of items this call copies
    pi, pk,       \* items copied, units of the current item copied
    cpc,          \* where the consumer is in ringbuf_pop or _pop_batch
    cbatch,       \* the call in progress is ringbuf_pop_batch
    cwant,        \* the n the caller passed
    csize,        \* size of the caller's buffer for one item
    cridx,        \* local ridx
    cn,           \* number of items this call takes
    cbuf, cpart,  \* the caller's buffer: whole items, units of the next one
    sent,         \* history: messages published
    rcvd          \* history: messages returned to the consumer

ring == <<mem, write_idx, read_idx>>
pvars == <<ppc, pbatch, pitems, psize, pwidx, pn, pi, pk>>
cvars == <<cpc, cbatch, cwant, csize, cridx, cn, cbuf, cpart>>
vars == <<ring, pvars, cvars, sent, rcvd>>

Slots == 0..(SlotCount - 1)
SlotOf(i) == i % SlotCount

Min2(a, b) == IF a <= b THEN a ELSE b

\* ringbuf_init
Init ==
    /\ mem = [s \in Slots |-> [k \in 1..SlotSize |-> Zero]]
    /\ write_idx = 0 /\ read_idx = 0
    /\ ppc = "idle" /\ pbatch = FALSE /\ pitems = <<>> /\ psize = 1
    /\ pwidx = 0 /\ pn = 0 /\ pi = 0 /\ pk = 0
    /\ cpc = "idle" /\ cbatch = FALSE /\ cwant = 0 /\ csize = 1
    /\ cridx = 0 /\ cn = 0 /\ cbuf = <<>> /\ cpart = <<>>
    /\ sent = <<>> /\ rcvd = <<>>

-----------------------------------------------------------------------------
(* The producer. *)

\* Entry of ringbuf_push (one item) or ringbuf_push_batch: load write_idx.
PushCall(items, size, batch) ==
    /\ ppc = "idle"
    /\ batch \/ Len(items) = 1
    /\ pbatch' = batch
    /\ pitems' = items
    /\ psize' = size
    /\ pwidx' = write_idx
    /\ pn' = 0 /\ pi' = 0 /\ pk' = 0
    /\ ppc' = "load"
    /\ UNCHANGED <<ring, cvars, sent, rcvd>>

\* Faulty: the count of free slots is one too high.
PushLoadOneTooMany ==
    /\ ppc = "load" /\ psize <= SlotSize
    /\ pn' = Min2(SlotCount + 1 - (pwidx - read_idx), Len(pitems))
    /\ ppc' = IF pn' = 0 THEN "store" ELSE "copy"
    /\ UNCHANGED <<ring, pbatch, pitems, psize, pwidx, pi, pk, cvars, sent,
                   rcvd>>

\* Faulty: the index is stored before the data is copied.
PushLoadPublishesFirst ==
    /\ ppc = "load" /\ psize <= SlotSize
    /\ pn' = Min2(SlotCount - (pwidx - read_idx), Len(pitems))
    /\ ppc' = "store"
    /\ UNCHANGED <<ring, pbatch, pitems, psize, pwidx, pi, pk, cvars, sent,
                   rcvd>>

\* Load read_idx and decide: a full ring or an oversized item ends the call.
PushLoad ==
    LET avail == SlotCount - (pwidx - read_idx)
    IN  /\ ppc = "load"
        /\ \/ /\ ~pbatch /\ avail = 0
              /\ ppc' = "idle"
              /\ UNCHANGED pn
           \/ /\ psize > SlotSize
              /\ ppc' = "idle"
              /\ UNCHANGED pn
           \/ /\ psize <= SlotSize
              /\ pbatch \/ avail # 0
              /\ pn' = Min2(avail, Len(pitems))
              /\ ppc' = IF pn' = 0 THEN "store" ELSE "copy"
        /\ UNCHANGED <<ring, pbatch, pitems, psize, pwidx, pi, pk, cvars,
                       sent, rcvd>>

\* Faulty: the copy loop does not advance.
PushCopyStuck ==
    /\ ppc = "copy"
    /\ mem' = [mem EXCEPT ![SlotOf(pwidx + pi)][pk + 1] =
                              pitems[pi + 1][pk + 1]]
    /\ UNCHANGED <<write_idx, read_idx, pvars, cvars, sent, rcvd>>

\* One unit of the memcpy into slot (widx + i) & (slot_count - 1).
PushCopy ==
    /\ ppc = "copy"
    /\ mem' = [mem EXCEPT ![SlotOf(pwidx + pi)][pk + 1] =
                              pitems[pi + 1][pk + 1]]
    /\ IF pk + 1 < psize
       THEN pk' = pk + 1 /\ UNCHANGED <<pi, ppc>>
       ELSE /\ pk' = 0
            /\ pi' = pi + 1
            /\ ppc' = IF pi + 1 = pn THEN "store" ELSE "copy"
    /\ UNCHANGED <<write_idx, read_idx, pbatch, pitems, psize, pwidx, pn,
                   cvars, sent, rcvd>>

\* The releasing store of write_idx publishes the items.
PushStore ==
    /\ ppc = "store"
    /\ write_idx' = pwidx + pn
    /\ sent' = sent \o SubSeq(pitems, 1, pn)
    /\ ppc' = "idle"
    /\ UNCHANGED <<mem, read_idx, pbatch, pitems, psize, pwidx, pn, pi, pk,
                   cvars, rcvd>>

-----------------------------------------------------------------------------
(* The consumer. *)

\* Entry of ringbuf_pop (n = 1) or ringbuf_pop_batch: load read_idx.
PopCall(n, size, batch) ==
    /\ cpc = "idle"
    /\ batch \/ n = 1
    /\ cbatch' = batch
    /\ cwant' = n
    /\ csize' = size
    /\ cridx' = read_idx
    /\ cn' = 0 /\ cbuf' = <<>> /\ cpart' = <<>>
    /\ cpc' = "load"
    /\ UNCHANGED <<ring, pvars, sent, rcvd>>

\* Load write_idx and decide: an empty ring or an oversized buffer ends it.
PopLoad ==
    LET avail == write_idx - cridx
    IN  /\ cpc = "load"
        /\ \/ /\ ~cbatch /\ avail = 0
              /\ cpc' = "idle"
              /\ UNCHANGED cn
           \/ /\ csize > SlotSize
              /\ cpc' = "idle"
              /\ UNCHANGED cn
           \/ /\ csize <= SlotSize
              /\ cbatch \/ avail # 0
              /\ cn' = Min2(avail, cwant)
              /\ cpc' = IF cn' = 0 THEN "store" ELSE "copy"
        /\ UNCHANGED <<ring, pvars, cbatch, cwant, csize, cridx, cbuf, cpart,
                       sent, rcvd>>

\* Faulty: a batch reads its first slot over and over.
PopCopySameSlot ==
    LET got == Append(cpart, mem[SlotOf(cridx)][Len(cpart) + 1])
    IN  /\ cpc = "copy"
        /\ IF Len(got) < csize
           THEN cpart' = got /\ UNCHANGED <<cbuf, cpc>>
           ELSE /\ cpart' = <<>>
                /\ cbuf' = Append(cbuf, got)
                /\ cpc' = IF Len(cbuf) + 1 = cn THEN "store" ELSE "copy"
        /\ UNCHANGED <<ring, pvars, cbatch, cwant, csize, cridx, cn,
                       sent, rcvd>>

\* One unit of the memcpy out of slot (ridx + i) & (slot_count - 1).
PopCopy ==
    LET got == Append(cpart, mem[SlotOf(cridx + Len(cbuf))][Len(cpart) + 1])
    IN  /\ cpc = "copy"
        /\ IF Len(got) < csize
           THEN cpart' = got /\ UNCHANGED <<cbuf, cpc>>
           ELSE /\ cpart' = <<>>
                /\ cbuf' = Append(cbuf, got)
                /\ cpc' = IF Len(cbuf) + 1 = cn THEN "store" ELSE "copy"
        /\ UNCHANGED <<ring, pvars, cbatch, cwant, csize, cridx, cn,
                       sent, rcvd>>

\* Faulty: the read index moves backwards.
PopStoreRewinds ==
    /\ cpc = "store"
    /\ read_idx' = cridx - cn
    /\ rcvd' = rcvd \o cbuf
    /\ cpc' = "idle"
    /\ UNCHANGED <<mem, write_idx, pvars, cbatch, cwant, csize, cridx, cn,
                   cbuf, cpart, sent>>

\* Faulty: the call ends without storing the read index.
PopStoreForgets ==
    /\ cpc = "store"
    /\ cpc' = "idle"
    /\ UNCHANGED <<ring, pvars, cbatch, cwant, csize, cridx, cn, cbuf, cpart,
                   sent, rcvd>>

\* The releasing store of read_idx frees the slots.
PopStore ==
    /\ cpc = "store"
    /\ read_idx' = cridx + cn
    /\ rcvd' = rcvd \o cbuf
    /\ cpc' = "idle"
    /\ UNCHANGED <<mem, write_idx, pvars, cbatch, cwant, csize, cridx, cn,
                   cbuf, cpart, sent>>

-----------------------------------------------------------------------------
\* What callers pass: items of one size, at most MaxSent messages in all.
Batches == UNION {[1..n -> Items] : n \in 1..MaxBatch}

CallPush == \E items \in Batches, batch \in BOOLEAN :
                /\ \A i \in 1..Len(items) : Len(items[i]) = Len(items[1])
                /\ Len(sent) + Len(items) <= MaxSent
                /\ PushCall(items, Len(items[1]), batch)

CallPop == \E size \in BufSizes, n \in 1..MaxBatch, batch \in BOOLEAN :
                PopCall(n, size, batch)

ProducerStep == PushLoad \/ PushCopy \/ PushStore
ConsumerStep == PopLoad \/ PopCopy \/ PopStore

Next ==
    \/ CallPush
    \/ PushLoad
    \/ PushCopy
    \/ PushStore
    \/ CallPop
    \/ PopLoad
    \/ PopCopy
    \/ PopStore

Spec == Init /\ [][Next]_vars

(***************************************************************************)
(* Both calls are straight-line code with bounded loops and no lock, so a  *)
(* side that entered a call keeps running it.  A consumer that wants what  *)
(* was sent keeps calling with a buffer that fits: port_recv loops until   *)
(* ringbuf_pop succeeds.                                                   *)
(***************************************************************************)
FairSpec ==
    /\ Spec
    /\ WF_vars(ProducerStep)
    /\ WF_vars(ConsumerStep)

FittingPop == \E size \in BufSizes, n \in 1..MaxBatch, batch \in BOOLEAN :
                size <= SlotSize /\ PopCall(n, size, batch)

PollingSpec == FairSpec /\ SF_vars(FittingPop)

-----------------------------------------------------------------------------
Item == Seq(Data)

TypeOK ==
    /\ mem \in [Slots -> [1..SlotSize -> Data]]
    /\ write_idx \in Nat /\ read_idx \in Nat
    /\ ppc \in {"idle", "load", "copy", "store"}
    /\ pbatch \in BOOLEAN
    /\ pitems \in Seq(Item)
    /\ psize \in Nat \ {0}
    /\ \A i \in 1..Len(pitems) : Len(pitems[i]) = psize
    /\ pwidx \in Nat /\ pn \in Nat /\ pi \in Nat /\ pk \in Nat
    /\ cpc \in {"idle", "load", "copy", "store"}
    /\ cbatch \in BOOLEAN
    /\ cwant \in Nat
    /\ csize \in Nat \ {0}
    /\ cridx \in Nat /\ cn \in Nat
    /\ cbuf \in Seq(Item) /\ cpart \in Item
    /\ sent \in Seq(Item) /\ rcvd \in Seq(Item)

(***************************************************************************)
(* The memcpy of a push and the memcpy of a pop never touch the same slot  *)
(* at the same time: ringbuf_push and ringbuf_pop copy outside any lock,   *)
(* and only the two indices keep them apart.                               *)
(***************************************************************************)
NoSlotRace ==
    ppc = "copy" /\ cpc = "copy" =>
        \A i \in pi..(pn - 1), j \in Len(cbuf)..(cn - 1) :
            SlotOf(pwidx + i) # SlotOf(cridx + j)

(***************************************************************************)
(* The ring never holds more messages than slots nor a negative number of  *)
(* them, even while both sides work from indices they loaded earlier.      *)
(***************************************************************************)
Bounded ==
    /\ read_idx <= write_idx
    /\ write_idx <= read_idx + SlotCount

(***************************************************************************)
(* Every message between the indices is intact in its slot, so no push     *)
(* overwrites a message that was not popped and no publication runs ahead  *)
(* of its memcpy.                                                          *)
(***************************************************************************)
QueuedIntact ==
    \A j \in read_idx..(write_idx - 1) :
        /\ j < Len(sent)
        /\ \A k \in 1..Len(sent[j + 1]) :
              mem[SlotOf(j)][k] = sent[j + 1][k]

(***************************************************************************)
(* The ring is a bounded FIFO channel: the consumer receives the messages  *)
(* the producer was told were accepted, whole, once and in order.          *)
(***************************************************************************)
Fifo == INSTANCE BoundedFifo WITH Capacity <- SlotCount
ImplementsFifo == Fifo!Spec

(***************************************************************************)
(* A push finishes whatever the consumer does, a full ring included.       *)
(***************************************************************************)
PushTerminates == (ppc # "idle") ~> (ppc = "idle")

(***************************************************************************)
(* Under a consumer that keeps popping, every accepted message is          *)
(* delivered.                                                              *)
(***************************************************************************)
AllDelivered ==
    \A i \in 1..MaxSent : (Len(sent) >= i) ~> (Len(rcvd) >= i)

-----------------------------------------------------------------------------
(* The inductive invariant behind the safety properties. *)

\* The indices count the messages of the two histories.
HistoryInv ==
    /\ write_idx = Len(sent)
    /\ read_idx = Len(rcvd)
    /\ \A i \in 1..Len(sent) : Len(sent[i]) <= SlotSize

\* What the producer knows in the middle of a call: its slots are free and
\* hold what it copied so far.
ProducerInv ==
    /\ ppc # "idle" => pwidx = write_idx /\ pi <= pn
    /\ ppc = "load" => pi = 0 /\ pk = 0 /\ pn = 0
    /\ ppc \in {"copy", "store"} =>
          /\ pn <= Len(pitems)
          /\ psize <= SlotSize
          /\ pwidx + pn <= read_idx + SlotCount
    /\ ppc = "copy" => pi < pn /\ pk < psize
    /\ ppc = "store" => pi = pn /\ pk = 0
    /\ ppc \in {"copy", "store"} =>
          \A i \in 0..(pn - 1), k \in 1..psize :
             i < pi \/ (i = pi /\ k <= pk) =>
                mem[SlotOf(pwidx + i)][k] = pitems[i + 1][k]

\* What the consumer knows: its slots are published and its buffer holds
\* what was sent in them.
ConsumerInv ==
    /\ cpc # "idle" => cridx = read_idx
    /\ cpc = "load" => cbuf = <<>> /\ cpart = <<>>
    /\ cpc \in {"copy", "store"} =>
          /\ csize <= SlotSize
          /\ cridx + cn <= write_idx
          /\ \A i \in 1..Len(cbuf) : Fifo!Agree(cbuf[i], sent[cridx + i])
    /\ cpc = "copy" =>
          /\ Len(cbuf) < cn
          /\ Len(cpart) < csize
          /\ Fifo!Agree(cpart, sent[cridx + Len(cbuf) + 1])
    /\ cpc = "store" => Len(cbuf) = cn

IInv ==
    /\ TypeOK
    /\ HistoryInv
    /\ Bounded
    /\ ProducerInv
    /\ ConsumerInv
    /\ QueuedIntact
=============================================================================
