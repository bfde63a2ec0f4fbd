--------------------------- MODULE RingBufProofs ---------------------------
(***************************************************************************)
(* Proofs about the ring buffer for every slot count, slot size, message   *)
(* set and number of messages.                                             *)
(***************************************************************************)
EXTENDS RingBuf, SequenceTheorems, TLAPS

\* Slot numbers are slots.
LEMMA SlotOfType ==
    ASSUME NEW a \in Nat
    PROVE  SlotOf(a) \in Slots
BY RingAssumption, SMT DEF SlotOf, Slots

\* Indices less than a ring apart live in different slots.
LEMMA SlotOfDistinct ==
    ASSUME NEW a \in Nat, NEW b \in Nat, a < b, b < a + SlotCount
    PROVE  SlotOf(a) # SlotOf(b)
<1> DEFINE q == a \div SlotCount
           r == b \div SlotCount
<1>1. SlotCount \in Nat /\ SlotCount > 0
  BY RingAssumption
<1>2. /\ q \in Int /\ r \in Int
      /\ a = SlotCount * q + (a % SlotCount)
      /\ b = SlotCount * r + (b % SlotCount)
  BY <1>1, SMT
<1>3. SUFFICES ASSUME a % SlotCount = b % SlotCount PROVE FALSE
  BY DEF SlotOf
<1>4. b - a = SlotCount * (r - q)
  <2> HIDE DEF q, r
  <2> QED BY <1>1, <1>2, <1>3, SMT
<1> HIDE DEF q, r
<1>5. CASE r - q >= 1
  <2>1. SlotCount * (r - q) >= SlotCount
    BY <1>1, <1>2, <1>5, SMT
  <2> QED BY <1>1, <1>4, <2>1, SMT
<1>6. CASE r - q <= 0
  <2>1. SlotCount * (r - q) <= 0
    BY <1>1, <1>2, <1>6, SMT
  <2> QED BY <1>1, <1>4, <2>1, SMT
<1> QED BY <1>2, <1>5, <1>6

\* Two indices in one window of SlotCount indices share a slot only when
\* they are equal.
LEMMA SlotOfInjective ==
    ASSUME NEW a \in Nat, NEW b \in Nat, NEW base \in Nat,
           base <= a, a < base + SlotCount,
           base <= b, b < base + SlotCount,
           a # b
    PROVE  SlotOf(a) # SlotOf(b)
<1>1. SlotCount \in Nat
  BY RingAssumption
<1>2. CASE a < b
  BY <1>1, <1>2, SlotOfDistinct
<1>3. CASE b < a
  BY <1>1, <1>3, SlotOfDistinct
<1> QED BY <1>2, <1>3

-----------------------------------------------------------------------------
LEMMA InitInv == Init => IInv
<1> SUFFICES ASSUME Init PROVE IInv
  OBVIOUS
<1> USE RingAssumption
<1>1. TypeOK
  <2>1. /\ <<>> \in Seq(Item) /\ <<>> \in Seq(Data)
        /\ Len(<<>>) = 0
    BY EmptySeq
  <2>2. pbatch \in BOOLEAN /\ cbatch \in BOOLEAN
    BY Zenon DEF Init
  <2> QED BY <2>1, <2>2 DEF Init, TypeOK, Item
<1>2. HistoryInv /\ Bounded
  BY DEF Init, HistoryInv, Bounded
<1>3. ProducerInv /\ ConsumerInv
  BY DEF Init, ProducerInv, ConsumerInv
<1>4. QueuedIntact
  BY DEF Init, QueuedIntact
<1> QED BY <1>1, <1>2, <1>3, <1>4 DEF IInv

LEMMA StutterInv == IInv /\ UNCHANGED vars => IInv'
BY DEF IInv, TypeOK, HistoryInv, Bounded, ProducerInv, ConsumerInv,
       QueuedIntact, Fifo!Agree, vars, ring, pvars, cvars

\* A call only writes its own locals.
LEMMA CallPushInv == IInv /\ CallPush => IInv'
<1> SUFFICES ASSUME IInv, CallPush PROVE IInv'
  OBVIOUS
<1> USE DEF IInv
<1>1. PICK items \in Batches, batch \in BOOLEAN :
          /\ \A i \in 1..Len(items) : Len(items[i]) = Len(items[1])
          /\ PushCall(items, Len(items[1]), batch)
  BY DEF CallPush
<1> USE <1>1 DEF PushCall
<1>2. /\ items \in Seq(Item) /\ Len(items) >= 1
      /\ Len(items[1]) \in Nat \ {0}
  <2>1. PICK n \in 1..MaxBatch : items \in [1..n -> Items]
    BY DEF Batches
  <2>2. n \in Nat /\ n >= 1 /\ Items \subseteq Item
    BY RingAssumption DEF Item
  <2>3. items \in Seq(Item) /\ Len(items) = n
    BY <2>1, <2>2
  <2>4. items[1] \in Items /\ items[1] \in Seq(Data) /\ items[1] # <<>>
    BY <2>1, <2>2, RingAssumption DEF Item
  <2> QED BY <2>2, <2>3, <2>4, EmptySeq
<1>3. TypeOK'
  BY <1>2 DEF TypeOK, ring, cvars
<1>4. HistoryInv' /\ Bounded' /\ QueuedIntact'
  BY DEF HistoryInv, Bounded, QueuedIntact, ring
<1>5. ProducerInv'
  BY DEF ProducerInv, ring
<1>6. ConsumerInv'
  BY DEF ConsumerInv, ring, cvars, Fifo!Agree
<1> QED BY <1>3, <1>4, <1>5, <1>6

\* read_idx only grows, so the room the producer saw does not shrink.
LEMMA PushLoadInv == IInv /\ PushLoad => IInv'
<1> SUFFICES ASSUME IInv, PushLoad PROVE IInv'
  OBVIOUS
<1> USE RingAssumption DEF IInv, PushLoad
<1>1. TypeOK'
  BY DEF TypeOK, ring, cvars, Min2, ProducerInv, Bounded
<1>2. HistoryInv' /\ Bounded' /\ QueuedIntact'
  BY DEF HistoryInv, Bounded, QueuedIntact, ring
<1>3. ProducerInv'
  BY DEF ProducerInv, ring, TypeOK, Min2, Bounded
<1>4. ConsumerInv'
  BY DEF ConsumerInv, ring, cvars, Fifo!Agree
<1> QED BY <1>1, <1>2, <1>3, <1>4

\* The slot being filled is none of the published ones.
LEMMA PushCopyInv == IInv /\ PushCopy => IInv'
<1> SUFFICES ASSUME IInv, PushCopy PROVE IInv'
  OBVIOUS
<1> USE DEF IInv
<1>0. /\ ppc = "copy"
      /\ pi' = IF pk + 1 < psize THEN pi ELSE pi + 1
      /\ pk' = IF pk + 1 < psize THEN pk + 1 ELSE 0
      /\ ppc' = IF pk + 1 < psize \/ pi + 1 # pn THEN "copy" ELSE "store"
  BY DEF PushCopy
<1> DEFINE slot == SlotOf(pwidx + pi)
           unit == pitems[pi + 1][pk + 1]
<1>1. /\ pi \in Nat /\ pn \in Nat /\ pk \in Nat /\ pi < pn /\ pk < psize
      /\ pwidx = write_idx /\ pn <= Len(pitems) /\ psize <= SlotSize
      /\ pwidx + pn <= read_idx + SlotCount
      /\ write_idx \in Nat /\ read_idx \in Nat /\ psize \in Nat
      /\ SlotCount \in Nat /\ SlotSize \in Nat
      /\ read_idx <= write_idx /\ pwidx \in Nat
  BY RingAssumption DEF PushCopy, ProducerInv, TypeOK, Bounded
<1>2. slot \in Slots /\ pk + 1 \in 1..SlotSize
  BY <1>1, SlotOfType
<1>3. unit \in Data
  <2>1. pitems[pi + 1] \in Seq(Data) /\ Len(pitems[pi + 1]) = psize
    BY <1>1 DEF TypeOK, Item
  <2> QED BY <1>1, <2>1
<1>4. /\ mem' = [mem EXCEPT ![slot][pk + 1] = unit]
      /\ mem \in [Slots -> [1..SlotSize -> Data]]
  BY DEF PushCopy, TypeOK
<1>5. /\ mem' \in [Slots -> [1..SlotSize -> Data]]
      /\ mem'[slot][pk + 1] = unit
      /\ \A s \in Slots, k \in 1..SlotSize :
            s # slot \/ k # pk + 1 => mem'[s][k] = mem[s][k]
  <2> HIDE DEF slot, unit
  <2> QED BY <1>2, <1>3, <1>4
<1>6. TypeOK'
  <2>1. pi' \in Nat /\ pk' \in Nat /\ ppc' \in {"copy", "store"}
    BY <1>0, <1>1
  <2>2. UNCHANGED <<write_idx, read_idx, pbatch, pitems, psize, pwidx, pn,
                    cvars, sent, rcvd>>
    BY DEF PushCopy
  <2> HIDE DEF slot, unit
  <2> QED BY <1>5, <2>1, <2>2 DEF TypeOK, cvars
<1>7. HistoryInv' /\ Bounded'
  BY DEF PushCopy, HistoryInv, Bounded
<1>8. QueuedIntact'
  <2> SUFFICES ASSUME NEW j \in read_idx..(write_idx - 1)
               PROVE  /\ j < Len(sent)
                      /\ \A k \in 1..Len(sent[j + 1]) :
                            mem'[SlotOf(j)][k] = sent[j + 1][k]
    BY DEF PushCopy, QueuedIntact
  <2>1. j \in Nat /\ SlotOf(j) \in Slots /\ SlotOf(j) # slot
    BY <1>1, SlotOfType, SlotOfInjective
  <2>2. /\ j < Len(sent) /\ sent[j + 1] \in Seq(Data)
        /\ Len(sent[j + 1]) \in Nat /\ Len(sent[j + 1]) <= SlotSize
    <3>1. j < Len(sent) /\ Len(sent) \in Nat /\ sent \in Seq(Item)
      BY DEF QueuedIntact, TypeOK
    <3>2. j + 1 \in 1..Len(sent)
      BY <2>1, <3>1
    <3>3. sent[j + 1] \in Seq(Data)
      BY <3>1, <3>2, ElementOfSeq DEF Item
    <3> QED BY <3>1, <3>2, <3>3 DEF HistoryInv
  <2>3. \A k \in 1..Len(sent[j + 1]) :
           mem[SlotOf(j)][k] = sent[j + 1][k]
    BY DEF QueuedIntact
  <2>4. ASSUME NEW k \in 1..Len(sent[j + 1])
        PROVE  mem'[SlotOf(j)][k] = sent[j + 1][k]
    <3> HIDE DEF slot, unit, IInv
    <3>1. k \in 1..SlotSize
      BY <1>1, <2>2
    <3>2. mem'[SlotOf(j)][k] = mem[SlotOf(j)][k]
      BY <1>5, <2>1, <3>1
    <3> QED BY <2>3, <3>2
  <2> QED BY <2>2, <2>4
<1>9. ProducerInv'
  <2>0. \A i \in 0..(pn - 1), k \in 1..psize :
           i < pi \/ (i = pi /\ k <= pk) =>
              mem[SlotOf(pwidx + i)][k] = pitems[i + 1][k]
    BY DEF ProducerInv, PushCopy
  <2>1. ASSUME NEW i \in 0..(pn - 1), NEW k \in 1..psize,
               i < pi \/ (i = pi /\ k <= pk + 1)
        PROVE  mem'[SlotOf(pwidx + i)][k] = pitems[i + 1][k]
    <3>1. SlotOf(pwidx + i) \in Slots /\ k \in 1..SlotSize
      BY <1>1, SlotOfType
    <3>2. CASE i = pi /\ k = pk + 1
      BY <1>5, <3>2
    <3>3. CASE i = pi /\ k # pk + 1
      <4>1. mem'[SlotOf(pwidx + i)][k] = mem[SlotOf(pwidx + i)][k]
        BY <1>5, <3>1, <3>3
      <4>2. k <= pk
        BY <1>1, <2>1, <3>3
      <4> QED BY <2>0, <3>3, <4>1, <4>2
    <3>4. CASE i < pi
      <4>1. SlotOf(pwidx + i) # slot
        <5>1. /\ pwidx + i \in Nat /\ pwidx + pi \in Nat
              /\ pwidx + i < pwidx + pi
              /\ pwidx + pi < pwidx + i + SlotCount
          BY <1>1, <3>4
        <5> QED BY <5>1, SlotOfDistinct
      <4>2. mem'[SlotOf(pwidx + i)][k] = mem[SlotOf(pwidx + i)][k]
        BY <1>5, <3>1, <4>1
      <4> QED BY <2>0, <3>4, <4>2
    <3> QED BY <1>1, <2>1, <3>2, <3>3, <3>4
  <2>2. UNCHANGED <<write_idx, read_idx, pitems, psize, pwidx, pn>>
    BY DEF PushCopy
  <2>3. \A i \in 0..(pn - 1), k \in 1..psize :
           i < pi' \/ (i = pi' /\ k <= pk') =>
              mem'[SlotOf(pwidx + i)][k] = pitems[i + 1][k]
    BY <1>0, <1>1, <2>1
  <2> HIDE DEF slot, unit
  <2> QED BY <1>0, <1>1, <2>2, <2>3 DEF ProducerInv
<1>10. ConsumerInv'
  BY DEF PushCopy, ConsumerInv, cvars, Fifo!Agree
<1> QED BY <1>6, <1>7, <1>8, <1>9, <1>10

\* Publishing appends to sent exactly the items whose units are in place.
LEMMA PushStoreInv == IInv /\ PushStore => IInv'
<1> SUFFICES ASSUME IInv, PushStore PROVE IInv'
  OBVIOUS
<1> USE DEF IInv
<1> DEFINE new == SubSeq(pitems, 1, pn)
<1>1. /\ pi = pn /\ pn \in Nat /\ pn <= Len(pitems) /\ psize <= SlotSize
      /\ pwidx = write_idx /\ pwidx + pn <= read_idx + SlotCount
      /\ write_idx \in Nat /\ read_idx \in Nat /\ psize \in Nat
      /\ SlotCount \in Nat /\ SlotSize \in Nat
      /\ read_idx <= write_idx /\ write_idx = Len(sent)
      /\ pitems \in Seq(Item) /\ sent \in Seq(Item)
  BY RingAssumption DEF PushStore, ProducerInv, TypeOK, Bounded, HistoryInv
<1>2. /\ new \in Seq(Item) /\ Len(new) = pn
      /\ \A i \in 1..pn : new[i] = pitems[i] /\ Len(new[i]) = psize
  <2>1. \A i \in 1..pn : pitems[i] \in Item /\ Len(pitems[i]) = psize
    BY <1>1 DEF TypeOK
  <2>2. /\ new \in Seq(Item)
        /\ Len(new) = IF 1 <= pn THEN pn - 1 + 1 ELSE 0
        /\ \A i \in 1..(pn - 1 + 1) : new[i] = pitems[1 + i - 1]
    BY <1>1, <2>1, SubSeqProperties
  <2> HIDE DEF new
  <2> QED BY <1>1, <2>1, <2>2
<1> HIDE DEF new
<1>3. /\ sent' \in Seq(Item) /\ Len(sent') = Len(sent) + pn
      /\ \A i \in 1..Len(sent) : sent'[i] = sent[i]
      /\ \A i \in 1..pn : sent'[Len(sent) + i] = new[i]
  <2>1. sent' = sent \o new
    BY DEF PushStore, new
  <2>2. /\ sent \o new \in Seq(Item) /\ Len(sent \o new) = Len(sent) + Len(new)
        /\ \A i \in 1..(Len(sent) + Len(new)) :
              (sent \o new)[i] = IF i <= Len(sent) THEN sent[i]
                                                   ELSE new[i - Len(sent)]
    <3>1. sent \in Seq(Item) /\ new \in Seq(Item)
      BY <1>1, <1>2
    <3> QED BY <3>1, ConcatProperties, Zenon
  <2> QED BY <1>1, <1>2, <2>1, <2>2
<1>4. UNCHANGED <<mem, read_idx, pbatch, pitems, psize, pwidx, pn, pi, pk,
                  cvars, rcvd>> /\ ppc' = "idle" /\ write_idx' = write_idx + pn
  BY <1>1 DEF PushStore
<1>5. TypeOK'
  BY <1>1, <1>3, <1>4 DEF TypeOK, cvars
<1>6. HistoryInv'
  <2>1. ASSUME NEW i \in 1..Len(sent') PROVE Len(sent'[i]) <= SlotSize
    <3>1. CASE i <= Len(sent)
      BY <1>1, <1>3, <3>1 DEF HistoryInv
    <3>2. CASE i > Len(sent)
      <4>1. i - Len(sent) \in 1..pn /\ i = Len(sent) + (i - Len(sent))
        BY <1>1, <1>3, <3>2
      <4>2. sent'[i] = new[i - Len(sent)]
        BY <1>3, <4>1
      <4> QED BY <1>1, <1>2, <4>1, <4>2
    <3> QED BY <1>1, <1>3, <3>1, <3>2
  <2> QED BY <1>1, <1>3, <1>4, <2>1 DEF HistoryInv
<1>7. Bounded'
  BY <1>1, <1>4 DEF Bounded
<1>8. QueuedIntact'
  <2> SUFFICES ASSUME NEW j \in read_idx..(write_idx + pn - 1)
               PROVE  /\ j < Len(sent')
                      /\ \A k \in 1..Len(sent'[j + 1]) :
                            mem[SlotOf(j)][k] = sent'[j + 1][k]
    <3>1. /\ mem' = mem /\ read_idx' = read_idx
          /\ write_idx' - 1 = write_idx + pn - 1
      BY <1>1, <1>4
    <3> QED BY <3>1 DEF QueuedIntact
  <2>1. j \in Nat /\ j < Len(sent')
    BY <1>1, <1>3
  <2>2. CASE j < write_idx
    <3>1. j + 1 \in 1..Len(sent) /\ j \in read_idx..(write_idx - 1)
      BY <1>1, <2>1, <2>2
    <3>2. sent'[j + 1] = sent[j + 1]
      BY <1>3, <3>1
    <3> QED BY <2>1, <3>1, <3>2 DEF QueuedIntact
  <2>3. CASE j >= write_idx
    <3> DEFINE i == j - write_idx
    <3>1. i \in 0..(pn - 1) /\ i + 1 \in 1..pn /\ j = pwidx + i
          /\ j + 1 = Len(sent) + (i + 1)
      BY <1>1, <2>1, <2>3
    <3> HIDE DEF i
    <3>2. sent'[j + 1] = pitems[i + 1] /\ Len(sent'[j + 1]) = psize
      BY <1>2, <1>3, <3>1
    <3>3. \A k \in 1..psize : mem[SlotOf(pwidx + i)][k] = pitems[i + 1][k]
      BY <1>1, <3>1 DEF ProducerInv, PushStore
    <3> QED BY <2>1, <3>1, <3>2, <3>3
  <2> QED BY <1>1, <2>1, <2>2, <2>3
<1>9. ProducerInv'
  BY <1>4 DEF ProducerInv
<1>10. ConsumerInv'
  <2>1. /\ cbuf \in Seq(Item) /\ cpart \in Seq(Data) /\ cridx \in Nat
        /\ cn \in Nat /\ Len(cbuf) \in Nat
    BY DEF TypeOK, Item
  <2>2. ASSUME cpc \in {"copy", "store"}
        PROVE  /\ cridx + cn <= Len(sent) /\ Len(cbuf) <= cn
               /\ \A i \in 1..Len(cbuf) : Fifo!Agree(cbuf[i], sent'[cridx + i])
    <3>1. cridx + cn <= Len(sent) /\ Len(cbuf) <= cn
      BY <1>1, <2>1, <2>2 DEF ConsumerInv
    <3>2. \A i \in 1..Len(cbuf) : sent'[cridx + i] = sent[cridx + i]
      BY <1>1, <1>3, <2>1, <3>1
    <3> QED BY <2>2, <3>1, <3>2 DEF ConsumerInv
  <2>3. ASSUME cpc = "copy"
        PROVE  sent'[cridx + Len(cbuf) + 1] = sent[cridx + Len(cbuf) + 1]
    BY <1>1, <1>3, <2>1, <2>2, <2>3 DEF ConsumerInv
  <2>4. UNCHANGED <<read_idx, cpc, csize, cridx, cn, cbuf, cpart>>
        /\ write_idx <= write_idx'
    BY <1>1, <1>4 DEF cvars
  <2>5. /\ cpc # "idle" => cridx = read_idx
        /\ cpc = "load" => cbuf = <<>> /\ cpart = <<>>
        /\ cpc \in {"copy", "store"} => csize <= SlotSize
        /\ cpc = "copy" =>
              /\ Len(cbuf) < cn
              /\ Len(cpart) < csize
              /\ Fifo!Agree(cpart, sent[cridx + Len(cbuf) + 1])
        /\ cpc = "store" => Len(cbuf) = cn
    BY DEF ConsumerInv
  <2>6. cpc \in {"copy", "store"} => cridx + cn <= write_idx'
    BY <1>1, <1>4, <2>1, <2>2
  <2>7. cpc = "copy" => Fifo!Agree(cpart, sent'[cridx + Len(cbuf) + 1])
    BY <2>3, <2>5
  <2> HIDE DEF IInv
  <2> QED BY <2>2, <2>4, <2>5, <2>6, <2>7 DEF ConsumerInv, Fifo!Agree
<1> QED BY <1>5, <1>6, <1>7, <1>8, <1>9, <1>10

LEMMA CallPopInv == IInv /\ CallPop => IInv'
<1> SUFFICES ASSUME IInv, CallPop PROVE IInv'
  OBVIOUS
<1> USE DEF IInv
<1>1. PICK size \in BufSizes, n \in 1..MaxBatch, batch \in BOOLEAN :
          PopCall(n, size, batch)
  BY DEF CallPop
<1> USE <1>1 DEF PopCall
<1>2. size \in Nat \ {0} /\ n \in Nat
  BY RingAssumption
<1>3. <<>> \in Seq(Item) /\ <<>> \in Item
  BY EmptySeq DEF Item
<1>4. TypeOK'
  BY <1>2, <1>3 DEF TypeOK, ring, pvars
<1>5. HistoryInv' /\ Bounded' /\ QueuedIntact'
  BY DEF HistoryInv, Bounded, QueuedIntact, ring
<1>6. ProducerInv'
  BY DEF ProducerInv, ring, pvars
<1>7. ConsumerInv'
  BY DEF ConsumerInv, ring
<1> QED BY <1>4, <1>5, <1>6, <1>7

\* write_idx only grows, so the messages the consumer saw stay there.
LEMMA PopLoadInv == IInv /\ PopLoad => IInv'
<1> SUFFICES ASSUME IInv, PopLoad PROVE IInv'
  OBVIOUS
<1> USE RingAssumption DEF IInv, PopLoad
<1>1. TypeOK'
  BY DEF TypeOK, ring, pvars, Min2, ConsumerInv, Bounded
<1>2. HistoryInv' /\ Bounded' /\ QueuedIntact'
  BY DEF HistoryInv, Bounded, QueuedIntact, ring
<1>3. ProducerInv'
  BY DEF ProducerInv, ring, pvars
<1>4. ConsumerInv'
  <2>1. cridx = read_idx /\ cbuf = <<>> /\ cpart = <<>> /\ Len(<<>>) = 0
    BY EmptySeq DEF ConsumerInv
  <2> QED BY <2>1 DEF ConsumerInv, ring, TypeOK, Min2, Bounded, Fifo!Agree
<1> QED BY <1>1, <1>2, <1>3, <1>4

\* The slot being read holds the published message of that index.
LEMMA PopCopyInv == IInv /\ PopCopy => IInv'
<1> SUFFICES ASSUME IInv, PopCopy PROVE IInv'
  OBVIOUS
<1> USE DEF IInv
<1> DEFINE j == cridx + Len(cbuf)
           unit == mem[SlotOf(j)][Len(cpart) + 1]
           got == Append(cpart, unit)
<1>1. /\ cpc = "copy" /\ cridx = read_idx /\ cridx + cn <= write_idx
      /\ csize <= SlotSize /\ Len(cbuf) < cn /\ Len(cpart) < csize
      /\ cbuf \in Seq(Item) /\ cpart \in Seq(Data)
      /\ cridx \in Nat /\ cn \in Nat /\ csize \in Nat \ {0}
      /\ write_idx \in Nat /\ write_idx = Len(sent) /\ sent \in Seq(Item)
      /\ Len(cbuf) \in Nat /\ Len(cpart) \in Nat /\ SlotSize \in Nat
  <2>1. /\ cbuf \in Seq(Item) /\ cpart \in Seq(Data)
        /\ cridx \in Nat /\ cn \in Nat /\ csize \in Nat \ {0}
        /\ write_idx \in Nat /\ sent \in Seq(Item)
    BY DEF TypeOK, Item
  <2>2. Len(cbuf) \in Nat /\ Len(cpart) \in Nat
    BY <2>1
  <2>3. SlotSize \in Nat /\ cpc = "copy" /\ write_idx = Len(sent)
    BY RingAssumption DEF PopCopy, HistoryInv
  <2> QED BY <2>1, <2>2, <2>3 DEF ConsumerInv
<1>2. /\ j \in Nat /\ j \in read_idx..(write_idx - 1)
      /\ SlotOf(j) \in Slots /\ Len(cpart) + 1 \in 1..SlotSize
  <2>1. /\ j \in Nat /\ j \in read_idx..(write_idx - 1)
        /\ Len(cpart) + 1 \in 1..SlotSize
    BY <1>1
  <2> QED BY <2>1, SlotOfType
<1>3. unit \in Data
  <2> HIDE DEF j
  <2> QED BY <1>2 DEF TypeOK
<1>4. /\ got \in Seq(Data) /\ Len(got) = Len(cpart) + 1
      /\ \A k \in 1..Len(cpart) : got[k] = cpart[k]
      /\ got[Len(cpart) + 1] = unit
  <2> HIDE DEF unit, j
  <2> QED BY <1>1, <1>3, AppendProperties
<1>5. Fifo!Agree(got, sent[j + 1])
  <2>1. ASSUME NEW k \in 1..Len(got), k <= Len(sent[j + 1])
        PROVE  got[k] = sent[j + 1][k]
    <3>1. CASE k <= Len(cpart)
      <4>1. Fifo!Agree(cpart, sent[j + 1])
        BY <1>1 DEF ConsumerInv
      <4> HIDE DEF j, got, unit
      <4> QED BY <1>1, <1>4, <2>1, <3>1, <4>1 DEF Fifo!Agree
    <3>2. CASE k = Len(cpart) + 1
      <4>1. j + 1 \in 1..Len(sent)
        BY <1>1
      <4>2. sent[j + 1] \in Seq(Data)
        BY <1>1, <4>1, ElementOfSeq DEF Item
      <4>3. k \in 1..Len(sent[j + 1])
        <5> HIDE DEF j
        <5> QED BY <1>1, <2>1, <3>2, <4>2
      <4>4. mem[SlotOf(j)][k] = sent[j + 1][k]
        <5> HIDE DEF j
        <5> QED BY <1>2, <4>3 DEF QueuedIntact
      <4> HIDE DEF j, got
      <4> QED BY <1>4, <3>2, <4>4
    <3> HIDE DEF j, got, unit
    <3> QED BY <1>1, <1>4, <3>1, <3>2
  <2> HIDE DEF j, got, unit
  <2> QED BY <2>1 DEF Fifo!Agree
<1>6. /\ UNCHANGED <<ring, pvars, cbatch, cwant, csize, cridx, cn, sent, rcvd>>
      /\ \/ Len(got) < csize /\ cpart' = got /\ UNCHANGED <<cbuf, cpc>>
         \/ /\ ~(Len(got) < csize) /\ cpart' = <<>>
            /\ cbuf' = Append(cbuf, got)
            /\ cpc' = IF Len(cbuf) + 1 = cn THEN "store" ELSE "copy"
  BY DEF PopCopy
<1>7. /\ Append(cbuf, got) \in Seq(Item)
      /\ Len(Append(cbuf, got)) = Len(cbuf) + 1
      /\ \A i \in 1..Len(cbuf) : Append(cbuf, got)[i] = cbuf[i]
      /\ Append(cbuf, got)[Len(cbuf) + 1] = got
  <2> HIDE DEF got
  <2> QED BY <1>1, <1>4, AppendProperties DEF Item
<1>8. <<>> \in Seq(Data) /\ Len(<<>>) = 0
  BY EmptySeq
<1>9. TypeOK'
  <2> HIDE DEF got, IInv
  <2>1. TypeOK /\ cpart' \in Item /\ cbuf' \in Seq(Item)
        /\ cpc' \in {"copy", "store"}
    BY <1>1, <1>4, <1>6, <1>7, <1>8 DEF Item, IInv
  <2> QED BY <1>6, <2>1 DEF TypeOK, ring, pvars
<1>10. HistoryInv' /\ Bounded' /\ QueuedIntact'
  BY <1>6 DEF HistoryInv, Bounded, QueuedIntact, ring
<1>11. ProducerInv'
  BY <1>6 DEF ProducerInv, ring, pvars
<1>12. ConsumerInv'
  <2>1. \A i \in 1..Len(cbuf) : Fifo!Agree(cbuf[i], sent[cridx + i])
    BY <1>1 DEF ConsumerInv
  <2>2. CASE Len(got) < csize
    <3>1. cpart' = got /\ UNCHANGED <<cbuf, cpc, cridx, csize, cn, sent, ring>>
      BY <1>6, <2>2
    <3>2. Fifo!Agree(got, sent[cridx + Len(cbuf) + 1])
      BY <1>5
    <3> HIDE DEF got, IInv
    <3> QED BY <1>1, <2>1, <2>2, <3>1, <3>2 DEF ConsumerInv, ring, Fifo!Agree
  <2>3. CASE ~(Len(got) < csize)
    <3>1. /\ cpart' = <<>> /\ cbuf' = Append(cbuf, got)
          /\ cpc' = IF Len(cbuf) + 1 = cn THEN "store" ELSE "copy"
          /\ UNCHANGED <<cridx, csize, cn, sent, ring>>
      BY <1>6, <2>3
    <3>2. Fifo!Agree(got, sent[cridx + (Len(cbuf) + 1)])
      <4>1. j + 1 = cridx + (Len(cbuf) + 1)
        BY <1>1
      <4> HIDE DEF got, j
      <4> QED BY <1>5, <4>1
    <3> HIDE DEF got, IInv
    <3>3. ASSUME NEW i \in 1..Len(cbuf')
          PROVE  Fifo!Agree(cbuf'[i], sent[cridx + i])
      <4>1. CASE i \in 1..Len(cbuf)
        BY <1>7, <2>1, <3>1, <4>1
      <4>2. CASE i = Len(cbuf) + 1
        BY <1>7, <3>1, <3>2, <4>2
      <4> QED BY <1>1, <1>7, <3>1, <4>1, <4>2
    <3>4. Fifo!Agree(<<>>, sent[cridx + Len(cbuf') + 1])
      BY <1>8 DEF Fifo!Agree
    <3> QED BY <1>1, <1>7, <1>8, <3>1, <3>3, <3>4 DEF ConsumerInv, ring, Fifo!Agree
  <2> QED BY <2>2, <2>3
<1> QED BY <1>9, <1>10, <1>11, <1>12

\* Freeing slots only enlarges the room the producer has.
LEMMA PopStoreInv == IInv /\ PopStore => IInv'
<1> SUFFICES ASSUME IInv, PopStore PROVE IInv'
  OBVIOUS
<1> USE DEF IInv
<1>1. /\ cridx = read_idx /\ cn \in Nat /\ Len(cbuf) = cn
      /\ cridx + cn <= write_idx /\ read_idx \in Nat /\ write_idx \in Nat
      /\ cbuf \in Seq(Item) /\ rcvd \in Seq(Item) /\ read_idx = Len(rcvd)
      /\ SlotCount \in Nat /\ write_idx <= read_idx + SlotCount
  BY RingAssumption DEF PopStore, ConsumerInv, TypeOK, HistoryInv, Bounded
<1>2. rcvd \o cbuf \in Seq(Item) /\ Len(rcvd \o cbuf) = Len(rcvd) + Len(cbuf)
  BY <1>1, ConcatProperties, Zenon
<1>3. /\ UNCHANGED <<mem, write_idx, pvars, cbatch, cwant, csize, cridx, cn,
                     cbuf, cpart, sent>>
      /\ cpc' = "idle" /\ rcvd' = rcvd \o cbuf /\ read_idx' = read_idx + cn
  BY <1>1 DEF PopStore
<1>4. TypeOK'
  BY <1>1, <1>2, <1>3 DEF TypeOK, pvars
<1>5. HistoryInv' /\ Bounded'
  BY <1>1, <1>2, <1>3 DEF HistoryInv, Bounded
<1>6. QueuedIntact'
  BY <1>1, <1>3 DEF QueuedIntact
<1>7. ProducerInv'
  <2>1. pn \in Nat /\ pwidx \in Nat
    BY DEF TypeOK
  <2> QED BY <1>1, <1>3, <2>1 DEF ProducerInv, pvars
<1>8. ConsumerInv'
  BY <1>3 DEF ConsumerInv
<1> QED BY <1>4, <1>5, <1>6, <1>7, <1>8

LEMMA NextInv == IInv /\ [Next]_vars => IInv'
BY StutterInv, CallPushInv, PushLoadInv, PushCopyInv, PushStoreInv,
   CallPopInv, PopLoadInv, PopCopyInv, PopStoreInv DEF Next

\* The inductive invariant of the ring: it holds in every reachable state.
THEOREM RingInvariant == Spec => []IInv
BY InitInv, NextInv, PTL DEF Spec

\* ringbuf_push and ringbuf_pop keep every variable of the ring in its type.
THEOREM RingTypeOK == Spec => []TypeOK
<1>1. IInv => TypeOK
  BY DEF IInv
<1> QED BY <1>1, RingInvariant, PTL

\* The fill level stays within 0 and slot_count whatever the interleaving.
THEOREM RingBounded == Spec => []Bounded
<1>1. IInv => Bounded
  BY DEF IInv
<1> QED BY <1>1, RingInvariant, PTL

\* No push overwrites a queued message or publishes one it has not copied.
THEOREM RingQueuedIntact == Spec => []QueuedIntact
<1>1. IInv => QueuedIntact
  BY DEF IInv
<1> QED BY <1>1, RingInvariant, PTL

\* The two memcpys never meet in one slot.
THEOREM RingNoSlotRace == Spec => []NoSlotRace
<1>1. IInv => NoSlotRace
  <2> SUFFICES ASSUME IInv, ppc = "copy", cpc = "copy",
                      NEW i \in pi..(pn - 1), NEW j \in Len(cbuf)..(cn - 1)
               PROVE  SlotOf(pwidx + i) # SlotOf(cridx + j)
    BY DEF NoSlotRace
  <2>1. /\ pwidx = write_idx /\ cridx = read_idx /\ cridx + cn <= write_idx
        /\ pwidx + pn <= read_idx + SlotCount
        /\ pi \in Nat /\ pn \in Nat /\ cn \in Nat /\ Len(cbuf) \in Nat
        /\ write_idx \in Nat /\ read_idx \in Nat /\ SlotCount \in Nat
    BY RingAssumption DEF IInv, ProducerInv, ConsumerInv, TypeOK
  <2>2. /\ pwidx + i \in Nat /\ cridx + j \in Nat
        /\ cridx + j < pwidx + i /\ pwidx + i < cridx + j + SlotCount
    BY <2>1
  <2> QED BY <2>2, SlotOfDistinct
<1> QED BY <1>1, RingInvariant, PTL

-----------------------------------------------------------------------------
(* The ring implements the bounded FIFO channel. *)

LEMMA FifoPut == IInv /\ PushStore => Fifo!Put
<1> SUFFICES ASSUME IInv, PushStore PROVE Fifo!Put
  OBVIOUS
<1> DEFINE new == SubSeq(pitems, 1, pn)
<1>1. /\ pn \in Nat /\ pn <= Len(pitems) /\ pwidx = write_idx
      /\ pwidx + pn <= read_idx + SlotCount
      /\ write_idx = Len(sent) /\ read_idx = Len(rcvd)
      /\ pitems \in Seq(Item) /\ sent \in Seq(Item) /\ rcvd \in Seq(Item)
      /\ SlotCount \in Nat
  BY RingAssumption DEF IInv, PushStore, ProducerInv, TypeOK, HistoryInv
<1>2. new \in Seq(Item) /\ Len(new) = pn
  <2>1. \A i \in 1..pn : pitems[i] \in Item
    BY <1>1
  <2> QED BY <1>1, <2>1, SubSeqProperties
<1> HIDE DEF new
<1>3. /\ Len(sent \o new) = Len(sent) + Len(new)
      /\ \A i \in 1..(Len(sent) + Len(new)) :
            (sent \o new)[i] = IF i <= Len(sent) THEN sent[i]
                                                 ELSE new[i - Len(sent)]
  <2>1. sent \in Seq(Item) /\ new \in Seq(Item)
    BY <1>1, <1>2
  <2> QED BY <2>1, ConcatProperties, Zenon
<1>4. sent' = sent \o new /\ rcvd' = rcvd
  BY DEF PushStore, new
<1>5. Fifo!Extends(sent', sent)
  BY <1>1, <1>2, <1>3, <1>4 DEF Fifo!Extends
<1>6. Len(sent') - Len(rcvd) <= SlotCount
  BY <1>1, <1>2, <1>3, <1>4
<1> QED BY <1>4, <1>5, <1>6 DEF Fifo!Put

LEMMA FifoGet == IInv /\ PopStore => Fifo!Get
<1> SUFFICES ASSUME IInv, PopStore PROVE Fifo!Get
  OBVIOUS
<1>1. /\ cn \in Nat /\ Len(cbuf) = cn /\ cridx = read_idx
      /\ cridx + cn <= write_idx
      /\ write_idx = Len(sent) /\ read_idx = Len(rcvd)
      /\ cbuf \in Seq(Item) /\ rcvd \in Seq(Item) /\ sent \in Seq(Item)
      /\ \A i \in 1..Len(cbuf) : Fifo!Agree(cbuf[i], sent[cridx + i])
  BY DEF IInv, PopStore, ConsumerInv, TypeOK, HistoryInv
<1>2. /\ Len(rcvd \o cbuf) = Len(rcvd) + Len(cbuf)
      /\ \A i \in 1..(Len(rcvd) + Len(cbuf)) :
            (rcvd \o cbuf)[i] = IF i <= Len(rcvd) THEN rcvd[i]
                                                  ELSE cbuf[i - Len(rcvd)]
  BY <1>1, ConcatProperties, Zenon
<1>3. rcvd' = rcvd \o cbuf /\ sent' = sent
  BY DEF PopStore
<1>4. Fifo!Extends(rcvd', rcvd)
  BY <1>1, <1>2, <1>3 DEF Fifo!Extends
<1>5. Len(rcvd') <= Len(sent)
  BY <1>1, <1>2, <1>3
<1>6. ASSUME NEW i \in (Len(rcvd) + 1)..Len(rcvd')
      PROVE  Fifo!Agree(rcvd'[i], sent[i])
  <2> DEFINE k == i - Len(rcvd)
  <2>1. k \in 1..Len(cbuf) /\ i = cridx + k /\ i \in 1..(Len(rcvd) + Len(cbuf))
        /\ ~(i <= Len(rcvd))
    BY <1>1, <1>2, <1>3
  <2>2. rcvd'[i] = cbuf[k]
    BY <1>2, <1>3, <2>1
  <2> HIDE DEF k
  <2> QED BY <1>1, <2>1, <2>2
<1> QED BY <1>3, <1>4, <1>5, <1>6 DEF Fifo!Get

\* The consumer gets every accepted message once, in order and untorn: the
\* interleaved push and pop implement an atomic bounded FIFO.
THEOREM RingImplementsFifo == Spec => ImplementsFifo
<1>1. Init => Fifo!Init
  BY DEF Init, Fifo!Init
<1>2. IInv /\ [Next]_vars => [Fifo!Next]_(Fifo!vars)
  <2> SUFFICES ASSUME IInv, [Next]_vars PROVE [Fifo!Next]_(Fifo!vars)
    OBVIOUS
  <2>1. CASE PushStore
    BY <2>1, FifoPut DEF Fifo!Next
  <2>2. CASE PopStore
    BY <2>2, FifoGet DEF Fifo!Next
  <2>3. CASE ~PushStore /\ ~PopStore
    BY <2>3 DEF Next, vars, CallPush, PushCall, PushLoad, PushCopy, CallPop,
                PopCall, PopLoad, PopCopy, Fifo!vars
  <2> QED BY <2>1, <2>2, <2>3
<1> QED BY <1>1, <1>2, RingInvariant, PTL DEF Spec, ImplementsFifo, Fifo!Spec
=============================================================================
