---------------------------- MODULE CanNodeProofs ----------------------------
(***************************************************************************)
(* The queue of the CAN bus tasks is a bounded queue of frames, processors *)
(* are offered them in order, and none is lost unless a buffer is full:    *)
(* for any number of transmitters and processors and any sizes.            *)
(***************************************************************************)
EXTENDS CanNode, TLAPS

(* Message number n goes to slot Slot(n).  Counters that wrap around keep  *)
(* the slots in order only if the capacity divides their range; else the   *)
(* results are about the frames before the first wrap.                     *)
Slot(n) == (n % Word) % QueueSize

SlotsStayInOrder == Word % QueueSize = 0 \/ MaxFrames <= Word

TypeOK ==
  /\ begin \in Nat /\ end \in Nat
  /\ elements \in [0..(QueueSize - 1) -> Nat]
  /\ processors \in Seq(Processors)
  /\ processed \in Seq(Nat)
  /\ seen \in [Processors -> Seq(Nat)]
  /\ fifo \in Seq(Nat) /\ Len(fifo) <= FifoSize
  /\ frames \in 0..MaxFrames

(* The counters count the messages that came in and went out. *)
CountersAgree ==
  /\ size \in Nat /\ size <= QueueSize
  /\ begin = Len(processed) % Word
  /\ end = (Len(processed) + size) % Word

FramesAddUp == Len(processed) + size + Len(fifo) <= frames

(* Frames are numbered as they come, and what a processor has seen came    *)
(* before what is in the queue, and that before what is in the controller. *)
FramesInOrder ==
  /\ \A i \in 1..size : Contents[i] \in 1..frames
  /\ \A i \in 1..Len(fifo) : fifo[i] \in 1..frames
  /\ \A i, j \in 1..size : i < j => Contents[i] < Contents[j]
  /\ \A i, j \in 1..Len(fifo) : i < j => fifo[i] < fifo[j]
  /\ \A i \in 1..size, j \in 1..Len(fifo) : Contents[i] < fifo[j]

SeenInOrder ==
  \A p \in Processors :
    /\ \A k \in 1..Len(seen[p]) :
         /\ seen[p][k] <= frames
         /\ \A i \in 1..size : seen[p][k] < Contents[i]
         /\ \A i \in 1..Len(fifo) : seen[p][k] < fifo[i]
    /\ \A k \in 1..(Len(seen[p]) - 1) : seen[p][k] < seen[p][k + 1]

(* All processors are attached, each once, before the first is asked. *)
AttachedFirst ==
  /\ ~started => \A p \in Processors : seen[p] = <<>>
  /\ \A i, j \in 1..Len(processors) : processors[i] = processors[j] => i = j
  /\ \A i, j \in 1..Len(processors) : j < i =>
       \A k \in 1..Len(seen[processors[i]]) :
         Contains(seen[processors[j]], seen[processors[i]][k])

IInv == TypeOK /\ CountersAgree /\ FramesAddUp /\ FramesInOrder /\ SeenInOrder /\ AttachedFirst

-----------------------------------------------------------------------------
LEMMA Division ==
  ASSUME NEW n \in Nat, NEW d \in Nat \ {0}
  PROVE  n \div d \in Nat /\ (n % d) \in 0..(d - 1) /\ n = d * (n \div d) + (n % d)
  BY SMT

LEMMA OneQuotient ==
  ASSUME NEW d \in Nat \ {0}, NEW q \in Nat, NEW r \in 0..(d - 1), NEW n \in Nat,
         n = d * q + r
  PROVE  n \div d = q /\ n % d = r
  BY SMT

LEMMA SameRemainder ==
  ASSUME NEW d \in Nat \ {0}, NEW a \in Nat, NEW b \in Nat,
         a <= b, b < a + d, a % d = b % d
  PROVE  a = b
  <1> DEFINE x == a \div d  y == b \div d  r == a % d
  <1>1. x \in Nat /\ y \in Nat /\ r \in 0..(d - 1) /\ a = d * x + r /\ b = d * y + r
    BY Division
  <1> HIDE DEF x, y, r
  <1>2. d * x <= d * y /\ d * y < d * x + d
    BY <1>1, SMT
  <1>3. x <= y
    <2> SUFFICES ASSUME x >= y + 1 PROVE FALSE
      BY <1>1
    <2>1. d * x >= d * (y + 1) /\ d * (y + 1) = d * y + d
      BY <1>1, SMT
    <2> QED BY <1>1, <1>2, <2>1, SMT
  <1>4. y <= x
    <2> SUFFICES ASSUME y >= x + 1 PROVE FALSE
      BY <1>1
    <2>1. d * y >= d * (x + 1) /\ d * (x + 1) = d * x + d
      BY <1>1, SMT
    <2> QED BY <1>1, <1>2, <2>1, SMT
  <1> QED BY <1>1, <1>3, <1>4

(* Counting modulo the range of the counters. *)
LEMMA CountOn ==
  ASSUME NEW d \in Nat \ {0}, NEW b \in Nat, NEW i \in Nat
  PROVE  ((b % d) + i) % d = (b + i) % d
  <1> DEFINE x == b \div d  r == b % d  m == r + i
             y == m \div d  t == m % d
  <1>1. x \in Nat /\ r \in 0..(d - 1) /\ b = d * x + r
    BY Division
  <1> HIDE DEF x, r
  <1>2. m \in Nat
    BY <1>1
  <1>3. y \in Nat /\ t \in 0..(d - 1) /\ m = d * y + t
    BY <1>2, Division
  <1> HIDE DEF y, t
  <1>4. b + i = d * x + d * y + t
    BY <1>1, <1>3
  <1>5. d * (x + y) = d * x + d * y
    BY <1>1, <1>3, SMT
  <1>6. (b + i) % d = t
    <2> DEFINE n == b + i  q == x + y
    <2>1. n \in Nat /\ q \in Nat /\ n = d * q + t
      BY <1>1, <1>3, <1>4, <1>5, SMT
    <2> HIDE DEF n, q
    <2>2. n % d = t
      BY <1>3, <2>1, SMT
    <2> QED BY <2>2 DEF n
  <1> QED BY <1>6 DEF r, t

LEMMA Distance ==
  ASSUME NEW d \in Nat \ {0}, NEW b \in Nat, NEW s \in Nat, s < d
  PROVE  (((b + s) % d) + d - (b % d)) % d = s
  <1> DEFINE x == b \div d  r == b % d
             n == b + s     y == n \div d  t == n % d
  <1>1. x \in Nat /\ r \in 0..(d - 1) /\ b = d * x + r
    BY Division
  <1>2. n \in Nat
    OBVIOUS
  <1>3. y \in Nat /\ t \in 0..(d - 1) /\ n = d * y + t
    BY <1>2, Division
  <1>4. n = b + s
    OBVIOUS
  <1> HIDE DEF x, r, n, y, t
  <1>5. d * y + t = d * x + r + s
    BY <1>1, <1>3, <1>4
  <1>6. y = x \/ y = x + 1
    BY <1>1, <1>3, <1>5, SMT
  <1>7. t + d - r = s + d \/ t + d - r = s
    BY <1>1, <1>3, <1>5, <1>6, SMT
  <1>8. (s + d) % d = s /\ s % d = s
    BY SMT
  <1>9. (t + d - r) % d = s
    BY <1>7, <1>8
  <1> QED BY <1>9 DEF r, t, n

LEMMA SlotExists ==
  ASSUME NEW n \in Nat
  PROVE  Slot(n) \in 0..(QueueSize - 1)
  <1>1. Word \in Nat \ {0}
    BY QueueAssumption
  <1>2. (n % Word) \in Nat
    BY <1>1, Division
  <1> QED BY <1>2, Division, QueueAssumption DEF Slot

(* Messages fewer than the capacity apart have slots of their own. *)
LEMMA SlotsDiffer ==
  ASSUME SlotsStayInOrder, NEW p \in Nat, NEW q \in Nat,
         p <= q, q < p + QueueSize, q < MaxFrames, Slot(p) = Slot(q)
  PROVE  p = q
  <1>1. Word \in Nat \ {0} /\ QueueSize \in Nat \ {0} /\ MaxFrames \in Nat
    BY QueueAssumption, CanAssumption
  <1>2. CASE MaxFrames <= Word
    <2>1. p < Word /\ q < Word
      BY <1>1, <1>2
    <2>2. p % Word = p /\ q % Word = q
      BY <1>1, <2>1, SMT
    <2>3. p % QueueSize = q % QueueSize
      BY <2>2 DEF Slot
    <2> QED BY <1>1, <2>3, SameRemainder
  <1>3. CASE Word % QueueSize = 0
    <2>1. ASSUME NEW n \in Nat PROVE Slot(n) = n % QueueSize
      <3> DEFINE x == n \div Word  r == n % Word  w == Word \div QueueSize
                 y == r \div QueueSize  t == r % QueueSize
      <3>1. x \in Nat /\ r \in Nat /\ n = Word * x + r
        BY <1>1, Division
      <3>2. w \in Nat /\ Word = QueueSize * w
        <4>1. Word = QueueSize * (Word \div QueueSize) + (Word % QueueSize)
              /\ (Word \div QueueSize) \in Nat
          BY <1>1, Division
        <4> QED BY <1>1, <1>3, <4>1, SMT
      <3> HIDE DEF x, r, w
      <3>3. y \in Nat /\ t \in 0..(QueueSize - 1) /\ r = QueueSize * y + t
        BY <1>1, <3>1, Division
      <3> HIDE DEF y, t
      <3>4. n = QueueSize * (w * x + y) + t
        <4> DEFINE k == w * x
        <4>1. Word * x = QueueSize * k
          BY <1>1, <3>1, <3>2, SMT
        <4>2. k \in Nat
          BY <3>1, <3>2, SMT
        <4> HIDE DEF k
        <4>3. n = QueueSize * k + (QueueSize * y + t)
          BY <3>1, <3>3, <4>1, Zenon
        <4>4. n = QueueSize * (k + y) + t
          BY <1>1, <3>3, <4>2, <4>3, SMT
        <4> QED BY <4>4 DEF k
      <3>5. n % QueueSize = t
        <4> DEFINE k == w * x + y
        <4>1. k \in Nat /\ n = QueueSize * k + t
          BY <3>1, <3>2, <3>3, <3>4, SMT
        <4> HIDE DEF k
        <4> QED BY <1>1, <2>1, <3>3, <4>1, SMT
      <3> QED BY <3>5 DEF Slot, r, t
    <2>2. p % QueueSize = q % QueueSize
      BY <2>1
    <2> QED BY <1>1, <2>2, SameRemainder
  <1> QED BY <1>2, <1>3 DEF SlotsStayInOrder

-----------------------------------------------------------------------------
(* What is in the queue: s messages, the first of them number b.           *)
Held(els, b, s) == [i \in 1..s |-> els[Slot(b + i - 1)]]

LEMMA ContentsAre ==
  CountersAgree /\ processed \in Seq(Nat) => Contents = Held(elements, Len(processed), size)
  <1> SUFFICES ASSUME CountersAgree, processed \in Seq(Nat)
               PROVE  Contents = Held(elements, Len(processed), size)
    OBVIOUS
  <1> DEFINE b == Len(processed)
  <1>1. b \in Nat /\ Word \in Nat \ {0} /\ begin = b % Word
    BY QueueAssumption DEF CountersAgree
  <1>2. (b % Word) \in Nat
    BY <1>1, Division
  <1> HIDE DEF b
  <1>3. ASSUME NEW i \in 1..size PROVE (begin + i - 1) % Word = (b + i - 1) % Word
    <2>1. i \in Nat /\ i - 1 \in Nat /\ b + i - 1 = b + (i - 1)
      BY <1>1 DEF CountersAgree
    <2>2. begin \in Nat
      BY <1>1, <1>2
    <2>3. begin + i - 1 = begin + (i - 1)
      BY <2>1, <2>2
    <2>4. ((b % Word) + (i - 1)) % Word = (b + (i - 1)) % Word
      BY <1>1, <2>1, CountOn
    <2> QED BY <1>1, <2>1, <2>3, <2>4
  <1> QED BY <1>3 DEF Contents, Held, Slot, b

LEMMA ContentsAreNext ==
  CountersAgree' /\ processed' \in Seq(Nat)
    => Contents' = Held(elements', Len(processed'), size')
  <1>1. CountersAgree /\ processed \in Seq(Nat)
          => Contents = Held(elements, Len(processed), size)
    BY ContentsAre
  <1>2. (CountersAgree /\ processed \in Seq(Nat))'
          => (Contents = Held(elements, Len(processed), size))'
    BY <1>1, PTL
  <1> QED BY <1>2 DEF Held, Slot

LEMMA Sizes ==
  ASSUME NEW s \in Nat, s <= QueueSize, Len(processed') \in Nat,
         begin' = Len(processed') % Word, end' = (Len(processed') + s) % Word
  PROVE  size' = s /\ CountersAgree'
  <1> DEFINE b == Len(processed')
  <1>1. Word \in Nat \ {0} /\ s < Word
    BY QueueAssumption
  <1>2. begin' = b % Word /\ end' = (b + s) % Word /\ b \in Nat
    OBVIOUS
  <1> HIDE DEF b
  <1>3. (((b + s) % Word) + Word - (b % Word)) % Word = s
    BY <1>1, <1>2, Distance
  <1>4. size' = s
    BY <1>2, <1>3 DEF size
  <1> QED BY <1>4 DEF CountersAgree, size

(* A message that finds room is the last of the queue. *)
LEMMA Enqueued ==
  ASSUME SlotsStayInOrder, TypeOK, CountersAgree, NEW m \in Nat, Enqueue(m),
         size < QueueSize, Len(processed) + size < MaxFrames
  PROVE  /\ CountersAgree' /\ size' = size + 1
         /\ begin' \in Nat /\ end' \in Nat
         /\ elements' \in [0..(QueueSize - 1) -> Nat]
         /\ UNCHANGED <<processors, processed, seen>>
         /\ \A i \in 1..size : Contents'[i] = Contents[i]
         /\ Contents'[size + 1] = m
  <1> DEFINE b == Len(processed)
             s == size
             e == end
  <1>1. /\ elements' = [elements EXCEPT ![e % QueueSize] = m]
        /\ end' = (e + 1) % Word
        /\ UNCHANGED <<begin, processors, processed, seen>>
    BY DEF Enqueue
  <1>2. /\ b \in Nat /\ s \in Nat /\ e \in Nat /\ s < QueueSize /\ b + s < MaxFrames
        /\ begin = b % Word /\ e = (b + s) % Word
        /\ Word \in Nat \ {0} /\ QueueSize \in Nat \ {0} /\ processed \in Seq(Nat)
    BY QueueAssumption DEF TypeOK, CountersAgree
  <1> HIDE DEF b, s, e
  <1>3. end' = (b + (s + 1)) % Word
    <2>1. b + s \in Nat /\ 1 \in Nat /\ (b + s) + 1 = b + (s + 1)
      BY <1>2
    <2>2. (((b + s) % Word) + 1) % Word = ((b + s) + 1) % Word
      BY <1>2, <2>1, CountOn
    <2> QED BY <1>1, <1>2, <2>1, <2>2
  <1>4. Len(processed') = b /\ begin' = Len(processed') % Word
    BY <1>1, <1>2 DEF b
  <1>5. s + 1 \in Nat /\ s + 1 <= QueueSize
    BY <1>2
  <1>6. size' = s + 1 /\ CountersAgree'
    BY <1>2, <1>3, <1>4, <1>5, Sizes
  <1>7. Contents = Held(elements, b, s) /\ Contents' = Held(elements', b, s + 1)
    BY <1>1, <1>2, <1>4, <1>6, ContentsAre, ContentsAreNext DEF b, s
  <1>8. e % QueueSize = Slot(b + s) /\ Slot(b + s) \in 0..(QueueSize - 1)
    <2>1. b + s \in Nat
      BY <1>2
    <2> QED BY <1>2, <2>1, SlotExists DEF Slot
  <1>9. elements \in [0..(QueueSize - 1) -> Nat]
    BY DEF TypeOK
  <1>10. \A n \in Nat : elements'[Slot(n)] = IF Slot(n) = Slot(b + s) THEN m ELSE elements[Slot(n)]
    BY <1>1, <1>8, <1>9, SlotExists
  <1>11. ASSUME NEW i \in 1..s PROVE Contents'[i] = Contents[i]
    <2>1. /\ b + i - 1 \in Nat /\ b + s \in Nat /\ b + i - 1 <= b + s
          /\ b + s < (b + i - 1) + QueueSize /\ b + i - 1 # b + s
          /\ i \in 1..(s + 1)
      BY <1>2
    <2>2. Slot(b + i - 1) # Slot(b + s)
      BY <1>2, <2>1, SlotsDiffer
    <2>3. elements'[Slot(b + i - 1)] = elements[Slot(b + i - 1)]
      BY <1>10, <2>1, <2>2
    <2> QED BY <1>7, <2>1, <2>3 DEF Held
  <1>12. Contents'[s + 1] = m
    <2>1. b + (s + 1) - 1 = b + s /\ b + s \in Nat /\ s + 1 \in 1..(s + 1)
      BY <1>2
    <2> QED BY <1>7, <1>10, <2>1 DEF Held
  <1>13. begin' \in Nat /\ end' \in Nat
    <2>1. b + (s + 1) \in Nat
      BY <1>2
    <2> QED BY <1>1, <1>2, <1>3, <2>1, Division DEF TypeOK
  <1>14. elements' \in [0..(QueueSize - 1) -> Nat]
    BY <1>1, <1>8, <1>9
  <1> QED BY <1>1, <1>6, <1>11, <1>12, <1>13, <1>14 DEF s

(* The message taken is the first of the queue. *)
LEMMA Dequeued ==
  ASSUME TypeOK, CountersAgree, size # 0, ProcessNext
  PROVE  /\ CountersAgree' /\ size' = size - 1 /\ begin' \in Nat
         /\ UNCHANGED <<end, elements, processors>>
         /\ peek = Contents[1] /\ peek \in Nat
         /\ processed' = Append(processed, peek) /\ processed' \in Seq(Nat)
         /\ Len(processed') = Len(processed) + 1
         /\ \A i \in 1..(size - 1) : Contents'[i] = Contents[i + 1]
         /\ \E n \in Asked : seen' = Offer(n)
  <1> DEFINE b == Len(processed)
             s == size
  <1>1. /\ begin' = (begin + 1) % Word /\ processed' = Append(processed, peek)
        /\ UNCHANGED <<end, elements, processors>>
        /\ \E n \in Asked : seen' = Offer(n)
    BY DEF ProcessNext
  <1>2. /\ b \in Nat /\ s \in Nat /\ s # 0 /\ s <= QueueSize
        /\ begin = b % Word /\ end = (b + s) % Word /\ begin \in Nat
        /\ Word \in Nat \ {0} /\ QueueSize \in Nat \ {0} /\ processed \in Seq(Nat)
    BY QueueAssumption DEF TypeOK, CountersAgree
  <1>3. peek \in Nat
    BY <1>2, Division DEF peek, TypeOK
  <1>4. processed' \in Seq(Nat) /\ Len(processed') = b + 1
    BY <1>1, <1>2, <1>3
  <1>5. Contents = Held(elements, b, s)
    BY <1>2, ContentsAre
  <1> HIDE DEF b, s
  <1>6. begin' = (b + 1) % Word
    BY <1>1, <1>2, CountOn
  <1>7. end' = ((b + 1) + (s - 1)) % Word
    <2>1. (b + 1) + (s - 1) = b + s
      BY <1>2
    <2> QED BY <1>1, <1>2, <2>1
  <1>8. s - 1 \in Nat /\ s - 1 <= QueueSize /\ b + 1 \in Nat
    BY <1>2
  <1>9. size' = s - 1 /\ CountersAgree'
    BY <1>4, <1>6, <1>7, <1>8, Sizes
  <1>10. Contents' = Held(elements, b + 1, s - 1)
    BY <1>1, <1>4, <1>9, ContentsAreNext
  <1>11. ASSUME NEW i \in 1..(s - 1) PROVE Contents'[i] = Contents[i + 1]
    <2>1. i + 1 \in 1..s /\ (b + 1) + i - 1 = b + (i + 1) - 1
      BY <1>2
    <2> QED BY <1>5, <1>10, <2>1 DEF Held
  <1>12. peek = Contents[1]
    <2>1. b + 1 - 1 = b /\ 1 \in 1..s
      BY <1>2
    <2> QED BY <1>2, <1>5, <2>1 DEF Held, Slot, peek
  <1>13. begin' \in Nat
    BY <1>2, <1>6, <1>8, Division
  <1> QED BY <1>1, <1>3, <1>4, <1>9, <1>11, <1>12, <1>13 DEF b, s

LEMMA QueueUntouched ==
  ASSUME UNCHANGED <<begin, end, elements>>
  PROVE  size' = size /\ Contents' = Contents
  BY DEF size, Contents

-----------------------------------------------------------------------------
LEMMA InvariantInit ==
  ASSUME Init
  PROVE  IInv
  <1>1. /\ begin = 0 /\ end = 0 /\ elements = [i \in 0..(QueueSize - 1) |-> 0]
        /\ processors = <<>> /\ processed = <<>> /\ seen = [p \in Processors |-> <<>>]
        /\ started = FALSE /\ fifo = <<>> /\ frames = 0
    BY DEF Init, QueueInit, NoFrame
  <1>2. QueueSize \in Nat /\ Word \in Nat \ {0} /\ FifoSize \in Nat /\ MaxFrames \in Nat
    BY QueueAssumption, CanAssumption
  <1>3. 0 % Word = 0
    BY <1>2, OneQuotient
  <1>4. size = 0
    <2>1. (0 + Word - 0) % Word = 0
      BY <1>2, SMT
    <2> QED BY <1>1, <2>1 DEF size
  <1>5. TypeOK
    BY <1>1, <1>2 DEF TypeOK
  <1>6. CountersAgree /\ FramesAddUp
    BY <1>1, <1>2, <1>3, <1>4 DEF CountersAgree, FramesAddUp
  <1>7. FramesInOrder /\ SeenInOrder /\ AttachedFirst
    BY <1>1, <1>4 DEF FramesInOrder, SeenInOrder, AttachedFirst
  <1> QED BY <1>5, <1>6, <1>7 DEF IInv

(* Frames leave the controller from the front, whoever gets them. *)
LEMMA FifoShrinks ==
  ASSUME IInv, UNCHANGED <<queue, frames, started>>,
         fifo' \in Seq(Nat), NEW d \in Nat, Len(fifo') + d = Len(fifo),
         \A i \in 1..Len(fifo') : fifo'[i] = fifo[i + d]
  PROVE  IInv'
  <1>1. UNCHANGED <<begin, end, elements, processors, processed, seen>>
    BY DEF queue
  <1>2. size' = size /\ Contents' = Contents
    BY <1>1, QueueUntouched
  <1> DEFINE l == Len(fifo')
  <1>3. l \in Nat /\ Len(fifo) \in Nat /\ l + d = Len(fifo) /\ l <= Len(fifo)
    BY DEF IInv, TypeOK
  <1> HIDE DEF l
  <1>4. TypeOK'
    <2>1. l <= FifoSize
      BY <1>3, CanAssumption DEF IInv, TypeOK
    <2> QED BY <1>1, <2>1 DEF IInv, TypeOK, l
  <1>5. CountersAgree' /\ FramesAddUp'
    <2>1. Len(processed) + size + l <= frames
      BY <1>3 DEF IInv, TypeOK, CountersAgree, FramesAddUp
    <2> QED BY <1>1, <1>2, <2>1 DEF IInv, CountersAgree, FramesAddUp, l
  <1>6. \A i \in 1..l : (i + d) \in 1..Len(fifo) /\ fifo'[i] = fifo[i + d]
    BY <1>3 DEF l
  <1>7. \A i, j \in 1..l : i < j => i + d < j + d
    BY <1>3
  <1>8. FramesInOrder'
    BY <1>2, <1>6, <1>7 DEF IInv, FramesInOrder, l
  <1>9. SeenInOrder'
    BY <1>1, <1>2, <1>6 DEF IInv, SeenInOrder, l
  <1>10. AttachedFirst'
    BY <1>1 DEF IInv, AttachedFirst
  <1> QED BY <1>4, <1>5, <1>8, <1>9, <1>10 DEF IInv

LEMMA FifoUntouched ==
  ASSUME IInv, UNCHANGED <<queue, frames, started, fifo>>
  PROVE  IInv'
  <1>1. Len(fifo) \in Nat
    BY DEF IInv, TypeOK
  <1>2. \A i \in 1..Len(fifo') : fifo'[i] = fifo[i + 0]
    BY <1>1
  <1>3. fifo' \in Seq(Nat) /\ 0 \in Nat /\ Len(fifo') + 0 = Len(fifo)
    BY <1>1 DEF IInv, TypeOK
  <1> QED BY <1>2, <1>3, FifoShrinks

LEMMA FifoEmptied ==
  ASSUME IInv, UNCHANGED <<queue, frames, started>>, fifo' = <<>>
  PROVE  IInv'
  <1>1. Len(fifo) \in Nat /\ Len(fifo') + Len(fifo) = Len(fifo)
    BY DEF IInv, TypeOK
  <1>2. fifo' \in Seq(Nat) /\ \A i \in 1..Len(fifo') : fifo'[i] = fifo[i + Len(fifo)]
    OBVIOUS
  <1> QED BY <1>1, <1>2, FifoShrinks

LEMMA TailOf ==
  ASSUME NEW s \in Seq(Nat), s # <<>>
  PROVE  /\ Head(s) = s[1] /\ Head(s) \in Nat /\ Tail(s) \in Seq(Nat) /\ Len(s) >= 1
         /\ Len(Tail(s)) = Len(s) - 1 /\ Len(Tail(s)) + 1 = Len(s)
         /\ \A i \in 1..Len(Tail(s)) : Tail(s)[i] = s[i + 1]
  OBVIOUS

LEMMA AttachKeeps ==
  ASSUME IInv, Attach
  PROVE  IInv'
  <1> PICK p \in Processors : ~Contains(processors, p) /\ AttachProcessor(p)
    BY DEF Attach
  <1>1. /\ UNCHANGED <<begin, end, elements, processed, seen, fifo, frames>>
        /\ ~started
        /\ processors' = IF Len(processors) < MaxProcessors THEN Append(processors, p)
                                                            ELSE processors
    BY DEF Attach, AttachProcessor, bus
  <1>2. size' = size /\ Contents' = Contents
    BY <1>1, QueueUntouched
  <1>3. TypeOK'
    BY <1>1 DEF IInv, TypeOK
  <1>4. CountersAgree' /\ FramesAddUp' /\ FramesInOrder' /\ SeenInOrder'
    BY <1>1, <1>2 DEF IInv, CountersAgree, FramesAddUp, FramesInOrder, SeenInOrder
  <1>5. AttachedFirst'
    <2>1. \A q \in Processors : seen'[q] = <<>>
      BY <1>1 DEF IInv, AttachedFirst
    <2>2. processors \in Seq(Processors) /\ processors' \in Seq(Processors)
      BY <1>1 DEF IInv, TypeOK
    <2>3. \A i, j \in 1..Len(processors') : processors'[i] = processors'[j] => i = j
      <3>1. CASE processors' = processors
        BY <3>1 DEF IInv, AttachedFirst
      <3>2. CASE processors' = Append(processors, p)
        <4>1. \A i \in 1..Len(processors) : processors[i] # p
          BY <2>2 DEF Contains
        <4> QED BY <2>2, <3>2, <4>1 DEF IInv, AttachedFirst
      <3> QED BY <1>1, <3>1, <3>2
    <2>4. \A i \in 1..Len(processors') : processors'[i] \in Processors
      BY <2>2
    <2> QED BY <2>1, <2>3, <2>4 DEF AttachedFirst
  <1> QED BY <1>3, <1>4, <1>5 DEF IInv

(* A frame goes from the controller to the queue, if the queue has room.   *)
LEMMA ReceiveKeeps ==
  ASSUME SlotsStayInOrder, IInv, Receive
  PROVE  IInv'
  <1>1. UNCHANGED <<frames, started>>
    BY DEF Receive
  <1>2. CASE fifo = <<>>
    BY <1>1, <1>2, FifoUntouched DEF Receive
  <1>3. CASE fifo # <<>>
    <2> DEFINE m == Head(fifo)
               b == Len(processed)
               l == Len(fifo)
    <2>1. Enqueue(m) /\ fifo' = Tail(fifo)
      BY <1>3 DEF Receive
    <2>2. /\ m = fifo[1] /\ m \in Nat /\ fifo' \in Seq(Nat) /\ 1 \in 1..l
          /\ Len(fifo') = l - 1 /\ Len(fifo') + 1 = l /\ l \in Nat /\ l >= 1
          /\ \A i \in 1..Len(fifo') : fifo'[i] = fifo[i + 1] /\ (i + 1) \in 1..l
      <3>1. fifo \in Seq(Nat)
        BY DEF IInv, TypeOK
      <3> QED BY <1>3, <2>1, <3>1, TailOf
    <2>3. /\ size \in Nat /\ size <= QueueSize /\ b \in Nat /\ QueueSize \in Nat
          /\ b + size + l <= frames /\ frames \in Nat /\ frames <= MaxFrames
          /\ MaxFrames \in Nat /\ FifoSize \in Nat /\ l <= FifoSize
      BY QueueAssumption, CanAssumption DEF IInv, TypeOK, CountersAgree, FramesAddUp
    <2>4. CASE size < QueueSize
      <3> DEFINE s == size
      <3>1. b + s < MaxFrames /\ b + (s + 1) + (l - 1) <= frames /\ l - 1 <= FifoSize
        BY <2>2, <2>3
      <3>2. /\ CountersAgree' /\ size' = s + 1
            /\ begin' \in Nat /\ end' \in Nat
            /\ elements' \in [0..(QueueSize - 1) -> Nat]
            /\ UNCHANGED <<processors, processed, seen>>
            /\ \A i \in 1..s : Contents'[i] = Contents[i]
            /\ Contents'[s + 1] = m
        BY <2>1, <2>2, <2>4, <3>1, Enqueued DEF IInv
      <3>3. TypeOK'
        BY <1>1, <2>2, <3>1, <3>2 DEF IInv, TypeOK
      <3>4. FramesAddUp'
        BY <1>1, <2>2, <3>1, <3>2 DEF FramesAddUp
      <3> HIDE DEF s, m, l, b
      <3>5. /\ s \in Nat
            /\ \A i \in 1..(s + 1) : i \in 1..s \/ i = s + 1
            /\ \A i, j \in 1..(s + 1) : i < j => i \in 1..s
        BY <2>3 DEF s
      <3>6. /\ \A i \in 1..s : Contents[i] \in 1..frames
            /\ \A i \in 1..l : fifo[i] \in 1..frames
            /\ \A i, j \in 1..s : i < j => Contents[i] < Contents[j]
            /\ \A i, j \in 1..l : i < j => fifo[i] < fifo[j]
            /\ \A i \in 1..s, j \in 1..l : Contents[i] < fifo[j]
        BY DEF IInv, FramesInOrder, s, l
      <3>7. FramesInOrder'
        <4>1. \A i \in 1..(s + 1) : Contents'[i] \in 1..frames
          BY <2>2, <3>2, <3>5, <3>6
        <4>2. \A i \in 1..Len(fifo') : fifo'[i] \in 1..frames
          BY <2>2, <3>6
        <4>3. ASSUME NEW i \in 1..(s + 1), NEW j \in 1..(s + 1), i < j
              PROVE  Contents'[i] < Contents'[j]
          <5>1. i \in 1..s
            BY <3>5, <4>3
          <5>2. CASE j \in 1..s
            BY <3>2, <3>6, <4>3, <5>1, <5>2
          <5>3. CASE j = s + 1
            BY <2>2, <3>2, <3>6, <5>1, <5>3
          <5> QED BY <3>5, <5>2, <5>3
        <4>4. \A i, j \in 1..Len(fifo') : i < j => fifo'[i] < fifo'[j]
          <5>1. \A i, j \in 1..Len(fifo') : i < j => i + 1 < j + 1
            BY <2>2
          <5> QED BY <2>2, <3>6, <5>1
        <4>5. ASSUME NEW i \in 1..(s + 1), NEW j \in 1..Len(fifo')
              PROVE  Contents'[i] < fifo'[j]
          <5>1. CASE i \in 1..s
            BY <2>2, <3>2, <3>6, <5>1
          <5>2. CASE i = s + 1
            <6>1. 1 < j + 1
              BY <2>2
            <6> QED BY <2>2, <3>2, <3>6, <5>2, <6>1
          <5> QED BY <3>5, <5>1, <5>2
        <4> QED BY <1>1, <3>2, <4>1, <4>2, <4>3, <4>4, <4>5 DEF FramesInOrder
      <3>8. SeenInOrder'
        <4> SUFFICES ASSUME NEW p \in Processors, NEW k \in 1..Len(seen[p])
                     PROVE  /\ \A i \in 1..(s + 1) : seen[p][k] < Contents'[i]
                            /\ \A i \in 1..Len(fifo') : seen[p][k] < fifo'[i]
          BY <1>1, <3>2 DEF IInv, SeenInOrder
        <4>1. /\ \A i \in 1..s : seen[p][k] < Contents[i]
              /\ \A i \in 1..l : seen[p][k] < fifo[i]
          BY DEF IInv, SeenInOrder, s, l
        <4> QED BY <2>2, <3>2, <3>5, <4>1
      <3>9. AttachedFirst'
        BY <1>1, <3>2 DEF IInv, AttachedFirst
      <3> QED BY <3>2, <3>3, <3>4, <3>7, <3>8, <3>9 DEF IInv
    <2>5. CASE ~(size < QueueSize)
      <3>1. UNCHANGED queue
        BY <2>1, <2>5 DEF Enqueue, queue
      <3> QED BY <1>1, <2>2, <3>1, FifoShrinks
    <2> QED BY <2>4, <2>5
  <1> QED BY <1>2, <1>3

LEMMA Appended ==
  ASSUME NEW s \in Seq(Nat), NEW x \in Nat, NEW t, t = s \/ t = Append(s, x)
  PROVE  /\ t \in Seq(Nat) /\ Len(s) <= Len(t) /\ Len(t) \in Nat /\ Len(s) \in Nat
         /\ \A k \in 1..Len(s) : k \in 1..Len(t) /\ t[k] = s[k]
         /\ \A k \in 1..Len(t) : k \in 1..Len(s) \/ (k = Len(s) + 1 /\ t = Append(s, x) /\ t[k] = x)
  <1>1. Len(s) \in Nat
    OBVIOUS
  <1>2. CASE t = s
    BY <1>1, <1>2
  <1>3. CASE t = Append(s, x)
    <2>1. t \in Seq(Nat) /\ Len(t) = Len(s) + 1
      BY <1>3
    <2>2. \A k \in 1..Len(s) : t[k] = s[k]
      BY <1>3
    <2>3. t[Len(s) + 1] = x
      BY <1>3
    <2> QED BY <1>1, <1>3, <2>1, <2>2, <2>3
  <1> QED BY <1>2, <1>3

LEMMA AppendedLast ==
  ASSUME NEW s \in Seq(Nat), NEW x \in Nat
  PROVE  Contains(Append(s, x), x)
  <1>1. Len(s) + 1 \in DOMAIN Append(s, x) /\ Append(s, x)[Len(s) + 1] = x
    OBVIOUS
  <1> QED BY <1>1 DEF Contains

(* The first of the queue is offered to some of the processors, in turn. *)
LEMMA ProcessKeeps ==
  ASSUME IInv, Process
  PROVE  IInv'
  <1>1. started /\ ProcessNext /\ UNCHANGED <<started, fifo, frames>>
    BY DEF Process, Resumable, tasks, bus
  <1>2. CASE size = 0
    <2>1. UNCHANGED queue
      BY <1>1, <1>2 DEF ProcessNext, queue
    <2> QED BY <1>1, <2>1, FifoUntouched
  <1>3. CASE size # 0
    <2> DEFINE s == size
               m == peek
               l == Len(fifo)
    <2>1. /\ CountersAgree' /\ size' = s - 1 /\ begin' \in Nat
          /\ UNCHANGED <<end, elements, processors>>
          /\ m = Contents[1] /\ m \in Nat
          /\ processed' \in Seq(Nat) /\ Len(processed') = Len(processed) + 1
          /\ \A i \in 1..(s - 1) : Contents'[i] = Contents[i + 1]
      BY <1>1, <1>3, Dequeued DEF IInv
    <2> PICK n \in Asked : seen' = Offer(n)
      BY <1>1, <1>3, Dequeued DEF IInv
    <2>2. /\ s \in Nat /\ l \in Nat /\ Len(processed) \in Nat
          /\ processors \in Seq(Processors) /\ seen \in [Processors -> Seq(Nat)]
          /\ frames \in Nat
      BY CanAssumption DEF IInv, TypeOK, CountersAgree
    <2>3. \A p \in Processors : seen'[p] =
            IF \E i \in 1..n : processors[i] = p THEN Append(seen[p], m) ELSE seen[p]
      BY DEF Offer
    <2>4. n \in 0..Len(processors)
      BY <2>2 DEF Asked
    <2>5. seen' \in [Processors -> Seq(Nat)]
      BY <2>1, <2>2, <2>3 DEF Offer
    <2>6. /\ \A i \in 1..(s - 1) : (i + 1) \in 1..s /\ 1 < i + 1
          /\ 1 \in 1..s /\ \A i, j \in 1..(s - 1) : i < j => i + 1 < j + 1
      BY <1>3, <2>2
    <2> HIDE DEF s, m, l
    <2>7. /\ \A i \in 1..s : Contents[i] \in 1..frames
          /\ \A i \in 1..l : fifo[i] \in 1..frames
          /\ \A i, j \in 1..s : i < j => Contents[i] < Contents[j]
          /\ \A i, j \in 1..l : i < j => fifo[i] < fifo[j]
          /\ \A i \in 1..s, j \in 1..l : Contents[i] < fifo[j]
      BY DEF IInv, FramesInOrder, s, l
    <2>8. TypeOK'
      BY <1>1, <2>1, <2>5 DEF IInv, TypeOK
    <2>9. FramesAddUp'
      <3>1. (Len(processed) + 1) + (s - 1) + l = Len(processed) + s + l
        BY <2>2
      <3> QED BY <1>1, <2>1, <3>1 DEF IInv, FramesAddUp, s, l
    <2>10. FramesInOrder'
      BY <1>1, <2>1, <2>6, <2>7 DEF FramesInOrder, l
    <2>11. SeenInOrder'
      <3> SUFFICES ASSUME NEW p \in Processors
                   PROVE  /\ \A k \in 1..Len(seen'[p]) :
                               /\ seen'[p][k] <= frames
                               /\ \A i \in 1..(s - 1) : seen'[p][k] < Contents'[i]
                               /\ \A i \in 1..l : seen'[p][k] < fifo[i]
                          /\ \A k \in 1..(Len(seen'[p]) - 1) : seen'[p][k] < seen'[p][k + 1]
        BY <1>1, <2>1 DEF SeenInOrder, l
      <3> DEFINE mine == seen[p]
                 next == seen'[p]
      <3>1. /\ \A k \in 1..Len(mine) :
                 /\ mine[k] <= frames
                 /\ \A i \in 1..s : mine[k] < Contents[i]
                 /\ \A i \in 1..l : mine[k] < fifo[i]
            /\ \A k \in 1..(Len(mine) - 1) : mine[k] < mine[k + 1]
        BY DEF IInv, SeenInOrder, s, l
      <3>2. next = mine \/ next = Append(mine, m)
        BY <2>3
      <3>3. mine \in Seq(Nat)
        BY <2>2
      <3> HIDE DEF mine, next
      <3>4. /\ next \in Seq(Nat) /\ Len(mine) <= Len(next)
            /\ Len(next) \in Nat /\ Len(mine) \in Nat
            /\ \A k \in 1..Len(mine) : k \in 1..Len(next) /\ next[k] = mine[k]
            /\ \A k \in 1..Len(next) :
                 k \in 1..Len(mine) \/ (k = Len(mine) + 1 /\ next = Append(mine, m) /\ next[k] = m)
        <4>1. m \in Nat
          BY <2>1
        <4> QED BY <3>2, <3>3, <4>1, Appended, Zenon
      <3>5. /\ m <= frames
            /\ \A i \in 1..(s - 1) : m < Contents'[i]
            /\ \A i \in 1..l : m < fifo[i]
        BY <2>1, <2>2, <2>6, <2>7
      <3>6. ASSUME NEW k \in 1..Len(next)
            PROVE  /\ next[k] <= frames
                   /\ \A i \in 1..(s - 1) : next[k] < Contents'[i]
                   /\ \A i \in 1..l : next[k] < fifo[i]
        <4>1. CASE k \in 1..Len(mine)
          BY <2>1, <2>6, <3>1, <3>4, <4>1
        <4>2. CASE k \notin 1..Len(mine)
          BY <3>4, <3>5, <4>2
        <4> QED BY <4>1, <4>2
      <3>7. ASSUME NEW k \in 1..(Len(next) - 1)
            PROVE  next[k] < next[k + 1]
        <4>1. k \in 1..Len(next) /\ (k + 1) \in 1..Len(next)
          BY <3>4
        <4>2. CASE (k + 1) \in 1..Len(mine)
          <5>1. k \in 1..(Len(mine) - 1) /\ k \in 1..Len(mine)
            BY <3>4, <4>2
          <5> QED BY <3>1, <3>4, <4>2, <5>1
        <4>3. CASE (k + 1) \notin 1..Len(mine)
          <5>1. k + 1 = Len(mine) + 1 /\ next[k + 1] = m
            BY <3>4, <4>1, <4>3
          <5>2. k \in 1..Len(mine)
            BY <3>4, <5>1
          <5> QED BY <2>1, <2>6, <3>1, <3>4, <5>1, <5>2
        <4> QED BY <4>2, <4>3
      <3> QED BY <3>6, <3>7 DEF next
    <2>12. AttachedFirst'
      <3>1. \A i \in 1..Len(processors) : processors[i] \in Processors
        BY <2>2
      <3>2. ASSUME NEW i \in 1..Len(processors), NEW j \in 1..Len(processors), j < i,
                   NEW k \in 1..Len(seen'[processors[i]])
            PROVE  Contains(seen'[processors[j]], seen'[processors[i]][k])
        <4> DEFINE p == processors[i]
                   q == processors[j]
                   sp == seen[p]
                   sq == seen[q]
                   np == seen'[p]
                   nq == seen'[q]
        <4>1. p \in Processors /\ q \in Processors
          BY <3>1
        <4>2. sp \in Seq(Nat) /\ sq \in Seq(Nat)
          BY <2>2, <4>1
        <4>3. np = sp \/ np = Append(sp, m)
          BY <2>3, <4>1
        <4>10. nq = sq \/ nq = Append(sq, m)
          BY <2>3, <4>1
        <4>11. m \in Nat
          BY <2>1
        <4> HIDE DEF sp, sq, np, nq
        <4>4. /\ np \in Seq(Nat) /\ Len(sp) <= Len(np) /\ Len(np) \in Nat /\ Len(sp) \in Nat
              /\ \A x \in 1..Len(sp) : x \in 1..Len(np) /\ np[x] = sp[x]
              /\ \A x \in 1..Len(np) :
                   x \in 1..Len(sp) \/ (x = Len(sp) + 1 /\ np = Append(sp, m) /\ np[x] = m)
          BY <4>2, <4>3, <4>11, Appended, Zenon
        <4>5. \A x \in 1..Len(sq) : x \in 1..Len(nq) /\ nq[x] = sq[x]
          BY <4>2, <4>10, <4>11, Appended
        <4>6. nq \in Seq(Nat)
          BY <4>2, <4>10, <4>11, Appended
        <4>7. k \in 1..Len(np)
          BY <3>2 DEF np
        <4>8. CASE k \in 1..Len(sp)
          <5>1. Contains(sq, sp[k])
            BY <3>2, <4>8 DEF IInv, AttachedFirst, sp, sq
          <5>2. PICK x \in 1..Len(sq) : sq[x] = sp[k]
            <6>1. DOMAIN sq = 1..Len(sq)
              BY <4>2
            <6> QED BY <5>1, <6>1 DEF Contains
          <5>3. x \in DOMAIN nq /\ nq[x] = np[k]
            <6>1. x \in 1..Len(nq) /\ nq[x] = sq[x]
              BY <4>5
            <6>2. np[k] = sp[k]
              BY <4>4, <4>8
            <6>3. DOMAIN nq = 1..Len(nq)
              BY <4>6
            <6> QED BY <5>2, <6>1, <6>2, <6>3
          <5> QED BY <5>3 DEF Contains, np, nq
        <4>9. CASE k \notin 1..Len(sp)
          <5>1. np = Append(sp, m) /\ np[k] = m /\ np # sp
            <6>1. k = Len(sp) + 1 /\ np = Append(sp, m) /\ np[k] = m
              BY <4>4, <4>7, <4>9
            <6>2. Len(np) = Len(sp) + 1 /\ Len(sp) \in Nat
              BY <2>1, <4>2, <6>1
            <6> QED BY <6>1, <6>2
          <5>2. PICK x \in 1..n : processors[x] = p
            BY <2>3, <4>1, <5>1 DEF sp, np
          <5>3. x \in 1..Len(processors)
            BY <2>2, <2>4
          <5>4. x = i
            BY <5>2, <5>3 DEF IInv, AttachedFirst
          <5>5. j \in 1..n
            BY <2>2, <2>4, <3>2, <5>4
          <5>6. nq = Append(sq, m)
            BY <2>3, <4>1, <5>5 DEF sq, nq
          <5> QED BY <2>1, <4>2, <5>1, <5>6, AppendedLast DEF np, nq
        <4> QED BY <4>8, <4>9
      <3> QED BY <1>1, <2>1, <3>2 DEF IInv, AttachedFirst
    <2> QED BY <2>1, <2>8, <2>9, <2>10, <2>11, <2>12 DEF IInv
  <1> QED BY <1>2, <1>3

(* A frame comes in; the newest in a full controller gives way to it. *)
LEMMA FrameArrivesKeeps ==
  ASSUME IInv, FrameArrives
  PROVE  IInv'
  <1> DEFINE l == Len(fifo)
             f == frames + 1
  <1>1. /\ frames < MaxFrames /\ frames' = f
        /\ UNCHANGED <<begin, end, elements, processors, processed, seen, started>>
    BY DEF FrameArrives, queue, tasks
  <1>2. size' = size /\ Contents' = Contents
    BY <1>1, QueueUntouched
  <1>3. /\ fifo \in Seq(Nat) /\ l \in Nat /\ l <= FifoSize /\ FifoSize \in Nat \ {0}
        /\ frames \in Nat /\ MaxFrames \in Nat /\ f \in Nat /\ frames < f /\ f <= MaxFrames
        /\ size \in Nat /\ Len(processed) \in Nat
    BY <1>1, CanAssumption DEF IInv, TypeOK, CountersAgree
  <1>4. \/ fifo' = fifo
        \/ l < FifoSize /\ fifo' = Append(fifo, f)
        \/ l = FifoSize /\ fifo' = [fifo EXCEPT ![l] = f]
    <2>1. fifo' = IF handles = {} THEN fifo
                  ELSE IF l < FifoSize THEN Append(fifo, f)
                  ELSE [fifo EXCEPT ![FifoSize] = f]
      BY <1>1 DEF FrameArrives
    <2>2. l < FifoSize \/ l = FifoSize
      BY <1>3
    <2> HIDE DEF l, f
    <2> QED BY <2>1, <2>2
  <1> HIDE DEF l, f
  <1>5. /\ fifo' \in Seq(Nat) /\ Len(fifo') \in {l, l + 1} /\ Len(fifo') <= FifoSize
        /\ \A i \in 1..Len(fifo') : \/ i \in 1..l /\ fifo'[i] = fifo[i]
                                    \/ i = Len(fifo') /\ fifo'[i] = f
    <2>1. l = Len(fifo)
      BY DEF l
    <2>2. CASE fifo' = fifo
      BY <1>3, <2>1, <2>2
    <2>3. CASE l < FifoSize /\ fifo' = Append(fifo, f)
      BY <1>3, <2>1, <2>3
    <2>4. CASE l = FifoSize /\ fifo' = [fifo EXCEPT ![l] = f]
      <3>1. l \in 1..l /\ fifo \in [1..l -> Nat]
        <4>1. fifo \in [1..Len(fifo) -> Nat]
          BY <1>3
        <4>2. l \in Nat \ {0}
          BY <1>3, <2>4
        <4> QED BY <2>1, <4>1, <4>2
      <3>2. fifo' \in [1..l -> Nat]
        BY <1>3, <2>4, <3>1
      <3>3. fifo' \in Seq(Nat) /\ Len(fifo') = l
        BY <1>3, <3>2
      <3> QED BY <1>3, <2>4, <3>1, <3>3
    <2> QED BY <1>4, <2>2, <2>3, <2>4
  <1>6. TypeOK'
    BY <1>1, <1>3, <1>5 DEF IInv, TypeOK
  <1>7. CountersAgree'
    BY <1>1, <1>2 DEF IInv, CountersAgree
  <1>8. FramesAddUp'
    <2>1. Len(processed) + size + l <= frames
      BY DEF IInv, FramesAddUp, l
    <2>2. Len(processed) + size + Len(fifo') <= f
      BY <1>3, <1>5, <2>1 DEF f
    <2> QED BY <1>1, <1>2, <2>2 DEF FramesAddUp
  <1>9. /\ \A i \in 1..size : Contents[i] \in 1..frames
        /\ \A i \in 1..l : fifo[i] \in 1..frames
        /\ \A i, j \in 1..size : i < j => Contents[i] < Contents[j]
        /\ \A i, j \in 1..l : i < j => fifo[i] < fifo[j]
        /\ \A i \in 1..size, j \in 1..l : Contents[i] < fifo[j]
    BY DEF IInv, FramesInOrder, l
  <1>10. \A x \in 1..frames : x \in 1..f /\ x < f
    BY <1>3 DEF f
  <1>11. f \in 1..f
    BY <1>3
  <1>12. FramesInOrder'
    <2>1. \A i \in 1..size : Contents[i] \in 1..f /\ Contents[i] < f
      BY <1>9, <1>10
    <2>2. \A i \in 1..Len(fifo') : fifo'[i] \in 1..f
      BY <1>5, <1>9, <1>10, <1>11
    <2>3. ASSUME NEW i \in 1..Len(fifo'), NEW j \in 1..Len(fifo'), i < j
          PROVE  fifo'[i] < fifo'[j]
      <3>1. i # Len(fifo')
        BY <1>3, <1>5, <2>3
      <3>2. i \in 1..l /\ fifo'[i] = fifo[i]
        BY <1>5, <3>1
      <3> QED BY <1>5, <1>9, <1>10, <2>3, <3>2
    <2>4. \A i \in 1..size, j \in 1..Len(fifo') : Contents[i] < fifo'[j]
      BY <1>5, <1>9, <2>1
    <2> QED BY <1>1, <1>2, <1>9, <2>1, <2>2, <2>3, <2>4 DEF FramesInOrder
  <1>13. SeenInOrder'
    <2> SUFFICES ASSUME NEW p \in Processors, NEW k \in 1..Len(seen[p])
                 PROVE  seen[p][k] <= f /\ \A i \in 1..Len(fifo') : seen[p][k] < fifo'[i]
      BY <1>1, <1>2 DEF IInv, SeenInOrder
    <2>1. seen[p][k] <= frames /\ \A i \in 1..l : seen[p][k] < fifo[i]
      BY DEF IInv, SeenInOrder, l
    <2>2. seen[p][k] \in Nat
      BY DEF IInv, TypeOK
    <2>3. seen[p][k] < f
      BY <1>3, <2>1, <2>2 DEF f
    <2>4. seen[p][k] <= f
      BY <1>3, <2>2, <2>3
    <2>5. \A i \in 1..Len(fifo') : seen[p][k] < fifo'[i]
      BY <1>5, <2>1, <2>3
    <2> QED BY <2>4, <2>5
  <1>14. AttachedFirst'
    BY <1>1 DEF IInv, AttachedFirst
  <1> QED BY <1>6, <1>7, <1>8, <1>12, <1>13, <1>14 DEF IInv

LEMMA TransmittingKeeps ==
  ASSUME IInv, NEW t \in Transmitters, Transmitting(t)
  PROVE  IInv'
  <1>1. CASE TransmitAccess(t)
    <2>1. UNCHANGED <<queue, frames, started, fifo>>
      BY <1>1 DEF TransmitAccess, bus
    <2> QED BY <2>1, FifoUntouched
  <1>2. CASE Transmit(t)
    <2>1. UNCHANGED <<queue, frames, started, fifo>>
      BY <1>2 DEF Transmit
    <2> QED BY <2>1, FifoUntouched
  <1>3. CASE TransmitEnd(t)
    <2>1. UNCHANGED <<queue, frames, started>> /\ (fifo' = fifo \/ fifo' = <<>>)
      BY <1>3 DEF TransmitEnd, Disable
    <2> QED BY <2>1, FifoUntouched, FifoEmptied
  <1> QED BY <1>1, <1>2, <1>3 DEF Transmitting

LEMMA InvariantNext ==
  ASSUME SlotsStayInOrder, IInv, [Next]_vars
  PROVE  IInv'
  <1>1. CASE ReceiveAccess \/ MessageIsSent \/ UNCHANGED vars
    <2>1. UNCHANGED <<queue, frames, started, fifo>>
      BY <1>1 DEF ReceiveAccess, MessageIsSent, vars, tasks, bus
    <2> QED BY <2>1, FifoUntouched
  <1> QED BY <1>1, AttachKeeps, TransmittingKeeps, ReceiveKeeps, ProcessKeeps,
             FrameArrivesKeeps DEF Next

(* The inductive invariant holds of every behaviour. *)
THEOREM InvariantHolds ==
  ASSUME SlotsStayInOrder
  PROVE  Spec => []IInv
  <1>1. Init => IInv
    BY InvariantInit
  <1>2. IInv /\ [Next]_vars => IInv'
    BY InvariantNext
  <1> QED BY <1>1, <1>2, PTL DEF Spec

(* Each processor is offered the frames in the order they came, none of    *)
(* them twice, and only those that every processor before it has seen.     *)
THEOREM FramesAreOfferedInOrder ==
  ASSUME SlotsStayInOrder
  PROVE  Spec => []OfferedInOrder
  <1>1. IInv => OfferedInOrder
    <2> SUFFICES ASSUME IInv, NEW i \in 1..Len(processors)
                 PROVE  LET mine == seen[processors[i]]
                        IN  /\ \A k \in 1..(Len(mine) - 1) : mine[k] < mine[k + 1]
                            /\ \A k \in 1..Len(mine), j \in 1..(i - 1) :
                                 Contains(seen[processors[j]], mine[k])
      BY DEF OfferedInOrder
    <2>1. processors[i] \in Processors /\ Len(processors) \in Nat
      BY DEF IInv, TypeOK
    <2>2. \A j \in 1..(i - 1) : j \in 1..Len(processors) /\ j < i
      BY <2>1
    <2> QED BY <2>1, <2>2 DEF IInv, SeenInOrder, AttachedFirst
  <1>2. Spec => []IInv
    BY InvariantHolds
  <1> QED BY <1>1, <1>2, PTL

-----------------------------------------------------------------------------
LEMMA ContentsIsSequence ==
  ASSUME IInv
  PROVE  Contents \in Seq(Nat) /\ Len(Contents) = size /\ DOMAIN Contents = 1..size
         /\ size \in Nat /\ QueueSize \in Nat /\ size <= QueueSize
  <1>1. /\ size \in Nat /\ QueueSize \in Nat /\ size <= QueueSize
        /\ Contents = Held(elements, Len(processed), size) /\ Len(processed) \in Nat
    BY QueueAssumption, ContentsAre DEF IInv, TypeOK, CountersAgree
  <1>2. \A i \in 1..size : Contents[i] \in Nat
    BY CanAssumption DEF IInv, TypeOK, FramesInOrder
  <1>3. DOMAIN Contents = 1..size
    BY DEF Contents
  <1>4. Contents = [i \in 1..size |-> Contents[i]]
    BY <1>3 DEF Contents
  <1> QED BY <1>1, <1>2, <1>3, <1>4

LEMMA WaitingStays ==
  ASSUME UNCHANGED <<queue, fifo>>, NEW f, Waiting(f)
  PROVE  Waiting(f)'
  <1>1. fifo' = fifo /\ Contents' = Contents
    BY QueueUntouched DEF queue
  <1> QED BY <1>1 DEF Waiting, Contains

(* A frame that no longer waits was processed, or a buffer was full.       *)
LEMMA StepLosesNothing ==
  ASSUME SlotsStayInOrder, IInv, [Next]_vars, NEW f \in 1..MaxFrames,
         "receive" \in handles, Waiting(f), ~Waiting(f)'
  PROVE  Contains(processed', f) \/ Len(fifo) = FifoSize \/ size = QueueSize
  <1>1. ~UNCHANGED <<queue, fifo>>
    BY WaitingStays
  <1>2. /\ fifo \in Seq(Nat) /\ Len(fifo) <= FifoSize /\ FifoSize \in Nat
        /\ DOMAIN fifo = 1..Len(fifo)
    BY CanAssumption DEF IInv, TypeOK
  <1>3. /\ Contents \in Seq(Nat) /\ Len(Contents) = size /\ DOMAIN Contents = 1..size
        /\ size \in Nat /\ QueueSize \in Nat /\ size <= QueueSize
    BY ContentsIsSequence
  <1>4. IInv'
    BY InvariantNext
  <1>5. DOMAIN Contents' = 1..size'
    BY DEF Contents
  <1>6. ASSUME NEW t \in Transmitters, Transmitting(t) PROVE FALSE
    <2>1. handles \ {t} # {}
      BY CanAssumption
    <2> QED BY <1>1, <1>6, <2>1 DEF Transmitting, TransmitAccess, Transmit, TransmitEnd, bus
  <1>7. ASSUME Attach PROVE FALSE
    <2>1. UNCHANGED <<begin, end, elements, fifo>>
      BY <1>7 DEF Attach, AttachProcessor, bus
    <2> QED BY <2>1, QueueUntouched DEF Waiting, Contains
  <1>8. CASE Receive
    <2>1. fifo # <<>>
      BY <1>1, <1>8 DEF Receive
    <2> DEFINE m == Head(fifo)
    <2>2. Enqueue(m) /\ fifo' = Tail(fifo)
      BY <1>8, <2>1 DEF Receive
    <2> SUFFICES ASSUME size # QueueSize PROVE FALSE
      OBVIOUS
    <2>3. /\ m = fifo[1] /\ m \in Nat /\ fifo' \in Seq(Nat)
          /\ Len(fifo') = Len(fifo) - 1
          /\ \A i \in 1..Len(fifo') : fifo'[i] = fifo[i + 1]
      BY <1>2, <2>1, <2>2, TailOf
    <2>4. size < QueueSize /\ Len(processed) + size < MaxFrames
      <3>1. /\ Len(fifo) >= 1 /\ Len(processed) \in Nat /\ Len(fifo) \in Nat
            /\ Len(processed) + size + Len(fifo) <= frames
            /\ frames \in Nat /\ frames <= MaxFrames /\ MaxFrames \in Nat
        BY <1>2, <2>1, TailOf, CanAssumption DEF IInv, TypeOK, FramesAddUp
      <3> QED BY <1>3, <3>1
    <2>5. /\ size' = size + 1 /\ Contents'[size + 1] = m
          /\ \A i \in 1..size : Contents'[i] = Contents[i]
      BY <2>2, <2>3, <2>4, Enqueued DEF IInv
    <2>6. CASE Contains(Contents, f)
      <3>1. PICK i \in 1..size : Contents[i] = f
        BY <1>3, <2>6 DEF Contains
      <3>2. i \in DOMAIN Contents' /\ Contents'[i] = f
        BY <1>3, <1>5, <2>5, <3>1
      <3> QED BY <3>2 DEF Waiting, Contains
    <2>7. CASE Contains(fifo, f)
      <3>1. PICK i \in 1..Len(fifo) : fifo[i] = f
        BY <1>2, <2>7 DEF Contains
      <3>2. CASE i = 1
        <4>1. size + 1 \in DOMAIN Contents' /\ Contents'[size + 1] = f
          BY <1>3, <1>5, <2>3, <2>5, <3>1, <3>2
        <4> QED BY <4>1 DEF Waiting, Contains
      <3>3. CASE i # 1
        <4>1. /\ i - 1 \in 1..Len(fifo') /\ (i - 1) + 1 = i
              /\ DOMAIN fifo' = 1..Len(fifo')
          BY <1>2, <2>3, <3>3
        <4>2. i - 1 \in DOMAIN fifo' /\ fifo'[i - 1] = f
          BY <2>3, <3>1, <4>1
        <4> QED BY <4>2 DEF Waiting, Contains
      <3> QED BY <3>2, <3>3
    <2> QED BY <2>6, <2>7 DEF Waiting
  <1>9. CASE Process
    <2>1. ProcessNext /\ fifo' = fifo
      BY <1>9 DEF Process, bus
    <2>2. size # 0
      BY <1>1, <2>1 DEF ProcessNext, queue
    <2>3. /\ size' = size - 1 /\ peek = Contents[1] /\ peek \in Nat
          /\ processed' = Append(processed, peek)
          /\ \A i \in 1..(size - 1) : Contents'[i] = Contents[i + 1]
      BY <2>1, <2>2, Dequeued DEF IInv
    <2>4. ~Contains(fifo, f)
      BY <2>1 DEF Waiting, Contains
    <2>5. PICK i \in 1..size : Contents[i] = f
      BY <1>3, <2>4 DEF Waiting, Contains
    <2>6. i = 1
      <3> SUFFICES ASSUME i # 1 PROVE FALSE
        OBVIOUS
      <3>1. i - 1 \in 1..(size - 1) /\ (i - 1) + 1 = i
        BY <1>3
      <3>2. i - 1 \in DOMAIN Contents' /\ Contents'[i - 1] = f
        BY <1>5, <2>3, <2>5, <3>1
      <3> QED BY <3>2 DEF Waiting, Contains
    <2>7. processed \in Seq(Nat)
      BY DEF IInv, TypeOK
    <2> QED BY <2>3, <2>5, <2>6, <2>7, AppendedLast
  <1>12. Len(fifo) < FifoSize \/ Len(fifo) = FifoSize
    BY CanAssumption DEF IInv, TypeOK
  <1>10. CASE FrameArrives
    <2> SUFFICES ASSUME Len(fifo) # FifoSize PROVE FALSE
      OBVIOUS
    <2>1. UNCHANGED <<begin, end, elements>> /\ (fifo' = fifo \/ fifo' = Append(fifo, frames'))
      <3>1. Len(fifo) < FifoSize
        BY <1>12
      <3>2. UNCHANGED queue /\ fifo' = IF handles = {} THEN fifo
                                      ELSE IF Len(fifo) < FifoSize THEN Append(fifo, frames')
                                      ELSE [fifo EXCEPT ![FifoSize] = frames']
        BY <1>10 DEF FrameArrives
      <3> QED BY <3>1, <3>2 DEF queue
    <2>2. Contents' = Contents
      BY <2>1, QueueUntouched
    <2>3. \A i \in DOMAIN fifo : i \in DOMAIN fifo' /\ fifo'[i] = fifo[i]
      <3>1. frames' \in Nat
        BY <1>4, CanAssumption DEF IInv, TypeOK
      <3>2. /\ fifo' \in Seq(Nat)
            /\ \A i \in 1..Len(fifo) : i \in 1..Len(fifo') /\ fifo'[i] = fifo[i]
        BY <1>2, <2>1, <3>1, Appended
      <3>3. DOMAIN fifo' = 1..Len(fifo')
        BY <3>2
      <3> QED BY <1>2, <3>2, <3>3
    <2> QED BY <2>2, <2>3 DEF Waiting, Contains
  <1>11. CASE ReceiveAccess \/ MessageIsSent \/ UNCHANGED vars
    BY <1>1, <1>11 DEF ReceiveAccess, MessageIsSent, vars, bus
  <1> QED BY <1>6, <1>7, <1>8, <1>9, <1>10, <1>11 DEF Next

(* While can_bus_receive is at work, a frame in the controller or in the   *)
(* queue stays there until it is processed, unless the FIFO or the queue   *)
(* is full.                                                                *)
THEOREM NoFrameIsLost ==
  ASSUME SlotsStayInOrder
  PROVE  Spec => NothingLostUnlessFull
  <1>1. IInv /\ [Next]_vars =>
          [\A f \in 1..MaxFrames :
             "receive" \in handles /\ Waiting(f) /\ ~Waiting(f)' =>
               Contains(processed', f) \/ Len(fifo) = FifoSize \/ size = QueueSize]_vars
    BY StepLosesNothing
  <1>2. Spec => []IInv
    BY InvariantHolds
  <1> QED BY <1>1, <1>2, PTL DEF Spec, NothingLostUnlessFull

-----------------------------------------------------------------------------
(* What the processors were last given. *)
LastTaken == [c \in {"processors"} |->
                IF processed = <<>> THEN <<>> ELSE <<processed[Len(processed)]>>]

LEMMA SameFifo ==
  ASSUME UNCHANGED <<begin, end, elements, processed>>
  PROVE  UNCHANGED Fifo!vars
  <1>1. Contents' = Contents
    BY QueueUntouched
  <1> QED BY <1>1 DEF Fifo!vars

LEMMA ContentsIsSequenceNext == IInv' =>
     /\ Contents' \in Seq(Nat) /\ Len(Contents') = size' /\ DOMAIN Contents' = 1..size'
  <1>1. IInv => /\ Contents \in Seq(Nat) /\ Len(Contents) = size
                /\ DOMAIN Contents = 1..size
    BY ContentsIsSequence
  <1>2. IInv' => (/\ Contents \in Seq(Nat) /\ Len(Contents) = size
                  /\ DOMAIN Contents = 1..size)'
    BY <1>1, PTL
  <1> QED BY <1>2

LEMMA ReceivePuts ==
  ASSUME SlotsStayInOrder, IInv, IInv', Receive
  PROVE  [Fifo!Next]_(Fifo!vars)
  <1>1. CASE UNCHANGED queue
    BY <1>1, SameFifo DEF queue
  <1>2. CASE ~UNCHANGED queue
    <2> DEFINE m == Head(fifo)
               s == size
    <2>1. fifo # <<>> /\ Enqueue(m)
      BY <1>2 DEF Receive
    <2>2. s < QueueSize
      BY <1>2, <2>1 DEF Enqueue, queue
    <2>3. m \in Nat /\ Len(fifo) >= 1 /\ Len(fifo) \in Nat
      BY <2>1, TailOf DEF IInv, TypeOK
    <2>4. Len(processed) + s < MaxFrames /\ MaxFrames \in Nat
      <3>1. /\ Len(processed) \in Nat /\ s \in Nat /\ Len(processed) + s + Len(fifo) <= frames
            /\ frames \in Nat /\ frames <= MaxFrames /\ MaxFrames \in Nat
        BY CanAssumption DEF IInv, TypeOK, CountersAgree, FramesAddUp
      <3> QED BY <2>3, <3>1
    <2>5. /\ size' = s + 1 /\ UNCHANGED processed
          /\ \A i \in 1..s : Contents'[i] = Contents[i]
      BY <2>1, <2>2, <2>3, <2>4, Enqueued DEF IInv
    <2>6. /\ Contents \in Seq(Nat) /\ Len(Contents) = s /\ DOMAIN Contents = 1..s
          /\ s \in Nat /\ QueueSize \in Nat
      BY ContentsIsSequence
    <2>7. Contents' \in Seq(Nat) /\ Len(Contents') = s + 1 /\ DOMAIN Contents' = 1..(s + 1)
      BY <2>5, ContentsIsSequenceNext
    <2> HIDE DEF s, m
    <2>8. \A i \in DOMAIN Contents' : Contents'[i] \in 1..MaxFrames
      <3>1. /\ \A i \in 1..(s + 1) : Contents'[i] \in 1..frames'
            /\ frames' \in 0..MaxFrames
        BY <2>5 DEF IInv, FramesInOrder, TypeOK
      <3>2. 1..frames' \subseteq 1..MaxFrames
        BY <2>4, <3>1
      <3> QED BY <2>7, <3>1, <3>2
    <2>9. SubSeq(Contents', 1, Len(Contents)) = Contents
      <3>1. SubSeq(Contents', 1, s) = [i \in 1..s |-> Contents'[i]]
        BY <2>6, <2>7
      <3>2. Contents = [i \in 1..s |-> Contents[i]]
        BY <2>6
      <3> QED BY <2>5, <2>6, <3>1, <3>2
    <2>10. 1 \in 1..(QueueSize - Len(Contents))
      BY <2>2, <2>6 DEF s
    <2>11. LastTaken' = LastTaken
      BY <2>5 DEF LastTaken
    <2>12. Fifo!Put
      BY <2>6, <2>7, <2>8, <2>9, <2>10, <2>11 DEF Fifo!Put, LastTaken
    <2> QED BY <2>12 DEF Fifo!Next
  <1> QED BY <1>1, <1>2

LEMMA ProcessTakes ==
  ASSUME IInv, IInv', Process
  PROVE  [Fifo!Next]_(Fifo!vars)
  <1>1. ProcessNext
    BY DEF Process
  <1>2. CASE size = 0
    BY <1>1, <1>2, SameFifo DEF ProcessNext
  <1>3. CASE size # 0
    <2> DEFINE s == size
    <2>1. /\ size' = s - 1 /\ peek = Contents[1] /\ peek \in Nat
          /\ processed' = Append(processed, peek)
          /\ \A i \in 1..(s - 1) : Contents'[i] = Contents[i + 1]
      BY <1>1, <1>3, Dequeued DEF IInv
    <2>2. /\ Contents \in Seq(Nat) /\ Len(Contents) = s /\ s \in Nat /\ s # 0
          /\ processed \in Seq(Nat)
      BY <1>3, ContentsIsSequence DEF IInv, TypeOK
    <2>3. Contents' \in Seq(Nat) /\ Len(Contents') = s - 1 /\ DOMAIN Contents' = 1..(s - 1)
      BY <2>1, ContentsIsSequenceNext
    <2> HIDE DEF s
    <2>4. LastTaken' = [LastTaken EXCEPT !["processors"] = SubSeq(Contents, 1, 1)]
      <3>1. SubSeq(Contents, 1, 1) = <<peek>>
        <4>1. 1 \in 1..s
          BY <2>2
        <4>2. SubSeq(Contents, 1, 1) = [i \in 1..1 |-> Contents[i]]
          BY <2>2, <4>1
        <4>3. [i \in 1..1 |-> Contents[i]] = <<peek>>
          BY <2>1
        <4> QED BY <4>2, <4>3
      <3>2. processed' # <<>> /\ processed'[Len(processed')] = peek
        BY <2>1, <2>2
      <3> QED BY <3>1, <3>2 DEF LastTaken
    <2>5. Contents' = SubSeq(Contents, 1 + 1, Len(Contents))
      <3>1. SubSeq(Contents, 1 + 1, s) = [i \in 1..(s - 1) |-> Contents[i + 1]]
        BY <2>2
      <3>2. Contents' = [i \in 1..(s - 1) |-> Contents'[i]]
        BY <2>3
      <3> QED BY <2>1, <2>2, <3>1, <3>2
    <2>6. 1 \in 1..Len(Contents)
      BY <2>2
    <2>7. Fifo!Take("processors")
      BY <2>4, <2>5, <2>6 DEF Fifo!Take, LastTaken
    <2> QED BY <2>7 DEF Fifo!Next
  <1> QED BY <1>2, <1>3

LEMMA StepIsOfFifo ==
  ASSUME SlotsStayInOrder, IInv, IInv', [Next]_vars
  PROVE  [Fifo!Next]_(Fifo!vars)
  <1>1. CASE Receive
    BY <1>1, ReceivePuts
  <1>2. CASE Process
    BY <1>2, ProcessTakes
  <1>3. CASE ~Receive /\ ~Process
    <2>1. UNCHANGED <<begin, end, elements, processed>>
      BY <1>3 DEF Next, Attach, AttachProcessor, Transmitting, TransmitAccess, Transmit,
         TransmitEnd, ReceiveAccess, FrameArrives, MessageIsSent, queue, vars
    <2> QED BY <2>1, SameFifo
  <1> QED BY <1>1, <1>2, <1>3

(* The queue is a bounded queue of frames, although its counters wrap      *)
(* around: a frame accepted is processed once, and in its turn.            *)
THEOREM MessagesAreQueued ==
  ASSUME SlotsStayInOrder
  PROVE  Spec => ImplementsFifo
  <1>1. Init => Fifo!Init
    <2> SUFFICES ASSUME Init PROVE Fifo!Init
      OBVIOUS
    <2>1. processed = <<>> /\ IInv
      BY InvariantInit DEF Init, QueueInit
    <2>2. size = 0
      BY <2>1, QueueAssumption, SMT DEF Init, QueueInit, size
    <2>3. Contents = <<>>
      BY <2>2 DEF Contents
    <2> QED BY <2>1, <2>3 DEF Fifo!Init
  <1>2. IInv /\ IInv' /\ [Next]_vars => [Fifo!Next]_(Fifo!vars)
    BY StepIsOfFifo
  <1>3. Spec => []IInv
    BY InvariantHolds
  <1> QED BY <1>1, <1>2, <1>3, PTL DEF Spec, ImplementsFifo, Fifo!Spec

=============================================================================
