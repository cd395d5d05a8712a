--------------------------- MODULE PagedRingProofs ---------------------------
(***************************************************************************)
(* The lock-free ring is a bounded queue for any number of consumers, any  *)
(* size of pages and ring, either policy, and batches of any length.       *)
(***************************************************************************)
EXTENDS PagedRing, TLAPS

(* RingBuffer is made for "a single optional source" (ring_buffer.h): two  *)
(* threads in supply at once overwrite each other's elements before the    *)
(* swap of write_pointer_ tells them apart.                                *)
OneSupplier == \A s, t \in Suppliers : s = t

Values == {Blank} \union (Suppliers \X Nat)

SupplyLabels  == {"supply_load", "supply_drop", "supply_write", "supply_publish"}
ConsumeLabels == {"consume_load", "consume_read", "consume_release",
                  "pop_load", "pop_release"}

TypeOK ==
  /\ prioritize_old \in BOOLEAN
  /\ read_pointer \in Nat /\ write_pointer \in Nat
  /\ buffers \in [0..(NumPages - 1) -> [0..(PageSize - 1) -> Values]]
  /\ pc \in [Threads -> {"idle"} \union SupplyLabels \union ConsumeLabels]
  /\ reg \in [Threads -> [r : Nat, w : Nat, n : Nat, k : Nat, data : Seq(Values)]]
  /\ sent \in [Suppliers -> Nat]

(* With one supplier, element number n is the one at pointer n - 1.        *)
ElementsInPlace ==
  /\ write_pointer <= MaxPointer
  /\ Suppliers = {} => write_pointer = 0
  /\ \A s \in Suppliers :
       /\ sent[s] = write_pointer
       /\ \A p \in read_pointer..(write_pointer - 1) : At(p) = <<s, p + 1>>
       /\ \A n \in 1..read_pointer : <<s, n>> \in gone

(* What a call of supply knows.  The write pointer is its own; the read    *)
(* pointer it loaded may be old, so it knows only of more elements than    *)
(* there are.  It writes where no element is.                              *)
SupplyInv(t) ==
  /\ pc[t] \in SupplyLabels =>
       /\ t \in Suppliers
       /\ reg[t].r <= read_pointer
       /\ write_pointer <= reg[t].r + max_buffered_elements
       /\ write_pointer + reg[t].n <= MaxPointer
  /\ pc[t] \in SupplyLabels \ {"supply_load"} =>
       /\ reg[t].w = write_pointer
       /\ reg[t].k \in 1..reg[t].n
       /\ reg[t].k <= PageSize - Offset(write_pointer)
       /\ reg[t].k <= max_buffered_elements
  /\ pc[t] \in {"supply_load", "supply_drop"} => reg[t].data = <<>>
  /\ pc[t] = "supply_drop" => write_pointer + reg[t].k > reg[t].r + max_buffered_elements
  /\ pc[t] \in {"supply_write", "supply_publish"} =>
       /\ write_pointer + reg[t].k <= read_pointer + max_buffered_elements
       /\ \A i \in 1..Len(reg[t].data) : At(write_pointer + i - 1) = <<t, write_pointer + i>>
  /\ pc[t] = "supply_write" => Len(reg[t].data) < reg[t].k
  /\ pc[t] = "supply_publish" => Len(reg[t].data) = reg[t].k

(* What a call of consume or pop knows.  The elements copied are those of  *)
(* the ring as long as nobody moved the read pointer.                      *)
ConsumeInv(t) ==
  /\ pc[t] \in ConsumeLabels => reg[t].r <= read_pointer
  /\ pc[t] = "consume_load" => reg[t].data = <<>>
  /\ pc[t] \in {"consume_read", "consume_release"} =>
       /\ reg[t].k \in Nat \ {0}
       /\ reg[t].r + reg[t].k <= write_pointer
       /\ reg[t].k <= PageSize - Offset(reg[t].r)
       /\ read_pointer = reg[t].r =>
            \A s \in Suppliers : \A i \in 1..Len(reg[t].data) :
              reg[t].data[i] = <<s, reg[t].r + i>>
  /\ pc[t] = "consume_read" => Len(reg[t].data) < reg[t].k
  /\ pc[t] = "consume_release" => Len(reg[t].data) = reg[t].k
  /\ pc[t] = "pop_release" => reg[t].r < write_pointer

IInv ==
  /\ TypeOK /\ PointersInRange /\ ElementsInPlace
  /\ \A t \in Threads : SupplyInv(t) /\ ConsumeInv(t)

-----------------------------------------------------------------------------
(* Division, for any size of pages and ring. *)
LEMMA Division ==
  ASSUME NEW n \in Nat, NEW d \in Nat \ {0}
  PROVE  n \div d \in Nat /\ (n % d) \in 0..(d - 1) /\ n = d * (n \div d) + (n % d)
  BY SMT

LEMMA OneQuotient ==
  ASSUME NEW d \in Nat \ {0}, NEW q \in Nat, NEW r \in 0..(d - 1), NEW n \in Nat,
         n = d * q + r
  PROVE  n \div d = q /\ n % d = r
  BY SMT

LEMMA CancelFactor ==
  ASSUME NEW d \in Nat \ {0}, NEW x \in Nat, NEW y \in Nat, NEW k \in Nat,
         d * x < d * y + d * k
  PROVE  x < y + k
  <1> SUFFICES ASSUME x >= y + k PROVE FALSE
    BY SMT
  <1>1. d * y + d * k = d * (y + k)
    BY SMT
  <1>2. d * x >= d * (y + k)
    BY SMT
  <1> QED BY <1>1, <1>2, SMT

LEMMA SameRemainder ==
  ASSUME NEW d \in Nat \ {0}, NEW a \in Nat, NEW b \in Nat,
         a <= b, b < a + d, a % d = b % d
  PROVE  a = b
  <1> DEFINE x == a \div d  y == b \div d  r == a % d
  <1>1. x \in Nat /\ y \in Nat /\ r \in 0..(d - 1) /\ a = d * x + r /\ b = d * y + r
    BY Division
  <1> HIDE DEF x, y, r
  <1>2. d * y < d * x + d * 1 /\ d * x < d * y + d * 1
    BY <1>1, SMT
  <1>3. x = y
    BY <1>1, <1>2, CancelFactor
  <1> QED BY <1>1, <1>3

(* The slots that Page and Offset name. *)
LEMMA SlotExists ==
  ASSUME NEW p \in Nat
  PROVE  Page(p) \in 0..(NumPages - 1) /\ Offset(p) \in 0..(PageSize - 1)
  BY Division, SizeAssumption DEF Page, Offset

LEMMA SamePage ==
  ASSUME NEW p \in Nat, NEW i \in Nat, i < PageSize - Offset(p)
  PROVE  Page(p + i) = Page(p) /\ Offset(p + i) = Offset(p) + i
  <1> DEFINE a == p \div PageSize  r == p % PageSize
  <1>1. a \in Nat /\ r \in 0..(PageSize - 1) /\ p = PageSize * a + r
    BY Division, SizeAssumption
  <1>2. i < PageSize - r
    BY DEF Offset
  <1> HIDE DEF a, r
  <1> DEFINE n == p + i  o == r + i
  <1>3. n \in Nat /\ o \in 0..(PageSize - 1) /\ n = PageSize * a + o
    BY <1>1, <1>2, SizeAssumption
  <1>4. PageSize \in Nat \ {0}
    BY SizeAssumption
  <1> HIDE DEF n, o
  <1>5. n \div PageSize = a /\ n % PageSize = o
    BY <1>1, <1>3, <1>4, SMT
  <1> QED BY <1>5 DEF Page, Offset, a, r, n, o

(* Elements less than a turn of the ring apart have slots of their own. *)
LEMMA SlotsDiffer ==
  ASSUME NEW p \in Nat, NEW q \in Nat, p <= q, q < p + max_buffered_elements,
         Page(p) = Page(q), Offset(p) = Offset(q)
  PROVE  p = q
  <1> DEFINE a == p \div PageSize  b == q \div PageSize  r == p % PageSize
  <1>1. /\ a \in Nat /\ b \in Nat /\ r \in 0..(PageSize - 1)
        /\ p = PageSize * a + r /\ q = PageSize * b + r
    BY Division, SizeAssumption DEF Offset
  <1>2. a % NumPages = b % NumPages
    BY DEF Page
  <1>3. q < p + PageSize * NumPages
    BY SizeAssumption DEF max_buffered_elements
  <1> HIDE DEF a, b, r
  <1>4. PageSize * b < PageSize * a + PageSize * NumPages
        /\ PageSize * a < PageSize * b + PageSize * 1
    BY <1>1, <1>3, SizeAssumption, SMT
  <1>5. b < a + NumPages /\ a < b + 1
    BY <1>1, <1>4, SizeAssumption, CancelFactor
  <1>6. a <= b
    BY <1>1, <1>5
  <1>7. a = b
    BY <1>1, <1>2, <1>5, <1>6, SizeAssumption, SameRemainder
  <1> QED BY <1>1, <1>7

LEMMA Before ==
  ASSUME NEW a \in Nat, NEW b \in Nat, NEW n \in Nat, a < n, n <= b
  PROVE  n - 1 \in a..(b - 1) /\ (n - 1) + 1 = n
  OBVIOUS

LEMMA SmallerIs ==
  ASSUME NEW a \in Nat, NEW b \in Nat
  PROVE  /\ Smaller(a, b) \in Nat /\ Smaller(a, b) \in {a, b}
         /\ Smaller(a, b) <= a /\ Smaller(a, b) <= b
  BY DEF Smaller

LEMMA Capacity == max_buffered_elements \in Nat \ {0}
  BY SizeAssumption, SMT DEF max_buffered_elements

(* Pointers never come near the width of size_t. *)
LEMMA MinusIsExact ==
  ASSUME NEW a \in Nat, NEW b \in Nat, b <= a,
         a <= MaxPointer \/ a <= max_buffered_elements
  PROVE  Minus(a, b) = a - b
  <1>1. a < Word
    BY SizeAssumption, BoundAssumption, Capacity, SMT DEF max_buffered_elements
  <1>2. (a - b + Word) % Word = a - b
    BY <1>1, SizeAssumption, SMT
  <1>3. a + Word - b = a - b + Word
    BY <1>1, SizeAssumption, SMT
  <1> QED BY <1>2, <1>3 DEF Minus

-----------------------------------------------------------------------------
LEMMA InvariantInit ==
  ASSUME Init
  PROVE  IInv
  <1>1. TypeOK
    <2>1. prioritize_old \in BOOLEAN
      BY PolicyAssumption DEF Init
    <2>2. NoLocals \in [r : Nat, w : Nat, n : Nat, k : Nat, data : Seq(Values)]
      BY DEF NoLocals
    <2> QED BY <2>1, <2>2 DEF Init, TypeOK, Values
  <1>2. PointersInRange
    BY Capacity DEF Init, PointersInRange
  <1>3. ElementsInPlace
    BY BoundAssumption DEF Init, ElementsInPlace
  <1>4. \A t \in Threads : SupplyInv(t) /\ ConsumeInv(t)
    BY DEF Init, SupplyInv, ConsumeInv, SupplyLabels, ConsumeLabels
  <1> QED BY <1>1, <1>2, <1>3, <1>4 DEF IInv

(* The pointers only grow, and all that a consumer needs stays true.       *)
LEMMA OthersKeep ==
  ASSUME OneSupplier, IInv, NEW t \in Threads,
         \A u \in Threads \ {t} : pc'[u] = pc[u] /\ reg'[u] = reg[u],
         read_pointer' \in Nat, read_pointer <= read_pointer',
         write_pointer' \in Nat, write_pointer <= write_pointer',
         t \in Suppliers \/ UNCHANGED <<write_pointer, buffers>>
  PROVE  \A u \in Threads \ {t} : SupplyInv(u)' /\ ConsumeInv(u)'
  <1> SUFFICES ASSUME NEW u \in Threads \ {t} PROVE SupplyInv(u)' /\ ConsumeInv(u)'
    OBVIOUS
  <1>1. /\ TypeOK /\ SupplyInv(u) /\ ConsumeInv(u)
        /\ pc'[u] = pc[u] /\ reg'[u] = reg[u]
        /\ reg[u].r \in Nat /\ reg[u].w \in Nat /\ reg[u].n \in Nat /\ reg[u].k \in Nat
    BY DEF IInv, TypeOK
  <1>0. read_pointer \in Nat /\ write_pointer \in Nat /\ max_buffered_elements \in Nat
    BY Capacity DEF IInv, TypeOK
  <1>3. ConsumeInv(u)'
    <2>1. pc[u] \in ConsumeLabels =>
            reg[u].r <= read_pointer'
              /\ (read_pointer' = reg[u].r => read_pointer = reg[u].r)
      BY <1>0, <1>1 DEF ConsumeInv
    <2>2. CASE pc[u] \in {"consume_read", "consume_release"}
      <3>1. reg[u].r + reg[u].k <= write_pointer'
        BY <1>0, <1>1, <2>2 DEF ConsumeInv
      <3> QED BY <1>1, <2>1, <2>2, <3>1 DEF ConsumeInv, ConsumeLabels, Offset
    <2>3. CASE pc[u] \notin {"consume_read", "consume_release"}
      <3>1. reg[u].r < write_pointer => reg[u].r < write_pointer'
        BY <1>0, <1>1
      <3> QED BY <1>1, <2>1, <2>3, <3>1 DEF ConsumeInv, ConsumeLabels, Offset
    <2> QED BY <2>2, <2>3
  <1>4. SupplyInv(u)'
    <2>1. CASE t \in Suppliers
      <3>1. pc[u] \notin SupplyLabels
        BY <1>1, <2>1 DEF SupplyInv, OneSupplier
      <3> QED BY <1>1, <3>1 DEF SupplyInv, SupplyLabels
    <2>2. CASE UNCHANGED <<write_pointer, buffers>>
      <3>1. write_pointer + reg[u].k <= read_pointer + max_buffered_elements
              => write_pointer + reg[u].k <= read_pointer' + max_buffered_elements
        BY <1>0, <1>1
      <3>2. pc[u] \in SupplyLabels => reg[u].r <= read_pointer'
        BY <1>0, <1>1 DEF SupplyInv
      <3> QED BY <1>1, <2>2, <3>1, <3>2 DEF SupplyInv, At
    <2> QED BY <2>1, <2>2
  <1> QED BY <1>3, <1>4

(* A step that touches nothing but the locals of t. *)
LEMMA LocalStep ==
  ASSUME OneSupplier, IInv, NEW t \in Threads,
         NEW label \in {"idle"} \union SupplyLabels \union ConsumeLabels,
         NEW new \in [r : Nat, w : Nat, n : Nat, k : Nat, data : Seq(Values)],
         pc' = [pc EXCEPT ![t] = label], reg' = [reg EXCEPT ![t] = new],
         UNCHANGED <<prioritize_old, read_pointer, write_pointer, buffers, sent, gone>>,
         SupplyInv(t)' /\ ConsumeInv(t)'
  PROVE  IInv'
  <1>1. TypeOK'
    BY DEF IInv, TypeOK
  <1>2. \A u \in Threads \ {t} : pc'[u] = pc[u] /\ reg'[u] = reg[u]
    BY DEF IInv, TypeOK
  <1>3. \A u \in Threads \ {t} : SupplyInv(u)' /\ ConsumeInv(u)'
    <2>1. /\ read_pointer' \in Nat /\ read_pointer <= read_pointer'
          /\ write_pointer' \in Nat /\ write_pointer <= write_pointer'
          /\ UNCHANGED <<write_pointer, buffers>>
      BY DEF IInv, TypeOK
    <2> QED BY <1>2, <2>1, OthersKeep
  <1>4. PointersInRange' /\ ElementsInPlace'
    BY DEF IInv, PointersInRange, ElementsInPlace, At
  <1> QED BY <1>1, <1>3, <1>4 DEF IInv

LEMMA LocalsHave ==
  ASSUME IInv, NEW t \in Threads
  PROVE  /\ reg[t] \in [r : Nat, w : Nat, n : Nat, k : Nat, data : Seq(Values)]
         /\ NoLocals \in [r : Nat, w : Nat, n : Nat, k : Nat, data : Seq(Values)]
         /\ SupplyInv(t) /\ ConsumeInv(t)
         /\ read_pointer \in Nat /\ write_pointer \in Nat /\ MaxPointer \in Nat
         /\ read_pointer <= write_pointer
         /\ write_pointer <= read_pointer + max_buffered_elements
         /\ write_pointer <= MaxPointer
  BY BoundAssumption, Capacity DEF IInv, TypeOK, NoLocals, PointersInRange, ElementsInPlace

(* A thread outside its calls knows nothing. *)
LEMMA NothingKnown ==
  ASSUME NEW t, pc'[t] = "idle"
  PROVE  SupplyInv(t)' /\ ConsumeInv(t)'
  BY DEF SupplyInv, ConsumeInv, SupplyLabels, ConsumeLabels

LEMMA FinishKeeps ==
  ASSUME OneSupplier, IInv, NEW t \in Threads, Finish(t),
         UNCHANGED <<prioritize_old, read_pointer, write_pointer, buffers, sent, gone>>
  PROVE  IInv'
  <1>1. pc' = [pc EXCEPT ![t] = "idle"] /\ reg' = [reg EXCEPT ![t] = NoLocals]
    BY DEF Finish, Go
  <1>2. pc'[t] = "idle"
    BY <1>1 DEF IInv, TypeOK
  <1> QED BY <1>1, <1>2, NothingKnown, LocalStep, LocalsHave

-----------------------------------------------------------------------------
LEMMA SupplyKeeps ==
  ASSUME OneSupplier, IInv, UNCHANGED prioritize_old,
         NEW s \in Suppliers, NEW n \in Nat \ {0}, Supply(s, n)
  PROVE  IInv'
  <1> DEFINE new == [NoLocals EXCEPT !.r = read_pointer, !.n = n]
  <1>1. s \in Threads
    BY DEF Threads
  <1>2. /\ new \in [r : Nat, w : Nat, n : Nat, k : Nat, data : Seq(Values)]
        /\ new.r = read_pointer /\ new.n = n /\ new.data = <<>>
    BY <1>1, LocalsHave DEF NoLocals
  <1>3. /\ pc' = [pc EXCEPT ![s] = "supply_load"] /\ reg' = [reg EXCEPT ![s] = new]
        /\ UNCHANGED <<read_pointer, write_pointer, buffers, sent, gone>>
        /\ write_pointer + n <= MaxPointer
    BY DEF Supply, Go
  <1> HIDE DEF new
  <1>4. pc'[s] = "supply_load" /\ reg'[s] = new
    BY <1>1, <1>3 DEF IInv, TypeOK
  <1>5. /\ reg'[s].r <= read_pointer' /\ reg'[s].data = <<>>
        /\ write_pointer' <= reg'[s].r + max_buffered_elements
        /\ write_pointer' + reg'[s].n <= MaxPointer
    BY <1>1, <1>2, <1>3, <1>4, LocalsHave
  <1>6. SupplyInv(s)'
    BY <1>4, <1>5 DEF SupplyInv, SupplyLabels, Offset
  <1>7. ConsumeInv(s)'
    BY <1>4 DEF ConsumeInv, ConsumeLabels
  <1> QED BY <1>1, <1>2, <1>3, <1>6, <1>7, LocalStep DEF SupplyLabels

LEMMA SupplyLoadWriteKeeps ==
  ASSUME OneSupplier, IInv, UNCHANGED prioritize_old,
         NEW s \in Suppliers, SupplyLoadWrite(s)
  PROVE  IInv'
  <1> DEFINE available == Minus(write_pointer, reg[s].r)
             k == ElementsToAccept(reg[s].n, write_pointer, available)
             next == IF available + k <= max_buffered_elements THEN "supply_write"
                     ELSE IF prioritize_old THEN "logic_error" ELSE "supply_drop"
             new == [reg[s] EXCEPT !.w = write_pointer, !.k = k]
  <1>1. /\ s \in Threads /\ pc[s] = "supply_load"
        /\ UNCHANGED <<prioritize_old, read_pointer, write_pointer, buffers, sent, gone>>
    BY DEF Threads, SupplyLoadWrite
  <1>2. CASE k = 0
    <2>1. Finish(s)
      BY <1>2 DEF SupplyLoadWrite
    <2> QED BY <1>1, <2>1, FinishKeeps
  <1>3. CASE k # 0
    <2>1. /\ reg[s] \in [r : Nat, w : Nat, n : Nat, k : Nat, data : Seq(Values)]
          /\ reg[s].r <= read_pointer /\ reg[s].data = <<>>
          /\ write_pointer <= reg[s].r + max_buffered_elements
          /\ write_pointer + reg[s].n <= MaxPointer
          /\ read_pointer \in Nat /\ write_pointer \in Nat /\ MaxPointer \in Nat
          /\ read_pointer <= write_pointer /\ write_pointer <= MaxPointer
          /\ max_buffered_elements \in Nat \ {0}
      BY <1>1, LocalsHave, Capacity DEF SupplyInv, SupplyLabels
    <2>2. available = write_pointer - reg[s].r
      <3>1. reg[s].r \in Nat /\ write_pointer \in Nat /\ write_pointer <= MaxPointer
        BY <2>1
      <3>2. reg[s].r <= write_pointer
        <4> DEFINE x == reg[s].r
        <4>1. x \in Nat /\ x <= read_pointer
          BY <2>1
        <4>2. read_pointer \in Nat /\ write_pointer \in Nat /\ read_pointer <= write_pointer
          BY <2>1
        <4> HIDE DEF x
        <4>3. x <= write_pointer
          BY <4>1, <4>2
        <4> QED BY <4>3 DEF x
      <3> QED BY <3>1, <3>2, MinusIsExact
    <2>3. available \in Nat /\ available <= max_buffered_elements
      BY <2>1, <2>2
    <2>4. Minus(max_buffered_elements, available) = max_buffered_elements - available
      BY <2>1, <2>3, MinusIsExact
    <2>5. Offset(write_pointer) \in 0..(PageSize - 1) /\ PageSize \in Nat
      BY <2>1, SlotExists, SizeAssumption
    <2> HIDE DEF available
    <2>6. /\ k \in 1..reg[s].n /\ k <= PageSize - Offset(write_pointer)
          /\ k <= max_buffered_elements
          /\ prioritize_old => available + k <= max_buffered_elements
      <3> DEFINE fits == Smaller(PageSize - Offset(write_pointer), reg[s].n)
                 free == max_buffered_elements - available
      <3>1. /\ fits \in Nat /\ fits <= PageSize - Offset(write_pointer)
            /\ fits <= reg[s].n
        <4>1. PageSize - Offset(write_pointer) \in Nat
          BY <2>5
        <4>2. reg[s].n \in Nat
          BY <2>1
        <4> QED BY <4>1, <4>2, SmallerIs
      <3>2. k = IF prioritize_old THEN Smaller(free, fits)
                ELSE Smaller(max_buffered_elements, fits)
        BY <2>4 DEF ElementsToAccept
      <3>3. free \in Nat /\ available + free = max_buffered_elements /\ reg[s].n \in Nat
        BY <2>1, <2>3
      <3>5. max_buffered_elements \in Nat
        BY <2>1
      <3> HIDE DEF fits, free, k
      <3>4. /\ k \in Nat /\ k <= fits /\ k <= max_buffered_elements
            /\ prioritize_old => k <= free
        <4>1. CASE prioritize_old
          <5>1. k = Smaller(free, fits)
            BY <3>2, <4>1
          <5> QED BY <5>1, <3>1, <3>3, <2>3, <3>5, SmallerIs
        <4>2. CASE ~prioritize_old
          <5>1. k = Smaller(max_buffered_elements, fits)
            BY <3>2, <4>2
          <5> QED BY <5>1, <3>1, <4>2, <3>5, SmallerIs
        <4> QED BY <4>1, <4>2
      <3>6. k # 0 /\ PageSize - Offset(write_pointer) \in Nat
        BY <1>3, <2>5 DEF k
      <3>7. prioritize_old => available + k <= max_buffered_elements
        BY <2>3, <3>3, <3>4, <3>5
      <3> QED BY <3>1, <3>3, <3>4, <3>5, <3>6, <3>7
    <2>7. /\ pc' = [pc EXCEPT ![s] = next] /\ reg' = [reg EXCEPT ![s].w = write_pointer, ![s].k = k]
      BY <1>3 DEF SupplyLoadWrite, Go, available
    <2> HIDE DEF k
    <2>8. /\ new \in [r : Nat, w : Nat, n : Nat, k : Nat, data : Seq(Values)]
          /\ new.r = reg[s].r /\ new.w = write_pointer /\ new.n = reg[s].n /\ new.k = k
          /\ new.data = reg[s].data
      <3>1. k \in Nat
        BY <2>1, <2>6
      <3> QED BY <2>1, <3>1
    <2>9. reg' = [reg EXCEPT ![s] = new]
      BY <2>7
    <2>10. next \in {"supply_write", "supply_drop"}
      BY <2>6, <2>1, <2>3
    <2>11. /\ next = "supply_write" => available + k <= max_buffered_elements
           /\ next = "supply_drop" => available + k > max_buffered_elements
      BY <2>6, <2>1, <2>3, <2>10
    <2> HIDE DEF new, next
    <2>12. pc'[s] = next /\ reg'[s] = new
      BY <1>1, <2>7, <2>9 DEF IInv, TypeOK
    <2>13. /\ reg'[s].r <= read_pointer' /\ reg'[s].w = write_pointer' /\ reg'[s].data = <<>>
           /\ write_pointer' <= reg'[s].r + max_buffered_elements
           /\ write_pointer' + reg'[s].n <= MaxPointer
           /\ reg'[s].k \in 1..reg'[s].n /\ reg'[s].k <= max_buffered_elements
           /\ reg'[s].k <= PageSize - Offset(write_pointer')
           /\ Len(reg'[s].data) < reg'[s].k
           /\ reg'[s].data = <<>>
      BY <1>1, <2>1, <2>6, <2>8, <2>12
    <2>14. /\ next = "supply_write" =>
                write_pointer' + reg'[s].k <= read_pointer' + max_buffered_elements
           /\ next = "supply_drop" =>
                write_pointer' + reg'[s].k > reg'[s].r + max_buffered_elements
      <3>1. /\ k \in Nat /\ reg[s].r \in Nat /\ reg[s].r <= read_pointer
            /\ read_pointer \in Nat /\ write_pointer \in Nat /\ max_buffered_elements \in Nat
        BY <2>1, <2>6
      <3>2. /\ write_pointer' = write_pointer /\ read_pointer' = read_pointer
            /\ reg'[s].k = k /\ reg'[s].r = reg[s].r
        BY <1>1, <2>8, <2>12
      <3>3. /\ available + k <= max_buffered_elements
                 => write_pointer + k <= read_pointer + max_buffered_elements
            /\ available + k > max_buffered_elements
                 => write_pointer + k > reg[s].r + max_buffered_elements
        BY <2>2, <3>1
      <3> QED BY <2>11, <3>2, <3>3
    <2>15. SupplyInv(s)'
      BY <2>10, <2>12, <2>13, <2>14 DEF SupplyInv, SupplyLabels, Offset
    <2>16. ConsumeInv(s)'
      BY <2>10, <2>12 DEF ConsumeInv, ConsumeLabels
    <2> QED BY <1>1, <2>7, <2>8, <2>9, <2>10, <2>15, <2>16, LocalStep DEF SupplyLabels
  <1> QED BY <1>2, <1>3

(* An invariant of every thread, from that of the one that moved. *)
LEMMA SharedStep ==
  ASSUME OneSupplier, IInv, NEW t \in Threads, TypeOK', PointersInRange', ElementsInPlace',
         \A u \in Threads \ {t} : pc'[u] = pc[u] /\ reg'[u] = reg[u],
         read_pointer <= read_pointer', write_pointer <= write_pointer',
         t \in Suppliers \/ UNCHANGED <<write_pointer, buffers>>,
         SupplyInv(t)', ConsumeInv(t)'
  PROVE  IInv'
  <1>1. read_pointer' \in Nat /\ write_pointer' \in Nat
    BY DEF TypeOK
  <1>2. \A u \in Threads \ {t} : SupplyInv(u)' /\ ConsumeInv(u)'
    BY <1>1, OthersKeep
  <1> QED BY <1>2 DEF IInv

(* The oldest elements dropped are as many as the call needs room for. *)
LEMMA DropOldestMakesRoom ==
  ASSUME IInv, NEW s \in Suppliers, DropOldest(s), read_pointer = reg[s].r
  PROVE  LET m == write_pointer + reg[s].k - max_buffered_elements
         IN  /\ m \in Nat /\ read_pointer < m /\ m <= write_pointer
             /\ reg[s].k \in Nat /\ 0 < reg[s].k
             /\ write_pointer + reg[s].k = m + max_buffered_elements
             /\ read_pointer' = m
             /\ gone' = gone \union {At(i) : i \in read_pointer..(m - 1)}
             /\ pc' = [pc EXCEPT ![s] = "supply_write"] /\ UNCHANGED reg
  <1>1. s \in Threads /\ pc[s] = "supply_drop"
    BY DEF Threads, DropOldest
  <1>2. /\ reg[s].w = write_pointer /\ reg[s].k \in Nat /\ 0 < reg[s].k
        /\ reg[s].k <= max_buffered_elements
        /\ write_pointer + reg[s].k > reg[s].r + max_buffered_elements
        /\ read_pointer \in Nat /\ write_pointer \in Nat
        /\ max_buffered_elements \in Nat
        /\ read_pointer <= write_pointer /\ write_pointer <= MaxPointer
    <2>1. reg[s].k \in 1..reg[s].n /\ reg[s].n \in Nat
      BY <1>1, LocalsHave DEF SupplyInv, SupplyLabels
    <2>2. reg[s].k \in Nat /\ 0 < reg[s].k
      BY <2>1
    <2> QED BY <1>1, <2>2, LocalsHave, Capacity DEF SupplyInv, SupplyLabels
  <1>3. Available(s) = write_pointer - read_pointer
    BY <1>2, MinusIsExact DEF Available
  <1> DEFINE m == write_pointer + reg[s].k - max_buffered_elements
  <1>4. reg[s].r + Available(s) + reg[s].k - max_buffered_elements = m
    BY <1>2, <1>3
  <1>5. /\ m \in Nat /\ read_pointer < m /\ m <= write_pointer
        /\ write_pointer + reg[s].k = m + max_buffered_elements
    BY <1>2
  <1> HIDE DEF m
  <1>6. /\ read_pointer' = m
        /\ gone' = gone \union {At(i) : i \in read_pointer..(m - 1)}
        /\ pc' = [pc EXCEPT ![s] = "supply_write"] /\ UNCHANGED reg
    BY <1>4 DEF DropOldest, Go
  <1> QED BY <1>2, <1>5, <1>6 DEF m

LEMMA DropOldestKeeps ==
  ASSUME OneSupplier, IInv, UNCHANGED prioritize_old,
         NEW s \in Suppliers, DropOldest(s)
  PROVE  IInv'
  <1>1. /\ s \in Threads /\ pc[s] = "supply_drop"
        /\ UNCHANGED <<write_pointer, buffers, sent>>
    BY DEF Threads, DropOldest
  <1>2. CASE read_pointer # reg[s].r
    <2>1. Finish(s) /\ UNCHANGED <<read_pointer, write_pointer, buffers, sent, gone>>
      BY <1>2 DEF DropOldest
    <2> QED BY <1>1, <2>1, FinishKeeps
  <1>3. CASE read_pointer = reg[s].r
    <2> DEFINE m == write_pointer + reg[s].k - max_buffered_elements
               dropped == {At(i) : i \in read_pointer..(m - 1)}
    <2>1. /\ pc' = [pc EXCEPT ![s] = "supply_write"] /\ UNCHANGED reg
          /\ read_pointer' = m /\ gone' = gone \union dropped
          /\ UNCHANGED <<write_pointer, buffers, sent>>
      BY <1>1, <1>3, DropOldestMakesRoom
    <2>2. /\ reg[s].data = <<>>
          /\ read_pointer \in Nat /\ write_pointer \in Nat
          /\ max_buffered_elements \in Nat
          /\ read_pointer <= write_pointer
      BY <1>1, LocalsHave, Capacity DEF SupplyInv, SupplyLabels
    <2>3. /\ m \in Nat /\ read_pointer < m /\ m <= write_pointer
          /\ write_pointer + reg[s].k = m + max_buffered_elements
          /\ reg[s].k \in Nat /\ 0 < reg[s].k
      BY <1>3, DropOldestMakesRoom
    <2> HIDE DEF m
    <2>5. /\ read_pointer' \in Nat /\ read_pointer < read_pointer'
          /\ read_pointer' <= write_pointer
          /\ write_pointer + reg[s].k = read_pointer' + max_buffered_elements
      BY <2>1, <2>3
    <2>6. TypeOK'
      BY <1>1, <2>1, <2>2, <2>5 DEF IInv, TypeOK, SupplyLabels
    <2>7. PointersInRange'
      <3>1. write_pointer - m <= max_buffered_elements
        BY <2>2, <2>3
      <3> QED BY <2>1, <2>3, <3>1 DEF PointersInRange
    <2>8. ElementsInPlace'
      <3> SUFFICES ASSUME NEW u \in Suppliers
                   PROVE  /\ \A p \in read_pointer'..(write_pointer - 1) : At(p) = <<u, p + 1>>
                          /\ \A n \in 1..read_pointer' : <<u, n>> \in gone'
        BY <2>1 DEF IInv, ElementsInPlace, At
      <3>1. \A p \in read_pointer..(write_pointer - 1) : At(p) = <<u, p + 1>>
        BY DEF IInv, ElementsInPlace
      <3>2. ASSUME NEW p \in read_pointer'..(write_pointer - 1) PROVE At(p) = <<u, p + 1>>
        BY <2>2, <2>5, <3>1
      <3>3. ASSUME NEW n \in Nat, n \notin 1..read_pointer, 0 < n, n <= read_pointer'
            PROVE  <<u, n>> \in gone'
        <4>1. read_pointer < n
          BY <2>2, <3>3
        <4>2. n - 1 \in read_pointer..(read_pointer' - 1)
          BY <2>2, <2>5, <3>3, <4>1, Before
        <4>3. n - 1 \in read_pointer..(write_pointer - 1) /\ (n - 1) + 1 = n
          <5>1. n <= write_pointer
            BY <2>2, <2>5, <3>3
          <5> QED BY <2>2, <3>3, <4>1, <5>1, Before
        <4>4. At(n - 1) \in dropped
          BY <2>1, <4>2
        <4> QED BY <2>1, <3>1, <4>3, <4>4
      <3>4. \A n \in 1..read_pointer : <<u, n>> \in gone'
        BY <2>1 DEF IInv, ElementsInPlace
      <3>5. \A n \in 1..read_pointer' : n \in Nat /\ 0 < n /\ n <= read_pointer'
        BY <2>5
      <3> QED BY <3>2, <3>3, <3>4, <3>5
    <2>9. pc'[s] = "supply_write" /\ reg'[s] = reg[s]
      BY <1>1, <2>1 DEF IInv, TypeOK
    <2>10. ConsumeInv(s)'
      BY <2>9 DEF ConsumeInv, ConsumeLabels
    <2>11. SupplyInv(s)'
      <3>1. /\ reg'[s].r <= read_pointer' /\ reg[s].r <= read_pointer
            /\ write_pointer' + reg'[s].k <= read_pointer' + max_buffered_elements
            /\ Len(reg'[s].data) < reg'[s].k
            /\ \A i \in 1..Len(reg'[s].data) : FALSE
        BY <1>3, <2>1, <2>2, <2>3, <2>5, <2>9
      <3> QED BY <1>1, <2>1, <2>9, <3>1, LocalsHave DEF SupplyInv, SupplyLabels, Offset
    <2>12. \A u \in Threads \ {s} : pc'[u] = pc[u] /\ reg'[u] = reg[u]
      BY <2>1 DEF IInv, TypeOK
    <2>13. read_pointer <= read_pointer' /\ write_pointer <= write_pointer'
      BY <2>1, <2>2, <2>5
    <2> QED BY <1>1, <2>6, <2>7, <2>8, <2>10, <2>11, <2>12, <2>13, SharedStep
  <1> QED BY <1>2, <1>3

LEMMA WriteElementKeeps ==
  ASSUME OneSupplier, IInv, UNCHANGED prioritize_old,
         NEW s \in Suppliers, WriteElement(s)
  PROVE  IInv'
  <1> DEFINE i == Len(reg[s].data)
             p == write_pointer + i
             element == <<s, p + 1>>
             next == IF i + 1 = reg[s].k THEN "supply_publish" ELSE "supply_write"
             new == [reg[s] EXCEPT !.data = Append(@, element)]
  <1>1. s \in Threads /\ pc[s] = "supply_write"
    BY DEF Threads, WriteElement
  <1>2. /\ reg[s] \in [r : Nat, w : Nat, n : Nat, k : Nat, data : Seq(Values)]
        /\ SupplyInv(s) /\ TypeOK
        /\ read_pointer \in Nat /\ write_pointer \in Nat /\ max_buffered_elements \in Nat
        /\ read_pointer <= write_pointer
    BY <1>1, LocalsHave, Capacity DEF IInv
  <1>3. i \in Nat /\ reg[s].data \in Seq(Values) /\ reg[s].k \in Nat
    BY <1>2
  <1>4. /\ reg[s].w = write_pointer /\ i < reg[s].k
        /\ reg[s].k <= PageSize - Offset(write_pointer)
        /\ write_pointer + reg[s].k <= read_pointer + max_buffered_elements
        /\ \A j \in 1..i : At(write_pointer + j - 1) = <<s, write_pointer + j>>
    BY <1>1, <1>2 DEF SupplyInv, SupplyLabels
  <1>5. sent[s] = write_pointer
    BY DEF IInv, ElementsInPlace
  <1>6. i < PageSize - Offset(write_pointer)
    <2>1. Offset(write_pointer) \in 0..(PageSize - 1) /\ PageSize \in Nat
      BY <1>2, SlotExists, SizeAssumption
    <2> HIDE DEF i
    <2> QED BY <1>3, <1>4, <2>1
  <1> HIDE DEF i
  <1>7. Page(p) = Page(write_pointer) /\ Offset(p) = Offset(write_pointer) + i
    BY <1>2, <1>3, <1>6, SamePage
  <1>8. /\ p \in Nat /\ write_pointer <= p
        /\ p < read_pointer + max_buffered_elements
    BY <1>2, <1>3, <1>4
  <1>9. Page(p) \in 0..(NumPages - 1) /\ Offset(p) \in 0..(PageSize - 1)
    BY <1>8, SlotExists
  <1>10. buffers' = [buffers EXCEPT ![Page(p)][Offset(p)] = element]
    <2>1. buffers' = [buffers EXCEPT ![Page(reg[s].w)][Offset(reg[s].w) + i] =
                                       <<s, sent[s] + i + 1>>]
      BY DEF WriteElement, i
    <2> QED BY <1>4, <1>5, <1>7, <2>1
  <1>11. /\ pc' = [pc EXCEPT ![s] = next]
         /\ reg' = [reg EXCEPT ![s] = new]
         /\ UNCHANGED <<read_pointer, write_pointer, sent, taken, gone>>
    BY <1>5 DEF WriteElement, Go, i
  <1> HIDE DEF p, element, next, new
  <1>12. /\ element = <<s, p + 1>> /\ element \in Values
         /\ new \in [r : Nat, w : Nat, n : Nat, k : Nat, data : Seq(Values)]
         /\ new.r = reg[s].r /\ new.w = reg[s].w /\ new.n = reg[s].n /\ new.k = reg[s].k
         /\ new.data = Append(reg[s].data, element)
    <2>1. element = <<s, p + 1>> /\ element \in Values
      BY <1>8 DEF element, Values
    <2>2. Append(reg[s].data, element) \in Seq(Values)
      BY <1>3, <2>1
    <2> QED BY <1>2, <2>1, <2>2 DEF new
  <1>13. \A q \in Nat : buffers'[Page(q)][Offset(q)] =
           IF Page(q) = Page(p) /\ Offset(q) = Offset(p) THEN element ELSE At(q)
    <2> SUFFICES ASSUME NEW q \in Nat
                 PROVE  buffers'[Page(q)][Offset(q)] =
           IF Page(q) = Page(p) /\ Offset(q) = Offset(p) THEN element ELSE At(q)
      OBVIOUS
    <2>1. Page(q) \in 0..(NumPages - 1) /\ Offset(q) \in 0..(PageSize - 1)
      BY SlotExists
    <2> QED BY <1>2, <1>9, <1>10, <2>1 DEF TypeOK, At
  <1>14. \A q \in Nat : read_pointer <= q /\ q < p => buffers'[Page(q)][Offset(q)] = At(q)
    <2> SUFFICES ASSUME NEW q \in Nat, read_pointer <= q, q < p
                 PROVE  buffers'[Page(q)][Offset(q)] = At(q)
      OBVIOUS
    <2>1. q <= p /\ p < q + max_buffered_elements /\ q # p
      BY <1>2, <1>8
    <2>2. ~(Page(q) = Page(p) /\ Offset(q) = Offset(p))
      BY <1>8, <2>1, SlotsDiffer
    <2> QED BY <1>13, <2>2
  <1>15. next \in {"supply_write", "supply_publish"} /\ pc'[s] = next /\ reg'[s] = new
    BY <1>1, <1>2, <1>11 DEF TypeOK, next
  <1>16. TypeOK'
    <2>1. buffers' \in [0..(NumPages - 1) -> [0..(PageSize - 1) -> Values]]
      BY <1>2, <1>9, <1>10, <1>12 DEF TypeOK
    <2> QED BY <1>1, <1>2, <1>11, <1>12, <1>15, <2>1 DEF TypeOK, SupplyLabels
  <1>17. PointersInRange'
    BY <1>11 DEF IInv, PointersInRange
  <1>18. ElementsInPlace'
    <2> SUFFICES ASSUME NEW u \in Suppliers, NEW q \in read_pointer..(write_pointer - 1)
                 PROVE  buffers'[Page(q)][Offset(q)] = <<u, q + 1>>
      BY <1>11 DEF IInv, ElementsInPlace, At
    <2>1. q \in Nat /\ read_pointer <= q /\ q < p
      BY <1>2, <1>8
    <2>2. At(q) = <<u, q + 1>>
      BY DEF IInv, ElementsInPlace
    <2> QED BY <1>14, <2>1, <2>2
  <1>19. ConsumeInv(s)'
    BY <1>15 DEF ConsumeInv, ConsumeLabels
  <1>20. SupplyInv(s)'
    <2>1. Len(reg'[s].data) = i + 1
      BY <1>3, <1>12, <1>15 DEF i
    <2>2. \A j \in 1..(i + 1) : buffers'[Page(write_pointer + j - 1)][Offset(write_pointer + j - 1)]
                                  = <<s, write_pointer + j>>
      <3> SUFFICES ASSUME NEW j \in 1..(i + 1)
                   PROVE  buffers'[Page(write_pointer + j - 1)][Offset(write_pointer + j - 1)]
                            = <<s, write_pointer + j>>
        OBVIOUS
      <3>1. write_pointer + j - 1 \in Nat /\ read_pointer <= write_pointer + j - 1
        BY <1>2, <1>3
      <3>2. CASE j \in 1..i
        <4>1. write_pointer + j - 1 < p
          BY <1>2, <1>3, <3>2 DEF p
        <4> QED BY <1>4, <1>14, <3>1, <3>2, <4>1
      <3>3. CASE j \notin 1..i
        <4>1. write_pointer + j - 1 = p /\ write_pointer + j = p + 1
          <5>1. j \in Nat /\ j = i + 1
            BY <1>3, <3>3
          <5> QED BY <1>2, <1>3, <5>1 DEF p
        <4> QED BY <1>8, <1>12, <1>13, <4>1
      <3> QED BY <3>2, <3>3
    <2>3. /\ next = "supply_write" => i + 1 < reg[s].k
          /\ next = "supply_publish" => i + 1 = reg[s].k
      BY <1>3, <1>4 DEF next
    <2>4. /\ write_pointer' = write_pointer /\ read_pointer' = read_pointer
          /\ reg'[s].r = reg[s].r /\ reg'[s].w = reg[s].w
          /\ reg'[s].n = reg[s].n /\ reg'[s].k = reg[s].k
      BY <1>11, <1>12, <1>15
    <2>5. /\ reg[s].r <= read_pointer
          /\ write_pointer <= reg[s].r + max_buffered_elements
          /\ write_pointer + reg[s].n <= MaxPointer
          /\ reg[s].k \in 1..reg[s].n /\ reg[s].k <= max_buffered_elements
      BY <1>1, <1>2 DEF SupplyInv, SupplyLabels
    <2>6. \A j \in 1..Len(reg'[s].data) : (At(write_pointer + j - 1) = <<s, write_pointer + j>>)'
      BY <2>1, <2>2, <2>4 DEF At, Page, Offset
    <2> QED BY <1>4, <1>15, <2>1, <2>3, <2>4, <2>5, <2>6 DEF SupplyInv, SupplyLabels, Offset
  <1>21. \A u \in Threads \ {s} : pc'[u] = pc[u] /\ reg'[u] = reg[u]
    BY <1>2, <1>11 DEF TypeOK
  <1>22. read_pointer <= read_pointer' /\ write_pointer <= write_pointer'
    BY <1>2, <1>11
  <1> QED BY <1>1, <1>16, <1>17, <1>18, <1>19, <1>20, <1>21, <1>22, SharedStep

LEMMA PublishKeeps ==
  ASSUME OneSupplier, IInv, UNCHANGED prioritize_old,
         NEW s \in Suppliers, Publish(s)
  PROVE  IInv'
  <1> DEFINE k == reg[s].k
  <1>1. s \in Threads /\ pc[s] = "supply_publish"
    BY DEF Threads, Publish
  <1>2. /\ TypeOK /\ SupplyInv(s)
        /\ read_pointer \in Nat /\ write_pointer \in Nat /\ max_buffered_elements \in Nat
        /\ read_pointer <= write_pointer /\ MaxPointer \in Nat
        /\ NoLocals \in [r : Nat, w : Nat, n : Nat, k : Nat, data : Seq(Values)]
    BY <1>1, LocalsHave, Capacity DEF IInv
  <1>3. k \in 1..reg[s].n /\ reg[s].n \in Nat
    BY <1>1, <1>2 DEF SupplyInv, SupplyLabels, TypeOK
  <1>4. /\ reg[s].w = write_pointer
        /\ write_pointer + reg[s].n <= MaxPointer
        /\ write_pointer + k <= read_pointer + max_buffered_elements
        /\ \A j \in 1..k : At(write_pointer + j - 1) = <<s, write_pointer + j>>
    BY <1>1, <1>2 DEF SupplyInv, SupplyLabels
  <1>5. /\ write_pointer' = write_pointer + k
        /\ sent' = [sent EXCEPT ![s] = @ + k]
        /\ pc' = [pc EXCEPT ![s] = "idle"] /\ reg' = [reg EXCEPT ![s] = NoLocals]
        /\ UNCHANGED <<read_pointer, buffers, taken, gone>>
    BY <1>4 DEF Publish, Finish, Go
  <1> HIDE DEF k
  <1>6. k \in Nat /\ write_pointer + k \in Nat /\ write_pointer <= write_pointer + k
        /\ write_pointer + k <= MaxPointer
    <2>1. k \in Nat /\ k <= reg[s].n /\ reg[s].n \in Nat
      BY <1>3
    <2>2. write_pointer \in Nat /\ MaxPointer \in Nat
      BY <1>2
    <2>3. write_pointer + reg[s].n <= MaxPointer
      BY <1>4
    <2> DEFINE n == reg[s].n
    <2> HIDE DEF n
    <2>4. k <= n /\ n \in Nat /\ write_pointer + n <= MaxPointer
      BY <2>1, <2>3 DEF n
    <2> QED BY <2>1, <2>2, <2>4
  <1>7. TypeOK'
    <2>1. sent' \in [Suppliers -> Nat]
      BY <1>2, <1>5, <1>6 DEF TypeOK
    <2> QED BY <1>1, <1>2, <1>5, <1>6, <2>1 DEF TypeOK
  <1>8. PointersInRange'
    BY <1>2, <1>4, <1>5, <1>6 DEF PointersInRange
  <1>9. ElementsInPlace'
    <2>1. ASSUME NEW u \in Suppliers PROVE u = s
      BY DEF OneSupplier
    <2>2. sent'[s] = write_pointer'
      BY <1>2, <1>5 DEF IInv, ElementsInPlace, TypeOK
    <2>3. ASSUME NEW p \in Nat, read_pointer <= p, p < write_pointer + k
          PROVE  At(p) = <<s, p + 1>>
      <3>1. CASE p < write_pointer
        <4>1. p \in read_pointer..(write_pointer - 1)
          BY <1>2, <2>3, <3>1
        <4> QED BY <4>1 DEF IInv, ElementsInPlace
      <3>2. CASE ~(p < write_pointer)
        <4> DEFINE j == p - write_pointer + 1
        <4>1. j \in 1..k /\ write_pointer + j - 1 = p /\ write_pointer + j = p + 1
          BY <1>2, <1>6, <2>3, <3>2
        <4> HIDE DEF j
        <4> QED BY <1>4, <4>1
      <3> QED BY <3>1, <3>2
    <2>4. \A p \in read_pointer..(write_pointer + k - 1) :
            p \in Nat /\ read_pointer <= p /\ p < write_pointer + k
      BY <1>2, <1>6
    <2>5. \A p \in (read_pointer..(write_pointer - 1))' : (At(p) = <<s, p + 1>>)'
      <3>1. (read_pointer..(write_pointer - 1))' = read_pointer..(write_pointer + k - 1)
        BY <1>2, <1>5, <1>6
      <3> QED BY <1>5, <2>3, <2>4, <3>1 DEF At, Page, Offset
    <2>6. \A n \in (1..read_pointer)' : <<s, n>> \in gone'
      BY <1>5 DEF IInv, ElementsInPlace
    <2> QED BY <1>5, <1>6, <2>1, <2>2, <2>5, <2>6 DEF ElementsInPlace, At, Page, Offset
  <1>10. pc'[s] = "idle"
    BY <1>1, <1>2, <1>5 DEF TypeOK
  <1>11. \A u \in Threads \ {s} : pc'[u] = pc[u] /\ reg'[u] = reg[u]
    BY <1>2, <1>5 DEF TypeOK
  <1>12. read_pointer <= read_pointer' /\ write_pointer <= write_pointer'
    BY <1>2, <1>5, <1>6
  <1> QED BY <1>1, <1>7, <1>8, <1>9, <1>10, <1>11, <1>12, NothingKnown, SharedStep

-----------------------------------------------------------------------------
LEMMA ConsumeKeeps ==
  ASSUME OneSupplier, IInv, UNCHANGED prioritize_old,
         NEW c \in Consumers, NEW n \in Nat \ {0}, Consume(c, n)
  PROVE  IInv'
  <1> DEFINE new == [NoLocals EXCEPT !.r = read_pointer, !.n = n]
  <1>1. c \in Threads
    BY DEF Threads
  <1>2. /\ new \in [r : Nat, w : Nat, n : Nat, k : Nat, data : Seq(Values)]
        /\ new.r = read_pointer /\ new.data = <<>>
    BY <1>1, LocalsHave DEF NoLocals
  <1>3. /\ pc' = [pc EXCEPT ![c] = "consume_load"] /\ reg' = [reg EXCEPT ![c] = new]
        /\ UNCHANGED <<read_pointer, write_pointer, buffers, sent, gone>>
    BY DEF Consume, Go
  <1> HIDE DEF new
  <1>4. pc'[c] = "consume_load" /\ reg'[c] = new
    BY <1>1, <1>3 DEF IInv, TypeOK
  <1>5. SupplyInv(c)'
    BY <1>4 DEF SupplyInv, SupplyLabels
  <1>6. reg'[c].r <= read_pointer' /\ reg'[c].data = <<>>
    BY <1>1, <1>2, <1>3, <1>4, LocalsHave
  <1>7. ConsumeInv(c)'
    BY <1>4, <1>6 DEF ConsumeInv, ConsumeLabels, Offset
  <1> QED BY <1>1, <1>2, <1>3, <1>5, <1>7, LocalStep DEF ConsumeLabels

LEMMA PopKeeps ==
  ASSUME OneSupplier, IInv, UNCHANGED prioritize_old, NEW c \in Consumers, Pop(c)
  PROVE  IInv'
  <1> DEFINE new == [NoLocals EXCEPT !.r = read_pointer, !.n = 1]
  <1>1. c \in Threads
    BY DEF Threads
  <1>2. /\ new \in [r : Nat, w : Nat, n : Nat, k : Nat, data : Seq(Values)]
        /\ new.r = read_pointer
    BY <1>1, LocalsHave DEF NoLocals
  <1>3. /\ pc' = [pc EXCEPT ![c] = "pop_load"] /\ reg' = [reg EXCEPT ![c] = new]
        /\ UNCHANGED <<read_pointer, write_pointer, buffers, sent, gone>>
    BY DEF Pop, Go
  <1> HIDE DEF new
  <1>4. pc'[c] = "pop_load" /\ reg'[c] = new
    BY <1>1, <1>3 DEF IInv, TypeOK
  <1>5. SupplyInv(c)'
    BY <1>4 DEF SupplyInv, SupplyLabels
  <1>6. reg'[c].r <= read_pointer'
    BY <1>1, <1>2, <1>3, <1>4, LocalsHave
  <1>7. ConsumeInv(c)'
    BY <1>4, <1>6 DEF ConsumeInv, ConsumeLabels, Offset
  <1> QED BY <1>1, <1>2, <1>3, <1>5, <1>7, LocalStep DEF ConsumeLabels

LEMMA ConsumeLoadWriteKeeps ==
  ASSUME OneSupplier, IInv, UNCHANGED prioritize_old,
         NEW c \in Consumers, ConsumeLoadWrite(c)
  PROVE  IInv'
  <1> DEFINE fits == Smaller(PageSize - Offset(reg[c].r), reg[c].n)
             k == Smaller(Minus(write_pointer, reg[c].r), fits)
             new == [reg[c] EXCEPT !.w = write_pointer, !.k = k]
  <1>1. /\ c \in Threads /\ pc[c] = "consume_load"
        /\ UNCHANGED <<prioritize_old, read_pointer, write_pointer, buffers, sent, gone>>
    BY DEF Threads, ConsumeLoadWrite
  <1>2. CASE k = 0
    <2>1. Finish(c)
      BY <1>2 DEF ConsumeLoadWrite
    <2> QED BY <1>1, <2>1, FinishKeeps
  <1>3. CASE k # 0
    <2>1. /\ reg[c] \in [r : Nat, w : Nat, n : Nat, k : Nat, data : Seq(Values)]
          /\ reg[c].r <= read_pointer /\ reg[c].data = <<>>
          /\ read_pointer \in Nat /\ write_pointer \in Nat
          /\ read_pointer <= write_pointer /\ write_pointer <= MaxPointer
      BY <1>1, LocalsHave DEF ConsumeInv, ConsumeLabels
    <2>2. /\ reg[c].r \in Nat /\ reg[c].n \in Nat /\ reg[c].r <= write_pointer
      BY <2>1
    <2>3. Minus(write_pointer, reg[c].r) = write_pointer - reg[c].r
      BY <2>1, <2>2, MinusIsExact
    <2>4. /\ Offset(reg[c].r) \in 0..(PageSize - 1) /\ PageSize - Offset(reg[c].r) \in Nat
      <3>1. Offset(reg[c].r) \in 0..(PageSize - 1) /\ PageSize \in Nat
        BY <2>2, SlotExists, SizeAssumption
      <3> QED BY <3>1
    <2>5. fits \in Nat /\ fits <= PageSize - Offset(reg[c].r)
      BY <2>2, <2>4, SmallerIs
    <2>6. write_pointer - reg[c].r \in Nat
      BY <2>1, <2>2
    <2> HIDE DEF fits
    <2>7. k \in Nat /\ k <= fits /\ k <= write_pointer - reg[c].r
      BY <2>3, <2>5, <2>6, SmallerIs
    <2>8. /\ pc' = [pc EXCEPT ![c] = "consume_read"]
          /\ reg' = [reg EXCEPT ![c].w = write_pointer, ![c].k = k]
      BY <1>3 DEF ConsumeLoadWrite, Go, fits
    <2>9. k # 0
      BY <1>3
    <2> HIDE DEF k
    <2>10. /\ k \in Nat \ {0} /\ reg[c].r + k <= write_pointer
           /\ k <= PageSize - Offset(reg[c].r) /\ 0 < k
      <3>1. reg[c].r + k <= write_pointer
        BY <2>1, <2>2, <2>7
      <3>2. k <= PageSize - Offset(reg[c].r) /\ 0 < k
        BY <2>4, <2>5, <2>7, <2>9
      <3> QED BY <2>7, <2>9, <3>1, <3>2
    <2>11. /\ new \in [r : Nat, w : Nat, n : Nat, k : Nat, data : Seq(Values)]
           /\ new.r = reg[c].r /\ new.k = k /\ new.data = <<>>
      BY <2>1, <2>7
    <2>12. reg' = [reg EXCEPT ![c] = new]
      BY <2>8
    <2> HIDE DEF new
    <2>13. pc'[c] = "consume_read" /\ reg'[c] = new
      BY <1>1, <2>8, <2>12 DEF IInv, TypeOK
    <2>14. SupplyInv(c)'
      BY <2>13 DEF SupplyInv, SupplyLabels
    <2>15. /\ reg'[c].r = reg[c].r /\ reg'[c].k = k /\ reg'[c].data = <<>>
           /\ Len(reg'[c].data) < reg'[c].k
           /\ read_pointer' = read_pointer /\ write_pointer' = write_pointer
           /\ \A i \in 1..Len(reg'[c].data) : FALSE
      BY <1>1, <2>10, <2>11, <2>13
    <2>16. ConsumeInv(c)'
      BY <2>1, <2>10, <2>13, <2>15 DEF ConsumeInv, ConsumeLabels, Offset
    <2> QED BY <1>1, <2>8, <2>11, <2>12, <2>14, <2>16, LocalStep DEF ConsumeLabels
  <1> QED BY <1>2, <1>3

LEMMA PopLoadWriteKeeps ==
  ASSUME OneSupplier, IInv, UNCHANGED prioritize_old, NEW c \in Consumers, PopLoadWrite(c)
  PROVE  IInv'
  <1> DEFINE new == [reg[c] EXCEPT !.w = write_pointer, !.k = 1]
  <1>1. /\ c \in Threads /\ pc[c] = "pop_load"
        /\ UNCHANGED <<prioritize_old, read_pointer, write_pointer, buffers, sent, gone>>
    BY DEF Threads, PopLoadWrite
  <1>2. CASE write_pointer = reg[c].r
    <2>1. Finish(c)
      BY <1>2 DEF PopLoadWrite
    <2> QED BY <1>1, <2>1, FinishKeeps
  <1>3. CASE write_pointer # reg[c].r
    <2>1. /\ reg[c] \in [r : Nat, w : Nat, n : Nat, k : Nat, data : Seq(Values)]
          /\ reg[c].r <= read_pointer
          /\ read_pointer \in Nat /\ write_pointer \in Nat /\ read_pointer <= write_pointer
      BY <1>1, LocalsHave DEF ConsumeInv, ConsumeLabels
    <2>2. reg[c].r \in Nat
      BY <2>1
    <2>3. reg[c].r < write_pointer
      BY <1>3, <2>1, <2>2
    <2>4. /\ pc' = [pc EXCEPT ![c] = "pop_release"]
          /\ reg' = [reg EXCEPT ![c].w = write_pointer, ![c].k = 1]
      BY <1>3 DEF PopLoadWrite, Go
    <2>5. /\ new \in [r : Nat, w : Nat, n : Nat, k : Nat, data : Seq(Values)]
          /\ new.r = reg[c].r
      BY <2>1
    <2>6. reg' = [reg EXCEPT ![c] = new]
      BY <2>4
    <2> HIDE DEF new
    <2>7. pc'[c] = "pop_release" /\ reg'[c] = new
      BY <1>1, <2>4, <2>6 DEF IInv, TypeOK
    <2>8. SupplyInv(c)'
      BY <2>7 DEF SupplyInv, SupplyLabels
    <2>9. ConsumeInv(c)'
      BY <1>1, <2>1, <2>3, <2>5, <2>7 DEF ConsumeInv, ConsumeLabels, Offset
    <2> QED BY <1>1, <2>4, <2>5, <2>6, <2>8, <2>9, LocalStep DEF ConsumeLabels
  <1> QED BY <1>2, <1>3

LEMMA ReadElementKeeps ==
  ASSUME OneSupplier, IInv, UNCHANGED prioritize_old, NEW c \in Consumers, ReadElement(c)
  PROVE  IInv'
  <1> DEFINE i == Len(reg[c].data)
             r == reg[c].r
             k == reg[c].k
             next == IF i + 1 = k THEN "consume_release" ELSE "consume_read"
             new == [reg[c] EXCEPT !.data = Append(@, At(r + i))]
  <1>1. /\ c \in Threads /\ pc[c] = "consume_read"
        /\ UNCHANGED <<prioritize_old, read_pointer, write_pointer, buffers, sent, gone>>
    BY DEF Threads, ReadElement
  <1>2. /\ reg[c] \in [r : Nat, w : Nat, n : Nat, k : Nat, data : Seq(Values)]
        /\ TypeOK /\ ConsumeInv(c)
        /\ read_pointer \in Nat /\ write_pointer \in Nat
    BY <1>1, LocalsHave DEF IInv
  <1>3. r \in Nat /\ k \in Nat /\ i \in Nat /\ reg[c].data \in Seq(Values)
    BY <1>2
  <1>4. /\ r <= read_pointer /\ r + k <= write_pointer /\ k <= PageSize - Offset(r) /\ i < k
        /\ read_pointer = r => \A s \in Suppliers : \A j \in 1..i : reg[c].data[j] = <<s, r + j>>
    BY <1>1, <1>2 DEF ConsumeInv, ConsumeLabels
  <1>5. pc' = [pc EXCEPT ![c] = next]
    BY DEF ReadElement, Go
  <1>6. reg' = [reg EXCEPT ![c].data = Append(@, buffers[Page(r)][Offset(r) + i])]
    BY DEF ReadElement
  <1> HIDE DEF i, r, k, next
  <1>7. i < PageSize - Offset(r)
    <2>1. Offset(r) \in 0..(PageSize - 1) /\ PageSize \in Nat
      BY <1>3, SlotExists, SizeAssumption
    <2> QED BY <1>3, <1>4, <2>1
  <1>8. At(r + i) = buffers[Page(r)][Offset(r) + i]
    BY <1>3, <1>7, SamePage DEF At
  <1>9. At(r + i) \in Values
    <2>1. r + i \in Nat
      BY <1>3
    <2>2. Page(r + i) \in 0..(NumPages - 1) /\ Offset(r + i) \in 0..(PageSize - 1)
      BY <2>1, SlotExists
    <2> QED BY <1>2, <2>2 DEF At, TypeOK
  <1>10. /\ new \in [r : Nat, w : Nat, n : Nat, k : Nat, data : Seq(Values)]
         /\ new.r = r /\ new.k = k /\ new.data = Append(reg[c].data, At(r + i))
    <2>1. Append(reg[c].data, At(r + i)) \in Seq(Values)
      BY <1>3, <1>9
    <2> QED BY <1>2, <2>1 DEF r, k
  <1>11. reg' = [reg EXCEPT ![c] = new]
    BY <1>6, <1>8
  <1> HIDE DEF new
  <1>12. /\ next \in {"consume_read", "consume_release"} /\ pc'[c] = next /\ reg'[c] = new
    BY <1>1, <1>2, <1>5, <1>11 DEF TypeOK, next
  <1>13. /\ reg'[c].r = r /\ reg'[c].k = k /\ Len(reg'[c].data) = i + 1
         /\ reg'[c].data = Append(reg[c].data, At(r + i))
    BY <1>3, <1>10, <1>12 DEF i
  <1>14. ASSUME read_pointer = r, NEW s \in Suppliers
         PROVE  \A j \in 1..(i + 1) : reg'[c].data[j] = <<s, r + j>>
    <2> SUFFICES ASSUME NEW j \in 1..(i + 1) PROVE reg'[c].data[j] = <<s, r + j>>
      OBVIOUS
    <2>1. CASE j \in 1..i
      <3>1. reg'[c].data[j] = reg[c].data[j]
        BY <1>3, <1>13, <2>1 DEF i
      <3> QED BY <1>4, <1>14, <2>1, <3>1
    <2>2. CASE j \notin 1..i
      <3>1. j = i + 1
        BY <1>3, <2>2
      <3>2. reg'[c].data[j] = At(r + i)
        BY <1>3, <1>13, <3>1 DEF i
      <3>3. r + i \in read_pointer..(write_pointer - 1) /\ (r + i) + 1 = r + j
        BY <1>2, <1>3, <1>4, <1>14, <3>1
      <3> QED BY <3>2, <3>3 DEF IInv, ElementsInPlace
    <2> QED BY <2>1, <2>2
  <1>15. /\ next = "consume_read" => i + 1 < k
         /\ next = "consume_release" => i + 1 = k
    BY <1>3, <1>4 DEF next
  <1>16. k \in Nat \ {0}
    BY <1>3, <1>4
  <1>17. SupplyInv(c)'
    BY <1>12 DEF SupplyInv, SupplyLabels
  <1>18. read_pointer' = read_pointer /\ write_pointer' = write_pointer
    BY <1>1
  <1>19. ConsumeInv(c)'
    BY <1>4, <1>12, <1>13, <1>14, <1>15, <1>16, <1>18 DEF ConsumeInv, ConsumeLabels, Offset
  <1> QED BY <1>1, <1>5, <1>10, <1>11, <1>12, <1>17, <1>19, LocalStep DEF ConsumeLabels

(* A reader moves the read pointer over elements that are then gone. *)
LEMMA ReadPointerMoves ==
  ASSUME OneSupplier, IInv, NEW c \in Threads, NEW m \in Nat,
         read_pointer <= m, m <= write_pointer, read_pointer' = m,
         gone \subseteq gone',
         \A u \in Suppliers : \A n \in (read_pointer + 1)..m : <<u, n>> \in gone',
         pc' = [pc EXCEPT ![c] = "idle"], reg' = [reg EXCEPT ![c] = NoLocals],
         UNCHANGED <<prioritize_old, write_pointer, buffers, sent>>
  PROVE  IInv'
  <1>1. /\ TypeOK /\ read_pointer \in Nat /\ write_pointer \in Nat
        /\ max_buffered_elements \in Nat
        /\ read_pointer <= write_pointer
        /\ write_pointer <= read_pointer + max_buffered_elements
        /\ NoLocals \in [r : Nat, w : Nat, n : Nat, k : Nat, data : Seq(Values)]
    BY LocalsHave, Capacity DEF IInv
  <1>2. TypeOK'
    BY <1>1 DEF TypeOK
  <1>3. PointersInRange'
    <2>1. write_pointer - m <= max_buffered_elements
      BY <1>1
    <2> QED BY <2>1 DEF PointersInRange
  <1>4. ElementsInPlace'
    <2>1. ASSUME NEW p \in m..(write_pointer - 1), NEW u \in Suppliers PROVE At(p) = <<u, p + 1>>
      <3>1. p \in read_pointer..(write_pointer - 1)
        BY <1>1
      <3> QED BY <3>1 DEF IInv, ElementsInPlace
    <2>2. ASSUME NEW n \in 1..m, NEW u \in Suppliers PROVE <<u, n>> \in gone'
      <3>1. n \in 1..read_pointer \/ n \in (read_pointer + 1)..m
        BY <1>1
      <3> QED BY <3>1 DEF IInv, ElementsInPlace
    <2> QED BY <2>1, <2>2 DEF IInv, ElementsInPlace, At
  <1>5. pc'[c] = "idle" /\ \A u \in Threads \ {c} : pc'[u] = pc[u] /\ reg'[u] = reg[u]
    BY <1>1 DEF TypeOK
  <1>6. write_pointer <= write_pointer' /\ read_pointer <= read_pointer'
    BY <1>1
  <1> QED BY <1>2, <1>3, <1>4, <1>5, <1>6, NothingKnown, SharedStep

LEMMA ReleaseKeeps ==
  ASSUME OneSupplier, IInv, UNCHANGED prioritize_old, NEW c \in Consumers, Release(c)
  PROVE  IInv'
  <1> DEFINE k == reg[c].k
             data == reg[c].data
  <1>1. /\ c \in Threads /\ pc[c] = "consume_release"
        /\ UNCHANGED <<prioritize_old, write_pointer, buffers, sent>>
    BY DEF Threads, Release
  <1>2. CASE read_pointer # reg[c].r
    <2>1. Finish(c) /\ UNCHANGED <<read_pointer, gone>>
      BY <1>2 DEF Release
    <2> QED BY <1>1, <2>1, FinishKeeps
  <1>3. CASE read_pointer = reg[c].r
    <2>1. /\ read_pointer' = read_pointer + k
          /\ gone' = gone \union {data[i] : i \in DOMAIN data}
          /\ pc' = [pc EXCEPT ![c] = "idle"] /\ reg' = [reg EXCEPT ![c] = NoLocals]
      BY <1>3 DEF Release, Finish, Go
    <2>2. /\ k \in Nat /\ read_pointer + k <= write_pointer /\ Len(data) = k
          /\ \A s \in Suppliers : \A i \in 1..k : data[i] = <<s, read_pointer + i>>
          /\ read_pointer \in Nat
      <3>1. ConsumeInv(c) /\ read_pointer \in Nat
        BY <1>1, LocalsHave
      <3>2. /\ k \in Nat \ {0} /\ read_pointer + k <= write_pointer
            /\ \A s \in Suppliers : \A i \in 1..Len(data) : data[i] = <<s, read_pointer + i>>
        BY <1>1, <1>3, <3>1 DEF ConsumeInv
      <3>3. Len(data) = k
        BY <1>1, <3>1 DEF ConsumeInv
      <3> HIDE DEF k, data
      <3> QED BY <3>1, <3>2, <3>3
    <2>3. DOMAIN data = 1..k
      BY <1>1, <2>2, LocalsHave
    <2> HIDE DEF k, data
    <2>4. ASSUME NEW u \in Suppliers, NEW n \in (read_pointer + 1)..(read_pointer + k)
          PROVE  <<u, n>> \in gone'
      <3>1. n - read_pointer \in 1..k /\ read_pointer + (n - read_pointer) = n
        BY <2>2
      <3>2. data[n - read_pointer] = <<u, n>>
        BY <2>2, <3>1
      <3> QED BY <2>1, <2>3, <3>1, <3>2
    <2>5. read_pointer + k \in Nat /\ read_pointer <= read_pointer + k
      BY <2>2
    <2> QED BY <1>1, <2>1, <2>2, <2>4, <2>5, ReadPointerMoves
  <1> QED BY <1>2, <1>3

LEMMA PopReleaseKeeps ==
  ASSUME OneSupplier, IInv, UNCHANGED prioritize_old, NEW c \in Consumers, PopRelease(c)
  PROVE  IInv'
  <1>1. /\ c \in Threads /\ pc[c] = "pop_release"
        /\ UNCHANGED <<prioritize_old, write_pointer, buffers, sent>>
    BY DEF Threads, PopRelease
  <1>2. CASE read_pointer # reg[c].r
    <2>1. Finish(c) /\ UNCHANGED <<read_pointer, gone>>
      BY <1>2 DEF PopRelease
    <2> QED BY <1>1, <2>1, FinishKeeps
  <1>3. CASE read_pointer = reg[c].r
    <2>1. /\ read_pointer' = read_pointer + 1
          /\ gone' = gone \union {At(read_pointer)}
          /\ pc' = [pc EXCEPT ![c] = "idle"] /\ reg' = [reg EXCEPT ![c] = NoLocals]
      BY <1>3 DEF PopRelease, Finish, Go
    <2>2. read_pointer \in Nat /\ write_pointer \in Nat /\ read_pointer < write_pointer
      BY <1>1, <1>3, LocalsHave DEF ConsumeInv, ConsumeLabels
    <2>3. ASSUME NEW u \in Suppliers, NEW n \in (read_pointer + 1)..(read_pointer + 1)
          PROVE  <<u, n>> \in gone'
      <3>1. n = read_pointer + 1 /\ read_pointer \in read_pointer..(write_pointer - 1)
        BY <2>2
      <3>2. At(read_pointer) = <<u, n>>
        BY <3>1 DEF IInv, ElementsInPlace
      <3> QED BY <2>1, <3>2
    <2>4. /\ read_pointer + 1 \in Nat /\ read_pointer <= read_pointer + 1
          /\ read_pointer + 1 <= write_pointer
      BY <2>2
    <2> QED BY <1>1, <2>1, <2>3, <2>4, ReadPointerMoves
  <1> QED BY <1>2, <1>3

-----------------------------------------------------------------------------
LEMMA InvariantNext ==
  ASSUME OneSupplier, IInv, [Next]_vars
  PROVE  IInv'
  <1>1. CASE Next
    <2>1. UNCHANGED prioritize_old
      BY <1>1 DEF Next
    <2>2. 1..MaxBatch \subseteq Nat \ {0}
      BY BoundAssumption
    <2>3. ASSUME NEW s \in Suppliers, Supplying(s) PROVE IInv'
      BY <2>1, <2>2, <2>3, SupplyKeeps, SupplyLoadWriteKeeps, DropOldestKeeps,
         WriteElementKeeps, PublishKeeps DEF Supplying
    <2>4. ASSUME NEW c \in Consumers, Consuming(c) PROVE IInv'
      BY <2>1, <2>2, <2>4, ConsumeKeeps, ConsumeLoadWriteKeeps, ReadElementKeeps,
         ReleaseKeeps, PopKeeps, PopLoadWriteKeeps, PopReleaseKeeps DEF Consuming
    <2> QED BY <1>1, <2>3, <2>4 DEF Next
  <1>2. CASE UNCHANGED vars
    <2>1. TypeOK' /\ PointersInRange' /\ ElementsInPlace'
      BY <1>2 DEF IInv, vars, TypeOK, PointersInRange, ElementsInPlace, At
    <2>2. \A t \in Threads : SupplyInv(t)' /\ ConsumeInv(t)'
      BY <1>2 DEF IInv, vars, SupplyInv, ConsumeInv, At, Offset
    <2> QED BY <2>1, <2>2 DEF IInv
  <1> QED BY <1>1, <1>2

(* The inductive invariant holds of every behaviour with one supplier. *)
THEOREM InvariantHolds ==
  ASSUME OneSupplier
  PROVE  Spec => []IInv
  <1>1. Init => IInv
    BY InvariantInit
  <1>2. IInv /\ [Next]_vars => IInv'
    BY InvariantNext
  <1> QED BY <1>1, <1>2, PTL DEF Spec

-----------------------------------------------------------------------------
(* What is in the ring: the elements numbered a + 1 to b of the source.    *)
Source == CHOOSE s : s \in Suppliers

Window(a, b) == [i \in 1..(b - a) |-> <<Source, a + i>>]

LEMMA ContentsAre == IInv => Contents = Window(read_pointer, write_pointer)
  <1> SUFFICES ASSUME IInv PROVE Contents = Window(read_pointer, write_pointer)
    OBVIOUS
  <1>1. /\ read_pointer \in Nat /\ write_pointer \in Nat /\ read_pointer <= write_pointer
    BY DEF IInv, TypeOK, PointersInRange
  <1>2. ASSUME NEW i \in 1..(write_pointer - read_pointer)
        PROVE  At(read_pointer + i - 1) = <<Source, read_pointer + i>>
    <2>1. /\ read_pointer + i - 1 \in read_pointer..(write_pointer - 1)
          /\ (read_pointer + i - 1) + 1 = read_pointer + i /\ write_pointer # 0
      BY <1>1
    <2>2. Source \in Suppliers
      BY <2>1 DEF IInv, ElementsInPlace, Source
    <2>3. At(read_pointer + i - 1) = <<Source, (read_pointer + i - 1) + 1>>
      BY <2>1, <2>2 DEF IInv, ElementsInPlace
    <2> QED BY <2>1, <2>3
  <1> QED BY <1>2 DEF Contents, Window

LEMMA ContentsAreNext == IInv' => Contents' = Window(read_pointer', write_pointer')
  <1>1. IInv => Contents = Window(read_pointer, write_pointer)
    BY ContentsAre
  <1>2. IInv' => (Contents = Window(read_pointer, write_pointer))'
    BY <1>1, PTL
  <1> QED BY <1>2 DEF Window

LEMMA WindowIsSequence ==
  ASSUME NEW a \in Nat, NEW b \in Nat, a <= b
  PROVE  /\ Window(a, b) \in Seq({Source} \X Nat)
         /\ Len(Window(a, b)) = b - a
         /\ DOMAIN Window(a, b) = 1..(b - a)
         /\ \A i \in 1..(b - a) : Window(a, b)[i] = <<Source, a + i>>
  <1>1. b - a \in Nat
    OBVIOUS
  <1>2. \A i \in 1..(b - a) : <<Source, a + i>> \in {Source} \X Nat
    OBVIOUS
  <1> QED BY <1>1, <1>2 DEF Window

LEMMA WindowFront ==
  ASSUME NEW a \in Nat, NEW m \in Nat, NEW b \in Nat, a <= m, m <= b
  PROVE  SubSeq(Window(a, b), 1, m - a) = Window(a, m)
  <1>1. b - a \in Nat /\ m - a \in Nat /\ 1..(m - a) \subseteq 1..(b - a)
    OBVIOUS
  <1>2. Window(a, b) \in Seq({Source} \X Nat) /\ Len(Window(a, b)) = b - a
    <2>1. a <= b
      OBVIOUS
    <2> QED BY <2>1, WindowIsSequence
  <1>3. SubSeq(Window(a, b), 1, m - a) = [i \in 1..(m - a) |-> Window(a, b)[i]]
    BY <1>1, <1>2
  <1> QED BY <1>1, <1>3 DEF Window

LEMMA WindowBack ==
  ASSUME NEW a \in Nat, NEW m \in Nat, NEW b \in Nat, a <= m, m <= b
  PROVE  SubSeq(Window(a, b), (m - a) + 1, b - a) = Window(m, b)
  <1>1. b - a \in Nat /\ m - a \in Nat /\ b - m \in Nat /\ m - a <= b - a
    OBVIOUS
  <1>2. Window(a, b) \in Seq({Source} \X Nat) /\ Len(Window(a, b)) = b - a
    <2>1. a <= b
      OBVIOUS
    <2> QED BY <2>1, WindowIsSequence
  <1>3. SubSeq(Window(a, b), (m - a) + 1, b - a) = [i \in 1..(b - m) |-> Window(a, b)[i + (m - a)]]
    BY <1>1, <1>2
  <1>4. \A i \in 1..(b - m) : i + (m - a) \in 1..(b - a) /\ a + (i + (m - a)) = m + i
    OBVIOUS
  <1> QED BY <1>3, <1>4 DEF Window

(* Between any two accesses to shared memory the ring holds what it ought  *)
(* to, for any number of consumers, pages of any size and batches of any   *)
(* length, as long as one thread supplies.                                 *)
THEOREM RingStaysSound ==
  ASSUME OneSupplier
  PROVE  Spec => []RingIsSound
  <1>1. IInv => RingIsSound
    <2> SUFFICES ASSUME IInv PROVE RingIsSound
      OBVIOUS
    <2>1. PointersInRange
      BY DEF IInv
    <2>2. NeverThrows
      BY DEF IInv, TypeOK, NeverThrows, SupplyLabels, ConsumeLabels, Threads
    <2>3. SuppliedIsKept
      <3> SUFFICES ASSUME NEW s \in Suppliers, NEW n \in 1..sent[s], <<s, n>> \notin gone
                   PROVE  \E i \in DOMAIN Contents : Contents[i] = <<s, n>>
        BY DEF SuppliedIsKept
      <3>1. /\ read_pointer \in Nat /\ write_pointer \in Nat /\ read_pointer <= write_pointer
            /\ sent[s] = write_pointer
        BY DEF IInv, TypeOK, PointersInRange, ElementsInPlace
      <3>2. n \notin 1..read_pointer
        BY DEF IInv, ElementsInPlace
      <3> DEFINE i == n - read_pointer
      <3>3. /\ i \in 1..(write_pointer - read_pointer) /\ read_pointer + i = n
            /\ read_pointer + i - 1 \in read_pointer..(write_pointer - 1)
            /\ (read_pointer + i - 1) + 1 = n
        BY <3>1, <3>2
      <3> HIDE DEF i
      <3>4. At(read_pointer + i - 1) = <<s, n>>
        BY <3>3 DEF IInv, ElementsInPlace
      <3> QED BY <3>3, <3>4 DEF Contents
    <2> QED BY <2>1, <2>2, <2>3 DEF RingIsSound
  <1>2. Spec => []IInv
    BY InvariantHolds
  <1> QED BY <1>1, <1>2, PTL

-----------------------------------------------------------------------------

(* Every step is one of the queue, or changes nothing of it.  Moving the   *)
(* read pointer removes the oldest elements.                               *)
LEMMA OldestRemoved ==
  ASSUME IInv, IInv', NEW m \in Nat, read_pointer' = m,
         read_pointer < m, m <= write_pointer, UNCHANGED write_pointer
  PROVE  /\ (m - read_pointer) \in 1..Len(Contents)
         /\ Contents' = SubSeq(Contents, (m - read_pointer) + 1, Len(Contents))
         /\ SubSeq(Contents, 1, m - read_pointer) = Window(read_pointer, m)
  <1>1. /\ read_pointer \in Nat /\ write_pointer \in Nat
        /\ read_pointer <= m /\ read_pointer <= write_pointer
    BY DEF IInv, TypeOK
  <1>2. Contents = Window(read_pointer, write_pointer) /\ Contents' = Window(m, write_pointer)
    BY ContentsAre, ContentsAreNext
  <1>3. Len(Contents) = write_pointer - read_pointer
    BY <1>1, <1>2, WindowIsSequence
  <1>4. (m - read_pointer) \in 1..(write_pointer - read_pointer)
    BY <1>1
  <1>5. SubSeq(Contents, (m - read_pointer) + 1, Len(Contents)) = Window(m, write_pointer)
    <2>1. SubSeq(Window(read_pointer, write_pointer), (m - read_pointer) + 1,
                 write_pointer - read_pointer) = Window(m, write_pointer)
      BY <1>1, WindowBack
    <2> QED BY <1>2, <1>3, <2>1
  <1>6. SubSeq(Contents, 1, m - read_pointer) = Window(read_pointer, m)
    BY <1>1, <1>2, WindowFront
  <1> QED BY <1>2, <1>3, <1>4, <1>5, <1>6

LEMMA NothingMoves ==
  ASSUME IInv, IInv', UNCHANGED <<read_pointer, write_pointer, taken>>
  PROVE  UNCHANGED Fifo!vars
  BY ContentsAre, ContentsAreNext DEF Fifo!vars

LEMMA DropOldestDiscards ==
  ASSUME IInv, IInv', NEW s \in Suppliers, DropOldest(s)
  PROVE  [Fifo!Next]_(Fifo!vars)
  <1>1. UNCHANGED <<write_pointer, taken>>
    BY DEF DropOldest
  <1>2. CASE read_pointer # reg[s].r
    BY <1>1, <1>2, NothingMoves DEF DropOldest
  <1>3. CASE read_pointer = reg[s].r
    <2> DEFINE m == write_pointer + reg[s].k - max_buffered_elements
    <2>1. read_pointer' = m /\ m \in Nat /\ read_pointer < m /\ m <= write_pointer
      BY <1>3, DropOldestMakesRoom
    <2> HIDE DEF m
    <2>2. /\ (m - read_pointer) \in 1..Len(Contents)
          /\ Contents' = SubSeq(Contents, (m - read_pointer) + 1, Len(Contents))
      BY <1>1, <2>1, OldestRemoved
    <2>3. Fifo!Discard
      BY <1>1, <2>2 DEF Fifo!Discard
    <2> QED BY <2>3 DEF Fifo!Next
  <1> QED BY <1>2, <1>3

LEMMA PublishPuts ==
  ASSUME IInv, IInv', NEW s \in Suppliers, Publish(s)
  PROVE  Fifo!Put
  <1> DEFINE k == reg[s].k
             len == write_pointer - read_pointer
  <1>1. s \in Threads /\ pc[s] = "supply_publish" /\ UNCHANGED <<read_pointer, taken>>
    BY DEF Threads, Publish
  <1>2. /\ read_pointer \in Nat /\ write_pointer \in Nat /\ max_buffered_elements \in Nat
        /\ read_pointer <= write_pointer
    BY <1>1, LocalsHave, Capacity
  <1>3. /\ reg[s].w = write_pointer /\ k \in 1..reg[s].n /\ reg[s].n \in Nat
        /\ write_pointer + k <= read_pointer + max_buffered_elements
    <2>1. SupplyInv(s) /\ TypeOK
      BY <1>1 DEF IInv
    <2> QED BY <1>1, <2>1 DEF SupplyInv, SupplyLabels, TypeOK
  <1>4. write_pointer' = write_pointer + k
    BY <1>3 DEF Publish
  <1> HIDE DEF k
  <1>5. k \in Nat /\ 0 < k
    BY <1>3
  <1>6. write_pointer + k <= MaxPointer
    BY <1>4 DEF IInv, ElementsInPlace
  <1>7. Contents = Window(read_pointer, write_pointer)
        /\ Contents' = Window(read_pointer, write_pointer + k)
    BY <1>1, <1>4, ContentsAre, ContentsAreNext
  <1>8. /\ write_pointer + k \in Nat /\ read_pointer <= write_pointer + k
        /\ (write_pointer + k) - read_pointer = len + k
        /\ len \in Nat /\ len + k <= max_buffered_elements
    BY <1>2, <1>3, <1>5
  <1>9. Len(Contents) = len /\ Len(Contents') = len + k /\ DOMAIN Contents' = 1..(len + k)
    BY <1>2, <1>7, <1>8, WindowIsSequence
  <1>10. \A i \in DOMAIN Contents' : Contents'[i] \in Elements
    <2> SUFFICES ASSUME NEW i \in 1..(len + k) PROVE Contents'[i] \in Elements
      BY <1>9
    <2>1. Contents'[i] = <<Source, read_pointer + i>>
      BY <1>2, <1>7, <1>8, WindowIsSequence
    <2>2. read_pointer + i \in 1..MaxPointer
      BY <1>2, <1>5, <1>6, <1>8, BoundAssumption
    <2>3. Source \in Suppliers
      BY DEF Source
    <2> QED BY <2>1, <2>2, <2>3 DEF Elements
  <1>11. SubSeq(Contents', 1, Len(Contents)) = Contents
    <2>1. SubSeq(Window(read_pointer, write_pointer + k), 1, len)
            = Window(read_pointer, write_pointer)
      BY <1>2, <1>5, <1>8, WindowFront
    <2> QED BY <1>7, <1>9, <2>1
  <1>12. k \in 1..(max_buffered_elements - Len(Contents))
    BY <1>2, <1>5, <1>8, <1>9
  <1> QED BY <1>1, <1>9, <1>10, <1>11, <1>12 DEF Fifo!Put

LEMMA ReleaseTakes ==
  ASSUME IInv, IInv', NEW c \in Consumers, Release(c)
  PROVE  [Fifo!Next]_(Fifo!vars)
  <1>1. c \in Threads /\ pc[c] = "consume_release" /\ UNCHANGED write_pointer
    BY DEF Threads, Release
  <1>2. CASE read_pointer # reg[c].r
    BY <1>1, <1>2, NothingMoves DEF Release
  <1>3. CASE read_pointer = reg[c].r
    <2> DEFINE k == reg[c].k
               data == reg[c].data
               m == read_pointer + k
    <2>1. read_pointer' = m /\ taken' = [taken EXCEPT ![c] = data]
      BY <1>3 DEF Release
    <2>2. /\ k \in Nat /\ 0 < k /\ m <= write_pointer /\ Len(data) = k
          /\ read_pointer \in Nat /\ write_pointer \in Nat
          /\ \A s \in Suppliers : \A i \in 1..k : data[i] = <<s, read_pointer + i>>
      <3>1. ConsumeInv(c) /\ read_pointer \in Nat /\ write_pointer \in Nat
        BY <1>1, LocalsHave
      <3>2. /\ k \in Nat \ {0} /\ read_pointer + k <= write_pointer
            /\ \A s \in Suppliers : \A i \in 1..Len(data) : data[i] = <<s, read_pointer + i>>
        BY <1>1, <1>3, <3>1 DEF ConsumeInv
      <3>3. Len(data) = k
        BY <1>1, <3>1 DEF ConsumeInv
      <3> HIDE DEF k, data
      <3> QED BY <3>1, <3>2, <3>3
    <2>3. data \in Seq(Values)
      BY <1>1, LocalsHave
    <2> HIDE DEF k, data
    <2>4. /\ m \in Nat /\ read_pointer < m /\ read_pointer <= m /\ m - read_pointer = k
          /\ write_pointer # 0
      BY <2>2
    <2> HIDE DEF m
    <2>5. /\ k \in 1..Len(Contents)
          /\ Contents' = SubSeq(Contents, k + 1, Len(Contents))
          /\ SubSeq(Contents, 1, k) = Window(read_pointer, m)
      BY <1>1, <2>1, <2>2, <2>4, OldestRemoved
    <2>6. data = Window(read_pointer, m)
      <3>1. Source \in Suppliers
        BY <2>4 DEF IInv, ElementsInPlace, Source
      <3>2. /\ Window(read_pointer, m) \in Seq({Source} \X Nat)
            /\ Len(Window(read_pointer, m)) = k
            /\ \A i \in 1..k : Window(read_pointer, m)[i] = <<Source, read_pointer + i>>
        BY <2>2, <2>4, WindowIsSequence
      <3>3. \A i \in 1..k : data[i] = Window(read_pointer, m)[i]
        BY <2>2, <3>1, <3>2
      <3> QED BY <2>2, <2>3, <3>2, <3>3
    <2>7. Fifo!Take(c)
      BY <2>1, <2>5, <2>6 DEF Fifo!Take
    <2> QED BY <2>7 DEF Fifo!Next
  <1> QED BY <1>2, <1>3

LEMMA PopReleaseDiscards ==
  ASSUME IInv, IInv', NEW c \in Consumers, PopRelease(c)
  PROVE  [Fifo!Next]_(Fifo!vars)
  <1>1. c \in Threads /\ pc[c] = "pop_release" /\ UNCHANGED <<write_pointer, taken>>
    BY DEF Threads, PopRelease
  <1>2. CASE read_pointer # reg[c].r
    BY <1>1, <1>2, NothingMoves DEF PopRelease
  <1>3. CASE read_pointer = reg[c].r
    <2> DEFINE m == read_pointer + 1
    <2>1. read_pointer' = m
      BY <1>3 DEF PopRelease
    <2>2. read_pointer \in Nat /\ write_pointer \in Nat /\ read_pointer < write_pointer
      BY <1>1, <1>3, LocalsHave DEF ConsumeInv, ConsumeLabels
    <2>3. m \in Nat /\ read_pointer < m /\ m <= write_pointer
      BY <2>2
    <2> HIDE DEF m
    <2>4. /\ (m - read_pointer) \in 1..Len(Contents)
          /\ Contents' = SubSeq(Contents, (m - read_pointer) + 1, Len(Contents))
      BY <1>1, <2>1, <2>3, OldestRemoved
    <2>5. Fifo!Discard
      BY <1>1, <2>4 DEF Fifo!Discard
    <2> QED BY <2>5 DEF Fifo!Next
  <1> QED BY <1>2, <1>3

LEMMA StepIsOfFifo ==
  ASSUME IInv, IInv', [Next]_vars
  PROVE  [Fifo!Next]_(Fifo!vars)
  <1>1. ASSUME NEW s \in Suppliers, Supplying(s) PROVE [Fifo!Next]_(Fifo!vars)
    <2>1. CASE DropOldest(s)
      BY <2>1, DropOldestDiscards
    <2>2. CASE Publish(s)
      BY <2>2, PublishPuts DEF Fifo!Next
    <2>3. CASE ~DropOldest(s) /\ ~Publish(s)
      <3>1. UNCHANGED <<read_pointer, write_pointer, taken>>
        BY <1>1, <2>3 DEF Supplying, Supply, SupplyLoadWrite, WriteElement
      <3> QED BY <3>1, NothingMoves
    <2> QED BY <2>1, <2>2, <2>3
  <1>2. ASSUME NEW c \in Consumers, Consuming(c) PROVE [Fifo!Next]_(Fifo!vars)
    <2>1. CASE Release(c)
      BY <2>1, ReleaseTakes
    <2>2. CASE PopRelease(c)
      BY <2>2, PopReleaseDiscards
    <2>3. CASE ~Release(c) /\ ~PopRelease(c)
      <3>1. UNCHANGED <<read_pointer, write_pointer, taken>>
        BY <1>2, <2>3 DEF Consuming, Consume, ConsumeLoadWrite, ReadElement, Pop, PopLoadWrite
      <3> QED BY <3>1, NothingMoves
    <2> QED BY <2>1, <2>2, <2>3
  <1>3. CASE UNCHANGED vars
    BY <1>3, NothingMoves DEF vars
  <1> QED BY <1>1, <1>2, <1>3 DEF Next

(* Calls that overlap act as if each happened at once, on a bounded queue, *)
(* as long as one thread supplies.                                         *)
THEOREM RingIsAQueue ==
  ASSUME OneSupplier
  PROVE  Spec => ImplementsFifo
  <1>1. Init => Fifo!Init
    BY DEF Init, Fifo!Init, Contents
  <1>2. IInv /\ IInv' /\ [Next]_vars => [Fifo!Next]_(Fifo!vars)
    BY StepIsOfFifo
  <1>3. Spec => []IInv
    BY InvariantHolds
  <1> QED BY <1>1, <1>2, <1>3, PTL DEF Spec, ImplementsFifo, Fifo!Spec

=============================================================================
