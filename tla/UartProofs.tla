----------------------------- MODULE UartProofs -----------------------------
(***************************************************************************)
(* The UART driver loses, repeats and reorders no byte, for every size of  *)
(* the rings and FIFOs, every level of the two interrupts and every length *)
(* of the program's calls.  Its rings are the queues of module Queue:      *)
(* so is the ring buffer, for every capacity.                              *)
(***************************************************************************)
EXTENDS Uart, Ring, SequenceTheorems, TLAPS

-----------------------------------------------------------------------------
(***************************************************************************)
(* The ring buffer is a bounded queue, for every capacity.                 *)
(***************************************************************************)
\* A number has one quotient and one remainder.
LEMMA DivisionUnique ==
  ASSUME NEW w \in Nat \ {0}, NEW q \in Nat, NEW r \in 0 .. (w - 1)
  PROVE  /\ (q * w + r) \div w = q
         /\ (q * w + r) % w = r
  BY SMT

\* Counting on from an index of a ring wraps round at most once.
LEMMA WrapOnce ==
  ASSUME NEW w \in Nat \ {0}, NEW a \in 0 .. (w - 1), NEW k \in 0 .. w
  PROVE  (a + k) % w = IF a + k < w THEN a + k ELSE a + k - w
PROOF
  <1>1. CASE a + k < w
    <2>1. a + k \in 0 .. (w - 1) /\ 0 * w + (a + k) = a + k
      BY <1>1
    <2> QED BY <1>1, <2>1, DivisionUnique
  <1>2. CASE ~(a + k < w)
    <2>1. a + k - w \in 0 .. (w - 1) /\ 1 * w + (a + k - w) = a + k
      BY <1>2
    <2> QED BY <1>2, <2>1, DivisionUnique
  <1> QED BY <1>1, <1>2

\* The slot k places after slot a.
After(a, k) == IF a + k < capacity THEN a + k ELSE a + k - capacity

LEMMA AfterIsWrap ==
  ASSUME NEW a \in Slots, NEW k \in 0 .. capacity
  PROVE  (a + k) % capacity = After(a, k) /\ After(a, k) \in Slots
PROOF
  <1>1. capacity \in Nat \ {0} /\ a \in 0 .. (capacity - 1) /\ k \in 0 .. capacity
    BY RingAssumption DEF Slots
  <1>2. (a + k) % capacity = IF a + k < capacity THEN a + k ELSE a + k - capacity
    BY <1>1, WrapOnce
  <1> QED BY <1>1, <1>2 DEF Slots, After

\* What the indices of a state that satisfies the invariant are.
LEMMA IndexFacts ==
  ASSUME RingInv
  PROVE  /\ capacity \in Nat \ {0}
         /\ size \in 0 .. capacity /\ read_idx \in Slots /\ write_idx \in Slots
         /\ write_idx = After(read_idx, size)
         /\ (write_idx + 1) % capacity = After(write_idx, 1)
         /\ (read_idx + 1) % capacity = After(read_idx, 1)
         /\ Contents = [i \in 1 .. size |-> buffer[After(read_idx, i - 1)]]
PROOF
  <1>1. /\ capacity \in Nat \ {0} /\ 1 \in 0 .. capacity
        /\ size \in 0 .. capacity /\ read_idx \in Slots /\ write_idx \in Slots
    BY RingAssumption DEF RingInv, RingTypeOK
  <1>2. write_idx = After(read_idx, size)
    BY <1>1, AfterIsWrap DEF RingInv, IndicesAgree
  <1>3. /\ (write_idx + 1) % capacity = After(write_idx, 1)
        /\ (read_idx + 1) % capacity = After(read_idx, 1)
    BY <1>1, AfterIsWrap
  <1>4. \A i \in 1 .. size : (read_idx + (i - 1)) % capacity = After(read_idx, i - 1)
    <2> TAKE i \in 1 .. size
    <2>1. i - 1 \in 0 .. capacity
      BY <1>1
    <2> QED BY <1>1, <2>1, AfterIsWrap
  <1>5. Contents = [i \in 1 .. size |-> buffer[After(read_idx, i - 1)]]
    BY <1>4 DEF Contents
  <1> QED BY <1>1, <1>2, <1>3, <1>5

LEMMA RingInitial == KBUFFER_RING_INIT => RingInv
PROOF
  <1> SUFFICES ASSUME KBUFFER_RING_INIT PROVE RingInv
    OBVIOUS
  <1>1. 0 \in Slots /\ 0 \in 0 .. capacity /\ After(0, 0) = 0
    BY RingAssumption DEF Slots, After
  <1>2. (0 + 0) % capacity = 0
    BY <1>1, AfterIsWrap
  <1> QED BY <1>1, <1>2 DEF KBUFFER_RING_INIT, RingInv, RingTypeOK, IndicesAgree

LEMMA RingStep == RingInv /\ [RingNext]_ring => RingInv'
PROOF
  <1> SUFFICES ASSUME RingInv, [RingNext]_ring PROVE RingInv'
    OBVIOUS
  <1>0. /\ capacity \in Nat \ {0}
        /\ size \in 0 .. capacity /\ read_idx \in Slots /\ write_idx \in Slots
        /\ write_idx = After(read_idx, size)
        /\ (write_idx + 1) % capacity = After(write_idx, 1)
        /\ (read_idx + 1) % capacity = After(read_idx, 1)
    BY IndexFacts
  <1>1. SUFFICES RingTypeOK' /\ write_idx' = After(read_idx', size')
    BY <1>0, AfterIsWrap DEF RingTypeOK, RingInv, IndicesAgree
  <1>2. buffer \in [Slots -> Byte] /\ Byte \subseteq Nat /\ answer \in Int
    BY RingAssumption DEF RingInv, RingTypeOK
  <1>3. ASSUME NEW c \in Byte, Stored(c)
        PROVE  RingTypeOK' /\ write_idx' = After(read_idx', size')
    BY <1>0, <1>2, <1>3 DEF Stored, RingTypeOK, After, Slots
  <1>4. CASE WriteRefused \/ ReadRefused \/ UNCHANGED ring
    BY <1>0, <1>2, <1>4 DEF WriteRefused, ReadRefused, ring, RingTypeOK
  <1>5. CASE Taken
    <2>1. buffer[read_idx] \in Int
      <3>1. read_idx \in Slots /\ buffer \in [Slots -> Byte]
        BY <1>0, <1>2
      <3>2. buffer[read_idx] \in Byte
        BY <3>1, Zenon
      <3>3. \A b \in Byte : b \in Int
        BY <1>2
      <3> QED BY <3>2, <3>3, Zenon
    <2>2. /\ answer' = buffer[read_idx] /\ read_idx' = After(read_idx, 1)
          /\ size' = size - 1 /\ size # 0 /\ UNCHANGED <<buffer, write_idx>>
      BY <1>0, <1>5 DEF Taken
    <2>3. /\ buffer' \in [Slots -> Byte] /\ answer' \in Int
          /\ size' \in 0 .. capacity /\ write_idx' \in Slots
      <3>1. size - 1 \in 0 .. capacity
        BY <1>0, <2>2
      <3> QED BY <1>0, <1>2, <2>1, <2>2, <3>1
    <2>4. read_idx' \in Slots /\ write_idx' = After(read_idx', size')
      BY <1>0, <2>2 DEF After, Slots
    <2> QED BY <2>3, <2>4 DEF RingTypeOK
  <1>6. ASSUME NEW drop \in FREES, kbuffer_ring_free(drop)
        PROVE  RingTypeOK' /\ write_idx' = After(read_idx', size')
    <2> DEFINE to_free == IF drop > size THEN size ELSE drop
    <2>1. drop \in Nat /\ to_free \in 0 .. size /\ to_free \in 0 .. capacity
      BY <1>0, RingAssumption
    <2>2. /\ read_idx' = (read_idx + to_free) % capacity /\ size' = size - to_free
          /\ answer' = to_free /\ UNCHANGED <<buffer, write_idx>>
      BY <1>6 DEF kbuffer_ring_free
    <2> HIDE DEF to_free
    <2>3. read_idx' = After(read_idx, to_free) /\ read_idx' \in Slots
      BY <1>0, <2>1, <2>2, AfterIsWrap
    <2> QED BY <1>0, <1>2, <2>1, <2>2, <2>3 DEF RingTypeOK, After, Slots
  <1>7. CASE kbuffer_ring_reset
    BY <1>0, <1>2, <1>7 DEF kbuffer_ring_reset, RingTypeOK, After, Slots
  <1> QED BY <1>3, <1>4, <1>5, <1>6, <1>7
          DEF RingNext, kbuffer_ring_write, kbuffer_ring_read

\* The indices and the size agree in every reachable state, for every
\* capacity, so that the ring never stores or returns a byte outside its
\* buffer.
THEOREM RingInvariantHolds == RingSpec => []RingInv
PROOF
  <1> QED BY RingInitial, RingStep, PTL DEF RingSpec

-----------------------------------------------------------------------------
(***************************************************************************)
(* Every step of the ring is the step of the queue of the same name.       *)
(***************************************************************************)
LEMMA ContentsType ==
  ASSUME RingInv
  PROVE  Contents \in Seq(Byte) /\ Len(Contents) = size
PROOF
  <1>1. \A i \in 1 .. size : After(read_idx, i - 1) \in Slots
    <2> TAKE i \in 1 .. size
    <2>1. i - 1 \in 0 .. capacity /\ read_idx \in Slots
      BY IndexFacts
    <2> QED BY <2>1, AfterIsWrap
  <1>2. size \in Nat /\ buffer \in [Slots -> Byte]
    BY IndexFacts DEF RingInv, RingTypeOK
  <1>3. Contents = [i \in 1 .. size |-> buffer[After(read_idx, i - 1)]]
    BY IndexFacts
  <1> QED BY <1>1, <1>2, <1>3

LEMMA StoredRefines ==
  ASSUME RingInv, RingInv', NEW c \in Byte, Stored(c)
  PROVE  Q!Write(c)
PROOF
  <1>0. /\ capacity \in Nat \ {0}
        /\ size \in 0 .. capacity /\ read_idx \in Slots /\ write_idx \in Slots
        /\ write_idx = After(read_idx, size)
        /\ Contents = [i \in 1 .. size |-> buffer[After(read_idx, i - 1)]]
        /\ buffer \in [Slots -> Byte]
    BY IndexFacts DEF RingInv, RingTypeOK
  <1>1. /\ size < capacity /\ size' = size + 1 /\ read_idx' = read_idx /\ answer' = 0
        /\ buffer' = [buffer EXCEPT ![write_idx] = c]
    BY <1>0 DEF Stored
  <1>2. Contents' = [i \in 1 .. (size + 1) |-> buffer'[After(read_idx, i - 1)]]
    <2>1. \A i \in 1 .. (size + 1) : (read_idx + (i - 1)) % capacity = After(read_idx, i - 1)
      <3> TAKE i \in 1 .. (size + 1)
      <3>1. i - 1 \in 0 .. capacity
        BY <1>0, <1>1
      <3> QED BY <1>0, <3>1, AfterIsWrap
    <2> QED BY <1>1, <2>1 DEF Contents
  <1>3. ASSUME NEW i \in 1 .. size
        PROVE  buffer'[After(read_idx, i - 1)] = buffer[After(read_idx, i - 1)]
    <2>1. After(read_idx, i - 1) \in Slots /\ After(read_idx, i - 1) # write_idx
      BY <1>0, <1>1 DEF After, Slots
    <2> QED BY <1>0, <1>1, <2>1
  <1>4. buffer'[After(read_idx, (size + 1) - 1)] = c
    <2>1. (size + 1) - 1 = size
      BY <1>0
    <2> QED BY <1>0, <1>1, <2>1
  <1>5. Contents' = Append(Contents, c)
    <2>1. Contents \in Seq(Byte) /\ Len(Contents) = size
      BY ContentsType
    <2>2. \A i \in 1 .. (size + 1) :
            buffer'[After(read_idx, i - 1)] = IF i = size + 1 THEN c ELSE Contents[i]
      <3> TAKE i \in 1 .. (size + 1)
      <3>1. CASE i = size + 1
        BY <1>4, <3>1
      <3>2. CASE i # size + 1
        <4>1. i \in 1 .. size
          BY <1>0, <3>2
        <4> QED BY <1>0, <1>3, <3>2, <4>1
      <3> QED BY <3>1, <3>2
    <2>3. Append(Contents, c)
            = [i \in 1 .. (size + 1) |-> IF i = size + 1 THEN c ELSE Contents[i]]
      <3> HIDE DEF Contents
      <3> QED BY <1>0, <2>1
    <2> QED BY <1>2, <2>2, <2>3
  <1>6. Len(Contents) # capacity
    BY <1>0, <1>1, ContentsType
  <1> QED BY <1>1, <1>5, <1>6 DEF Q!Write

LEMMA TakenRefines ==
  ASSUME RingInv, RingInv', Taken
  PROVE  Q!Read
PROOF
  <1>0. /\ capacity \in Nat \ {0}
        /\ size \in 0 .. capacity /\ read_idx \in Slots
        /\ (read_idx + 1) % capacity = After(read_idx, 1)
        /\ Contents = [i \in 1 .. size |-> buffer[After(read_idx, i - 1)]]
    BY IndexFacts
  <1>1. /\ size > 0 /\ size' = size - 1 /\ read_idx' = After(read_idx, 1)
        /\ buffer' = buffer /\ answer' = buffer[read_idx] /\ read_idx' \in Slots
    BY <1>0 DEF Taken, RingInv, RingTypeOK
  <1>2. Contents' = [i \in 1 .. (size - 1) |-> buffer[After(read_idx', i - 1)]]
    <2>1. \A i \in 1 .. (size - 1) :
            (read_idx' + (i - 1)) % capacity = After(read_idx', i - 1)
      <3> TAKE i \in 1 .. (size - 1)
      <3>1. i - 1 \in 0 .. capacity
        BY <1>0
      <3> QED BY <1>1, <3>1, AfterIsWrap
    <2> QED BY <1>1, <2>1 DEF Contents
  <1>3. \A i \in 1 .. (size - 1) : After(read_idx', i - 1) = After(read_idx, (i + 1) - 1)
    BY <1>0, <1>1 DEF After, Slots
  <1>4. Contents \in Seq(Byte) /\ Len(Contents) = size
    BY ContentsType
  <1>5. Contents' = [i \in 1 .. (size - 1) |-> Contents[i + 1]]
    <2>1. \A i \in 1 .. (size - 1) : i + 1 \in 1 .. size
      BY <1>0
    <2> QED BY <1>0, <1>2, <1>3, <2>1
  <1>6. Tail(Contents) = [i \in 1 .. (size - 1) |-> Contents[i + 1]]
    <2> HIDE DEF Contents
    <2> QED BY <1>0, <1>1, <1>4
  <1>7. Head(Contents) = buffer[read_idx]
    <2>1. After(read_idx, 1 - 1) = read_idx /\ 1 \in 1 .. size
      BY <1>0, <1>1 DEF After, Slots
    <2>2. Contents[1] = buffer[read_idx]
      BY <1>0, <2>1
    <2> HIDE DEF Contents
    <2> QED BY <1>4, <2>2
  <1>8. Contents # <<>>
    <2> HIDE DEF Contents
    <2> QED BY <1>1, <1>4
  <1> QED BY <1>1, <1>5, <1>6, <1>7, <1>8 DEF Q!Read

LEMMA FreeRefines ==
  ASSUME RingInv, RingInv', NEW drop \in FREES, kbuffer_ring_free(drop)
  PROVE  Q!Drop(drop)
PROOF
  <1> DEFINE to_free == IF drop > size THEN size ELSE drop
  <1>0. /\ capacity \in Nat \ {0}
        /\ size \in 0 .. capacity /\ read_idx \in Slots /\ drop \in Nat
        /\ Contents = [i \in 1 .. size |-> buffer[After(read_idx, i - 1)]]
    BY IndexFacts, RingAssumption
  <1>1. to_free \in 0 .. size /\ to_free \in 0 .. capacity
    BY <1>0
  <1>2. /\ read_idx' = (read_idx + to_free) % capacity /\ size' = size - to_free
        /\ answer' = to_free /\ buffer' = buffer
    BY DEF kbuffer_ring_free
  <1>3. Contents \in Seq(Byte) /\ Len(Contents) = size
    BY ContentsType
  <1> HIDE DEF to_free
  <1>4. read_idx' = After(read_idx, to_free) /\ read_idx' \in Slots
    BY <1>0, <1>1, <1>2, AfterIsWrap
  <1>5. Contents' = [i \in 1 .. (size - to_free) |-> buffer[After(read_idx', i - 1)]]
    <2>1. \A i \in 1 .. (size - to_free) :
            (read_idx' + (i - 1)) % capacity = After(read_idx', i - 1)
      <3> TAKE i \in 1 .. (size - to_free)
      <3>1. i - 1 \in 0 .. capacity
        BY <1>0, <1>1
      <3> QED BY <1>4, <3>1, AfterIsWrap
    <2> QED BY <1>2, <2>1 DEF Contents
  <1>6. \A i \in 1 .. (size - to_free) :
          After(read_idx', i - 1) = After(read_idx, (to_free + i) - 1)
    BY <1>0, <1>1, <1>4 DEF After, Slots
  <1>7. Contents' = [i \in 1 .. (size - to_free) |-> Contents[to_free + i]]
    <2>1. \A i \in 1 .. (size - to_free) : to_free + i \in 1 .. size
      BY <1>0, <1>1
    <2> QED BY <1>0, <1>5, <1>6, <2>1
  <1>8. SubSeq(Contents, to_free + 1, Len(Contents))
          = [i \in 1 .. (size - to_free) |-> Contents[to_free + i]]
    <2> HIDE DEF Contents
    <2>1. SubSeq(Contents, to_free + 1, size)
            = [i \in 1 .. (size - (to_free + 1) + 1) |-> Contents[i + (to_free + 1) - 1]]
      BY <1>0, <1>1, <1>3
    <2>2. size - (to_free + 1) + 1 = size - to_free
      BY <1>0, <1>1
    <2>3. \A i \in 1 .. (size - to_free) : i + (to_free + 1) - 1 = to_free + i
      BY <1>0, <1>1
    <2> QED BY <1>3, <2>1, <2>2, <2>3
  <1> QED BY <1>2, <1>3, <1>7, <1>8 DEF Q!Drop, to_free

\* The ring implements the bounded queue, for every capacity: nothing is
\* lost, repeated or reordered, and a byte is refused only by a full ring.
THEOREM RingImplementsQueue == RingSpec => RefinesQueue
PROOF
  <1>1. KBUFFER_RING_INIT => Q!Init
    BY RingAssumption DEF KBUFFER_RING_INIT, Q!Init, Contents
  <1>2. ASSUME RingInv, RingInv', [RingNext]_ring
        PROVE  [Q!Next]_(Q!qvars)
    <2>1. ASSUME NEW c \in Byte, Stored(c)
          PROVE  Q!Next
      BY <1>2, <2>1, StoredRefines DEF Q!Next
    <2>2. CASE WriteRefused
      <3>1. Len(Contents) = capacity /\ answer' = -1 /\ Contents' = Contents
        BY <1>2, <2>2, ContentsType DEF WriteRefused, Contents
      <3>2. Byte # {}
        <4>1. buffer[read_idx] \in Byte
          BY <1>2, IndexFacts DEF RingInv, RingTypeOK
        <4> QED BY <4>1
      <3> QED BY <3>1, <3>2 DEF Q!Next, Q!Write, Q!Refused
    <2>3. CASE Taken
      BY <1>2, <2>3, TakenRefines DEF Q!Next
    <2>4. CASE ReadRefused
      <3>1. Contents = <<>> /\ answer' = -1 /\ Contents' = Contents
        BY <2>4 DEF ReadRefused, Contents
      <3> QED BY <3>1 DEF Q!Next, Q!Read, Q!Refused
    <2>5. ASSUME NEW drop \in FREES, kbuffer_ring_free(drop)
          PROVE  Q!Next
      BY <1>2, <2>5, FreeRefines DEF Q!Next
    <2>6. CASE kbuffer_ring_reset
      BY <2>6 DEF kbuffer_ring_reset, Contents, Q!Next, Q!Reset
    <2>7. CASE UNCHANGED ring
      BY <2>7 DEF ring, Contents, Q!qvars
    <2> QED BY <1>2, <2>1, <2>2, <2>3, <2>4, <2>5, <2>6, <2>7
            DEF RingNext, kbuffer_ring_write, kbuffer_ring_read
  <1> QED BY <1>1, <1>2, RingInvariantHolds, PTL DEF RingSpec, RefinesQueue, Q!Spec

-----------------------------------------------------------------------------
(***************************************************************************)
(* The driver.                                                             *)
(***************************************************************************)
\* The bytes that write has put into the ring; the call that runs counts its
\* own when sync_write returns to it.
Accepted ==
  base + (CASE caller # "write" -> 0
            [] caller = "write" /\ pc \in {"tx_fr", "tx_dr"} -> idx + 1
            [] OTHER -> idx)

\* Who is where, and what it has checked on its way.
Control ==
  /\ pc \in {"user", "poll_fr", "poll_dr"} => caller = "none"
  /\ pc = "write" => caller = "write"
  /\ pc \in {"read", "taken"} => caller = "read"
  /\ pc \in {"isr", "eoi"} => caller = "isr"
  /\ pc \in {"tx_fr", "tx_dr"} => caller \in {"write", "isr"}
  /\ pc \in {"rx_fr", "rx_dr"} => caller \in {"read", "isr"}
  /\ caller \in {"none", "isr"} => n = 0
  /\ caller = "write" => base + n <= MAX_OUT
  /\ caller = "write" /\ pc \in {"tx_fr", "tx_dr"} => idx < n
  /\ caller = "read" /\ pc \in {"taken", "rx_fr", "rx_dr"} => idx < n
  /\ Len(dst) = IF caller = "read" THEN idx ELSE 0
  /\ pc = "rx_dr" => rxfifo # <<>> /\ Len(rx) < RING
  /\ pc \in {"tx_dr", "poll_dr"} => Len(txfifo) < DEPTH
  /\ pc \in {"poll_fr", "poll_dr"} => polled < MAX_POLL
  /\ lost \subseteq 1 .. arrived

Sending ==
  /\ InOrder(AllOut)
  /\ Numbered(AllOut) = 1 .. Accepted
  /\ Len(AllOut) = Accepted + polled

IInv == TypeOK /\ Control /\ Sending /\ ReceivedInOrder

\* Why bytes left in the ring have their wake-up, as long as the receive
\* interrupt is not raised.
Waking ==
  /\ txris => Len(txfifo) <= TXLEVEL
  /\ pending => txris \/ Len(txfifo) > TXLEVEL
  /\ tx # <<>> /\ pc \notin {"tx_fr", "tx_dr"} =>
       Len(txfifo) > TXLEVEL \/ pending \/ (pc = "isr" /\ txris)
-----------------------------------------------------------------------------
(***************************************************************************)
(* Sequences: an element that moves from the front of one to the end of    *)
(* the one before it changes nothing in both together.                     *)
(***************************************************************************)
LEMMA ConcatAppend ==
  ASSUME NEW S, NEW s \in Seq(S), NEW t \in Seq(S), NEW c \in S
  PROVE  s \o Append(t, c) = Append(s \o t, c)
PROOF
  <1>1. <<c>> \in Seq(S)
    OBVIOUS
  <1>2. s \o t \in Seq(S)
    BY ConcatProperties
  <1>3. Append(t, c) = t \o <<c>> /\ Append(s \o t, c) = (s \o t) \o <<c>>
    BY <1>2, AppendIsConcat
  <1> QED BY <1>1, <1>3, ConcatAssociative

LEMMA MoveOn ==
  ASSUME NEW S, NEW s \in Seq(S), NEW t \in Seq(S), t # <<>>
  PROVE  Append(s, Head(t)) \o Tail(t) = s \o t
PROOF
  <1> DEFINE h == Head(t)
             r == Tail(t)
  <1>1. h \in S /\ r \in Seq(S) /\ <<h>> \in Seq(S)
    BY HeadTailProperties
  <1>2. <<h>> \o r = t
    <2>1. SubSeq(t, 1, Len(t)) = t /\ r = SubSeq(t, 2, Len(t)) /\ h = t[1]
      BY SubSeqFull, TailIsSubSeq
    <2>2. Len(t) \in Nat \ {0}
      BY EmptySeq
    <2>3. 1 \in 1 .. Len(t) /\ Len(t) \in 1 .. Len(t)
      BY <2>2
    <2>4. SubSeq(t, 1, Len(t)) = <<t[1]>> \o SubSeq(t, 1 + 1, Len(t))
      BY <2>3, SubSeqRecursiveFirst
    <2> QED BY <2>1, <2>4
  <1>3. Append(s, h) = s \o <<h>>
    BY <1>1, AppendIsConcat
  <1> HIDE DEF h, r
  <1>4. (s \o <<h>>) \o r = s \o (<<h>> \o r)
    BY <1>1, ConcatAssociative
  <1> QED BY <1>2, <1>3, <1>4 DEF h, r

LEMMA AtTheEnd ==
  ASSUME NEW s \in Seq(Nat), NEW c \in Nat \ {POLLED}, InOrder(s),
         \A x \in Numbered(s) : x < c
  PROVE  InOrder(Append(s, c)) /\ Numbered(Append(s, c)) = Numbered(s) \cup {c}
PROOF
  <1> DEFINE a == Append(s, c)
             k == Len(s)
  <1>1. /\ a \in Seq(Nat) /\ Len(a) = k + 1 /\ k \in Nat
        /\ \A i \in 1 .. k : a[i] = s[i]
        /\ a[k + 1] = c
    BY AppendProperties
  <1>2. DOMAIN a = 1 .. (k + 1) /\ DOMAIN s = 1 .. k
    BY <1>1
  <1>3. \A i \in 1 .. k : s[i] # POLLED => s[i] \in Numbered(s)
    BY <1>2 DEF Numbered
  <1> HIDE DEF a, k
  <1>4. InOrder(a)
    <2> SUFFICES ASSUME NEW i \in DOMAIN a, NEW j \in DOMAIN a,
                        i < j, a[i] # POLLED, a[j] # POLLED
                 PROVE  a[i] < a[j]
      BY DEF InOrder
    <2>1. i \in 1 .. k /\ a[i] = s[i]
      BY <1>1, <1>2
    <2>2. CASE j = k + 1
      BY <1>1, <1>3, <2>1, <2>2
    <2>3. CASE j # k + 1
      <3>1. j \in 1 .. k /\ a[j] = s[j]
        BY <1>1, <1>2, <2>3
      <3> QED BY <1>2, <2>1, <3>1 DEF InOrder
    <2> QED BY <2>2, <2>3
  <1>5. Numbered(a) = Numbered(s) \cup {c}
    <2>1. ASSUME NEW x \in Numbered(a) PROVE x \in Numbered(s) \cup {c}
      <3>1. PICK i \in 1 .. (k + 1) : x = a[i] /\ x # POLLED
        BY <1>2 DEF Numbered
      <3>2. i = k + 1 \/ i \in 1 .. k
        BY <1>1
      <3> QED BY <1>1, <1>3, <3>1, <3>2
    <2>2. ASSUME NEW x \in Numbered(s) PROVE x \in Numbered(a)
      <3>1. PICK i \in 1 .. k : x = s[i] /\ x # POLLED
        BY <1>2 DEF Numbered
      <3>2. i \in DOMAIN a /\ a[i] = x
        BY <1>1, <1>2, <3>1
      <3> QED BY <3>1, <3>2 DEF Numbered
    <2>3. c \in Numbered(a)
      <3>1. k + 1 \in DOMAIN a
        BY <1>1, <1>2
      <3> QED BY <1>1, <3>1 DEF Numbered
    <2> QED BY <2>1, <2>2, <2>3
  <1> QED BY <1>4, <1>5 DEF a

\* A polled byte does not count, wherever it is put.
LEMMA PolledBetween ==
  ASSUME NEW s \in Seq(Nat), NEW t \in Seq(Nat), InOrder(s \o t)
  PROVE  LET p == Append(s, POLLED) \o t
         IN  InOrder(p) /\ Numbered(p) = Numbered(s \o t) /\ Len(p) = Len(s \o t) + 1
PROOF
  <1> DEFINE z == Append(s, POLLED)
             p == z \o t
             q == s \o t
             k == Len(s)
             l == Len(t)
  <1>1. /\ z \in Seq(Nat) /\ Len(z) = k + 1 /\ k \in Nat /\ l \in Nat
        /\ \A i \in 1 .. k : z[i] = s[i]
        /\ z[k + 1] = POLLED
    BY AppendProperties DEF POLLED
  <1>2. /\ q \in Seq(Nat) /\ Len(q) = k + l
        /\ \A i \in 1 .. (k + l) : q[i] = IF i <= k THEN s[i] ELSE t[i - k]
    BY ConcatProperties
  <1>3. /\ p \in Seq(Nat) /\ Len(p) = k + 1 + l
        /\ \A i \in 1 .. (k + 1 + l) : p[i] = IF i <= k + 1 THEN z[i] ELSE t[i - (k + 1)]
    BY <1>1, ConcatProperties
  <1>4. DOMAIN p = 1 .. (k + 1 + l) /\ DOMAIN q = 1 .. (k + l)
    BY <1>2, <1>3
  <1> DEFINE back(i) == IF i <= k THEN i ELSE i - 1
             forth(i) == IF i <= k THEN i ELSE i + 1
  <1> HIDE DEF z, p, q, k, l
  <1>5. ASSUME NEW i \in DOMAIN p, p[i] # POLLED
        PROVE  i # k + 1 /\ back(i) \in DOMAIN q /\ p[i] = q[back(i)]
    <2>1. i # k + 1
      BY <1>1, <1>3, <1>4, <1>5
    <2>2. CASE i <= k
      <3>1. i \in 1 .. k /\ i \in 1 .. (k + l) /\ i \in 1 .. (k + 1 + l) /\ i <= k + 1
        BY <1>1, <1>4, <2>2
      <3>a. z[i] = s[i]
        BY <1>1, <3>1
      <3>b. p[i] = z[i]
        BY <1>3, <3>1
      <3>c. q[i] = s[i]
        BY <1>2, <2>2, <3>1
      <3>2. p[i] = s[i] /\ q[i] = s[i]
        BY <3>a, <3>b, <3>c
      <3> QED BY <1>4, <2>1, <2>2, <3>1, <3>2
    <2>3. CASE ~(i <= k)
      <3>1. i \in Nat /\ i > k + 1 /\ i <= k + 1 + l
        BY <1>1, <1>4, <2>1, <2>3
      <3>a. i \in 1 .. (k + 1 + l) /\ ~(i <= k + 1)
        BY <1>1, <3>1
      <3>2. p[i] = t[i - (k + 1)]
        BY <1>3, <3>a
      <3>3. i - 1 \in 1 .. (k + l) /\ ~(i - 1 <= k) /\ (i - 1) - k = i - (k + 1)
        BY <1>1, <3>1
      <3>4. q[i - 1] = t[(i - 1) - k]
        BY <1>2, <3>3
      <3> QED BY <1>4, <2>1, <2>3, <3>2, <3>3, <3>4
    <2> QED BY <2>1, <2>2, <2>3
  <1>6. ASSUME NEW i \in DOMAIN q PROVE forth(i) \in DOMAIN p /\ p[forth(i)] = q[i]
    <2>1. CASE i <= k
      <3>1. i \in 1 .. k /\ i \in 1 .. (k + l) /\ i \in 1 .. (k + 1 + l) /\ i <= k + 1
        BY <1>1, <1>4, <2>1
      <3>a. z[i] = s[i]
        BY <1>1, <3>1
      <3>b. p[i] = z[i]
        BY <1>3, <3>1
      <3>c. q[i] = s[i]
        BY <1>2, <2>1, <3>1
      <3>2. p[i] = s[i] /\ q[i] = s[i]
        BY <3>a, <3>b, <3>c
      <3> QED BY <1>4, <2>1, <3>1, <3>2
    <2>2. CASE ~(i <= k)
      <3>1. i \in Nat /\ i > k /\ i <= k + l
        BY <1>1, <1>4, <2>2
      <3>a. i \in 1 .. (k + l) /\ ~(i <= k)
        BY <1>1, <3>1
      <3>2. q[i] = t[i - k]
        BY <1>2, <3>a
      <3>3. i + 1 \in 1 .. (k + 1 + l) /\ ~(i + 1 <= k + 1) /\ (i + 1) - (k + 1) = i - k
        BY <1>1, <3>1
      <3>4. p[i + 1] = t[(i + 1) - (k + 1)]
        BY <1>3, <3>3
      <3> QED BY <1>4, <2>2, <3>2, <3>3, <3>4
    <2> QED BY <2>1, <2>2
  <1>7. InOrder(p)
    <2> SUFFICES ASSUME NEW i \in DOMAIN p, NEW j \in DOMAIN p,
                        i < j, p[i] # POLLED, p[j] # POLLED
                 PROVE  p[i] < p[j]
      BY DEF InOrder
    <2>1. /\ i # k + 1 /\ back(i) \in DOMAIN q /\ p[i] = q[back(i)]
          /\ j # k + 1 /\ back(j) \in DOMAIN q /\ p[j] = q[back(j)]
      BY <1>5
    <2>2. back(i) < back(j)
      BY <1>1, <1>4, <2>1
    <2>3. InOrder(q)
      BY DEF q
    <2> HIDE DEF back
    <2> QED BY <2>1, <2>2, <2>3 DEF InOrder
  <1>8. Numbered(p) = Numbered(q)
    <2> HIDE DEF back, forth
    <2>1. ASSUME NEW x \in Numbered(p) PROVE x \in Numbered(q)
      BY <1>5 DEF Numbered
    <2>2. ASSUME NEW x \in Numbered(q) PROVE x \in Numbered(p)
      BY <1>6 DEF Numbered
    <2> QED BY <2>1, <2>2
  <1> QED BY <1>1, <1>2, <1>3, <1>7, <1>8 DEF p, q, z

-----------------------------------------------------------------------------
(***************************************************************************)
(* The loops return in four places, and change nothing else there.         *)
(***************************************************************************)
Leaves == FifoFull \/ RingEmpty \/ FifoEmpty \/ NoRoom

LEMMA LeavesIs ==
  ASSUME TypeOK, Control, Leaves
  PROVE  /\ pc \in {"tx_fr", "rx_fr"}
         /\ pc = "tx_fr" => tx = <<>> \/ Len(txfifo) = DEPTH
         /\ \/ caller = "write" /\ pc = "tx_fr" /\ pc' = "write" /\ idx' = idx + 1
            \/ caller = "read" /\ pc = "rx_fr" /\ pc' = "taken" /\ idx' = idx
            \/ caller = "isr" /\ pc' \in {"rx_fr", "eoi"} /\ idx' = idx
         /\ UNCHANGED <<rings, device, caller, byte, mis_rx, n, dst, program, wire>>
PROOF
  <1>1. /\ pc \in {"tx_fr", "rx_fr"} /\ Return
        /\ pc = "tx_fr" => tx = <<>> \/ Len(txfifo) = DEPTH
        /\ UNCHANGED <<rings, device, caller, byte, mis_rx, n, dst, program, wire>>
    BY DEF Leaves, FifoFull, RingEmpty, FifoEmpty, NoRoom, TXFF
  <1>2. \/ caller = "write" /\ pc = "tx_fr"
        \/ caller = "read" /\ pc = "rx_fr"
        \/ caller = "isr"
    BY <1>1 DEF Control
  <1>3. CASE caller = "write"
    <2>1. idx' = idx + 1
      BY <1>1, <1>3 DEF Return
    <2>2. pc' = "write"
      BY <1>1, <1>3 DEF Return
    <2> QED BY <1>1, <1>2, <1>3, <2>1, <2>2
  <1>4. CASE caller = "read"
    BY <1>1, <1>2, <1>4 DEF Return
  <1>5. CASE caller = "isr"
    <2>1. pc' = (IF pc = "tx_fr" /\ mis_rx THEN "rx_fr" ELSE "eoi") /\ idx' = idx
      BY <1>1, <1>5 DEF Return
    <2>2. pc' \in {"rx_fr", "eoi"}
      BY <2>1
    <2> QED BY <1>1, <1>5, <2>1, <2>2
  <1> QED BY <1>1, <1>2, <1>3, <1>4, <1>5

-----------------------------------------------------------------------------
(***************************************************************************)
(* The type invariant.                                                     *)
(***************************************************************************)
LEMMA DeviceType ==
  ASSUME TypeOK, Transmit \/ Receive
  PROVE  TypeOK'
PROOF
  <1>1. CASE Transmit
    <2>1. /\ Head(txfifo) \in Out /\ Tail(txfifo) \in Seq(Out)
          /\ Len(Tail(txfifo)) = Len(txfifo) - 1
      BY <1>1, HeadTailProperties DEF TypeOK, Transmit
    <2>2. Append(sent, Head(txfifo)) \in Seq(Out)
      BY <2>1, AppendProperties DEF TypeOK
    <2>3. /\ txfifo' = Tail(txfifo) /\ sent' = Append(sent, Head(txfifo))
          /\ UNCHANGED <<rings, rxfifo, pc, locals, program, arrived, lost>>
      BY <1>1 DEF Transmit
    <2>4. txris' \in BOOLEAN
      BY <1>1 DEF Transmit
    <2>5. pending' \in BOOLEAN
      BY <1>1 DEF Transmit, Edge
    <2>6. Len(txfifo') <= DEPTH
      BY <2>1, <2>3, UartAssumption DEF TypeOK
    <2> QED BY <2>1, <2>2, <2>3, <2>4, <2>5, <2>6
            DEF TypeOK, rings, locals, program
  <1>2. CASE Receive
    <2>1. /\ arrived < MAX_IN /\ arrived' = arrived + 1
          /\ \/ Len(rxfifo) < DEPTH /\ rxfifo' = Append(rxfifo, arrived + 1) /\ lost' = lost
             \/ rxfifo' = rxfifo /\ lost' = lost \cup {arrived + 1}
          /\ UNCHANGED <<rings, txfifo, txris, pc, locals, program, sent>>
      BY <1>2 DEF Receive
    <2>2. pending' \in BOOLEAN
      BY <1>2 DEF Receive, Edge
    <2>3. arrived' \in 0 .. MAX_IN /\ arrived + 1 \in In
      BY <2>1, UartAssumption DEF TypeOK, In
    <2>4. lost' \subseteq In
      BY <2>1, <2>3 DEF TypeOK
    <2>5. /\ Append(rxfifo, arrived + 1) \in Seq(In)
          /\ Len(Append(rxfifo, arrived + 1)) = Len(rxfifo) + 1
      BY <2>3, AppendProperties DEF TypeOK
    <2>6. rxfifo' \in Seq(In) /\ Len(rxfifo') <= DEPTH
      <3>1. rxfifo \in Seq(In) /\ Len(rxfifo) <= DEPTH /\ Len(rxfifo) \in Nat
        BY DEF TypeOK
      <3>2. CASE rxfifo' = rxfifo
        BY <3>1, <3>2
      <3>3. CASE Len(rxfifo) < DEPTH /\ rxfifo' = Append(rxfifo, arrived + 1)
        <4>1. Len(rxfifo') = Len(rxfifo) + 1
          BY <2>5, <3>3
        <4>2. Len(rxfifo') <= DEPTH
          BY <3>1, <3>3, <4>1, UartAssumption
        <4> QED BY <2>5, <3>3, <4>2
      <3> QED BY <2>1, <3>2, <3>3
    <2> QED BY <2>1, <2>2, <2>3, <2>4, <2>6 DEF TypeOK, rings, locals, program
  <1> QED BY <1>1, <1>2

\* Writing to the data register of a FIFO that is not full.
LEMMA WriteDRIs ==
  ASSUME TypeOK, NEW c \in Out, WriteDR(c), Len(txfifo) < DEPTH
  PROVE  /\ txfifo' = Append(txfifo, c)
         /\ txfifo' \in Seq(Out) /\ Len(txfifo') = Len(txfifo) + 1 /\ Len(txfifo') <= DEPTH
         /\ txris' \in BOOLEAN
         /\ rxfifo' = rxfifo /\ pending' = pending
PROOF
  <1>1. txfifo' = Append(txfifo, c) /\ rxfifo' = rxfifo /\ pending' = pending
    BY UartAssumption DEF WriteDR, TXFF, TypeOK
  <1>2. Append(txfifo, c) \in Seq(Out) /\ Len(Append(txfifo, c)) = Len(txfifo) + 1
    BY AppendProperties DEF TypeOK
  <1>3. txris' \in BOOLEAN
    BY DEF WriteDR
  <1> QED BY <1>1, <1>2, <1>3, UartAssumption DEF TypeOK

LEMMA SyncType ==
  ASSUME TypeOK, Control,
         Leaves \/ TakeByte \/ FeedByte \/ ByteReady \/ FetchByte
  PROVE  TypeOK'
PROOF
  <1> USE DEF rings, device, locals, program, wire
  <1>1. CASE Leaves
    <2>1. idx' \in 0 .. n
      <3>1. n \in Nat /\ idx \in 0 .. n
        BY UartAssumption DEF TypeOK
      <3>2. idx' = idx \/ (idx' = idx + 1 /\ caller = "write" /\ pc = "tx_fr")
        BY <1>1, LeavesIs
      <3>3. caller = "write" /\ pc = "tx_fr" => idx < n
        BY DEF Control
      <3> QED BY <3>1, <3>2, <3>3
    <2>2. pc' \in {"write", "taken", "rx_fr", "eoi"}
      BY <1>1, LeavesIs
    <2>3. UNCHANGED <<rings, device, caller, byte, mis_rx, n, dst, program, wire>>
      BY <1>1, LeavesIs
    <2> QED BY <2>1, <2>2, <2>3 DEF TypeOK
  <1>2. CASE TakeByte
    <2>1. /\ Head(tx) \in Out /\ Tail(tx) \in Seq(Out) /\ Len(Tail(tx)) = Len(tx) - 1
      BY <1>2, HeadTailProperties DEF TypeOK, TakeByte
    <2>2. Len(tx') <= RING
      BY <1>2, <2>1, UartAssumption DEF TypeOK, TakeByte
    <2> QED BY <1>2, <2>1, <2>2 DEF TypeOK, TakeByte
  <1>3. CASE FeedByte
    <2>1. /\ txfifo' \in Seq(Out) /\ Len(txfifo') <= DEPTH /\ txris' \in BOOLEAN
          /\ rxfifo' = rxfifo /\ pending' = pending
      BY <1>3, WriteDRIs DEF TypeOK, Control, FeedByte
    <2>2. 0 \in Out
      BY UartAssumption DEF Out
    <2> QED BY <1>3, <2>1, <2>2 DEF TypeOK, FeedByte
  <1>4. CASE ByteReady
    BY <1>4 DEF TypeOK, ByteReady
  <1>5. CASE FetchByte
    <2>1. rxfifo # <<>> /\ Len(rx) < RING
      BY <1>5 DEF Control, FetchByte
    <2>2. /\ Head(rxfifo) \in In /\ Tail(rxfifo) \in Seq(In)
          /\ Len(Tail(rxfifo)) = Len(rxfifo) - 1
      BY <2>1, HeadTailProperties DEF TypeOK
    <2>3. /\ Append(rx, Head(rxfifo)) \in Seq(In)
          /\ Len(Append(rx, Head(rxfifo))) = Len(rx) + 1
      BY <2>2, AppendProperties DEF TypeOK
    <2>4. rx' = Append(rx, Head(rxfifo)) /\ rxfifo' = Tail(rxfifo)
      BY <1>5, <2>1, UartAssumption DEF TypeOK, FetchByte
    <2>5. /\ rx' \in Seq(In) /\ Len(rx') <= RING
          /\ rxfifo' \in Seq(In) /\ Len(rxfifo') <= DEPTH
      BY <2>1, <2>2, <2>3, <2>4, UartAssumption DEF TypeOK
    <2> QED BY <1>5, <2>5 DEF TypeOK, FetchByte
  <1> QED BY <1>1, <1>2, <1>3, <1>4, <1>5

LEMMA HandlerType ==
  ASSUME TypeOK, Control, gicv2_dispatch \/ dev_uart_kdev_isr \/ gicv2_end_isr
  PROVE  TypeOK'
PROOF
  <1> USE DEF rings, device, locals, program, wire
  <1>1. CASE gicv2_dispatch
    BY <1>1 DEF TypeOK, gicv2_dispatch
  <1>2. CASE dev_uart_kdev_isr
    <2>1. mis_rx' \in BOOLEAN
      BY <1>2 DEF dev_uart_kdev_isr, RXRIS
    <2>2. pc' \in {"tx_fr", "rx_fr", "eoi"}
      BY <1>2 DEF dev_uart_kdev_isr
    <2> QED BY <1>2, <2>1, <2>2 DEF TypeOK, dev_uart_kdev_isr
  <1>3. CASE gicv2_end_isr
    BY <1>3 DEF TypeOK, gicv2_end_isr
  <1> QED BY <1>1, <1>2, <1>3

LEMMA CallType ==
  ASSUME TypeOK, Control,
         \/ WriteCall \/ WriteByte \/ WriteReturns
         \/ ReadCall \/ ReadSyncs \/ ReadByte \/ ReadReturns
         \/ PollCall \/ PollWaits \/ PollReady \/ PollByte
  PROVE  TypeOK'
PROOF
  <1> USE DEF rings, device, locals, program, wire
  <1>0. n \in Nat /\ idx \in Nat /\ idx <= n /\ SIZES \subseteq Nat
    BY UartAssumption DEF TypeOK
  <1>1. CASE WriteCall
    <2>1. n' \in SIZES /\ idx' = idx /\ n = 0
      BY <1>1 DEF WriteCall, Control
    <2>2. n' \in SIZES \cup {0} /\ idx' \in 0 .. n'
      BY <1>0, <2>1
    <2> QED BY <1>1, <2>2 DEF TypeOK, WriteCall
  <1>2. CASE WriteByte
    <2>1. base + idx + 1 \in Out
      BY <1>0, <1>2, UartAssumption DEF WriteByte, TypeOK, Control, Out
    <2>2. Append(tx, base + idx + 1) \in Seq(Out)
          /\ Len(Append(tx, base + idx + 1)) = Len(tx) + 1
      BY <2>1, AppendProperties DEF TypeOK
    <2>3. Len(tx') <= RING
      BY <1>2, <2>2, UartAssumption DEF WriteByte, TypeOK
    <2> QED BY <1>2, <2>2, <2>3 DEF TypeOK, WriteByte
  <1>3. CASE WriteReturns
    <2>1. base + idx \in Out
      BY <1>0, <1>3, UartAssumption DEF WriteReturns, TypeOK, Control, Out
    <2>2. idx' \in 0 .. n' /\ n' \in SIZES \cup {0}
      BY <1>3 DEF WriteReturns
    <2> QED BY <1>3, <2>1, <2>2 DEF TypeOK, WriteReturns
  <1>4. CASE ReadCall
    <2>1. n' \in SIZES /\ idx' = idx /\ n = 0
      BY <1>4 DEF ReadCall, Control
    <2>2. n' \in SIZES \cup {0} /\ idx' \in 0 .. n'
      BY <1>0, <2>1
    <2> QED BY <1>4, <2>2 DEF TypeOK, ReadCall
  <1>5. CASE ReadSyncs
    BY <1>5 DEF TypeOK, ReadSyncs
  <1>6. CASE ReadByte
    <2>1. Head(rx) \in In /\ Tail(rx) \in Seq(In) /\ Len(Tail(rx)) = Len(rx) - 1
      BY <1>6, HeadTailProperties DEF TypeOK, ReadByte
    <2>2. Append(dst, Head(rx)) \in Seq(In)
      BY <2>1, AppendProperties DEF TypeOK
    <2>3. Len(rx') <= RING
      BY <1>6, <2>1, UartAssumption DEF TypeOK, ReadByte
    <2>4. idx' \in 0 .. n
      BY <1>0, <1>6 DEF ReadByte, Control
    <2> QED BY <1>6, <2>1, <2>2, <2>3, <2>4 DEF TypeOK, ReadByte
  <1>7. CASE ReadReturns
    <2>1. Len(dst) = idx /\ SubSeq(dst, 1, Len(dst)) = dst
      BY <1>7, SubSeqFull DEF ReadReturns, Control, TypeOK
    <2>2. delivered' = delivered \o dst
      BY <1>7, <2>1 DEF ReadReturns
    <2>3. delivered' \in Seq(In)
      BY <2>2, ConcatProperties DEF TypeOK
    <2>4. idx' \in 0 .. n' /\ n' \in SIZES \cup {0} /\ <<>> \in Seq(In)
      BY <1>7 DEF ReadReturns
    <2> QED BY <1>7, <2>3, <2>4 DEF TypeOK, ReadReturns
  <1>8. CASE PollCall
    BY <1>8 DEF TypeOK, PollCall
  <1>9. CASE PollWaits
    BY <1>9 DEF TypeOK, PollWaits
  <1>10. CASE PollReady
    BY <1>10 DEF TypeOK, PollReady
  <1>11. CASE PollByte
    <2>1. POLLED \in Out
      BY UartAssumption DEF Out, POLLED
    <2>2. /\ txfifo' \in Seq(Out) /\ Len(txfifo') <= DEPTH /\ txris' \in BOOLEAN
          /\ rxfifo' = rxfifo /\ pending' = pending
      BY <1>11, <2>1, WriteDRIs DEF Control, PollByte
    <2>3. polled' \in 0 .. MAX_POLL
      BY <1>11, UartAssumption DEF TypeOK, Control, PollByte
    <2> QED BY <1>11, <2>2, <2>3 DEF TypeOK, PollByte
  <1> QED BY <1>1, <1>2, <1>3, <1>4, <1>5, <1>6, <1>7, <1>8, <1>9, <1>10, <1>11

-----------------------------------------------------------------------------
(***************************************************************************)
(* Control.                                                                *)
(***************************************************************************)
LEMMA DeviceControl ==
  ASSUME TypeOK, Control, Transmit \/ Receive
  PROVE  Control'
PROOF
  <1> USE DEF rings, locals, program
  <1>0. arrived \in Nat
    BY UartAssumption DEF TypeOK
  <1>1. CASE Transmit
    <2>1. /\ UNCHANGED <<rings, rxfifo, pc, locals, program, arrived, lost>>
          /\ txfifo' = Tail(txfifo) /\ txfifo # <<>>
      BY <1>1 DEF Transmit
    <2>2. Len(txfifo') = Len(txfifo) - 1 /\ Len(txfifo) \in Nat
      BY <2>1, HeadTailProperties DEF TypeOK
    <2>3. Len(txfifo) < DEPTH => Len(txfifo') < DEPTH
      BY <2>2, UartAssumption
    <2> QED BY <2>1, <2>3 DEF Control
  <1>2. CASE Receive
    <2>1. /\ UNCHANGED <<rings, txfifo, txris, pc, locals, program, sent>>
          /\ arrived' = arrived + 1 /\ lost' \subseteq lost \cup {arrived + 1}
          /\ rxfifo' \in {rxfifo, Append(rxfifo, arrived + 1)} /\ arrived < MAX_IN
      BY <1>2 DEF Receive
    <2>2. lost \subseteq 1 .. arrived => lost' \subseteq 1 .. arrived'
      BY <1>0, <2>1
    <2>3. arrived + 1 \in In
      BY <1>0, <2>1, UartAssumption DEF In
    <2>4. Append(rxfifo, arrived + 1) # <<>>
      BY <2>3, AppendProperties DEF TypeOK
    <2>5. rxfifo # <<>> => rxfifo' # <<>>
      BY <2>1, <2>4
    <2> QED BY <2>1, <2>2, <2>5 DEF Control
  <1> QED BY <1>1, <1>2

LEMMA SyncControl ==
  ASSUME TypeOK, Control,
         Leaves \/ TakeByte \/ FeedByte \/ ByteReady \/ FetchByte
  PROVE  Control'
PROOF
  <1> USE DEF rings, device, locals, program, wire
  <1>0. n \in Nat /\ idx \in Nat /\ idx <= n
    BY UartAssumption DEF TypeOK
  <1>1. CASE Leaves
    <2>1. UNCHANGED <<rings, device, caller, byte, mis_rx, n, dst, program, wire>>
      BY <1>1, LeavesIs
    <2>2. CASE caller = "write" /\ pc = "tx_fr" /\ pc' = "write" /\ idx' = idx + 1
      BY <1>0, <2>1, <2>2 DEF Control
    <2>3. CASE caller = "read" /\ pc = "rx_fr" /\ pc' = "taken" /\ idx' = idx
      BY <1>0, <2>1, <2>3 DEF Control
    <2>4. CASE caller = "isr" /\ pc' \in {"rx_fr", "eoi"} /\ idx' = idx
      BY <1>0, <2>1, <2>4 DEF Control
    <2> QED BY <1>1, <2>2, <2>3, <2>4, LeavesIs
  <1>2. CASE TakeByte
    <2>1. Len(txfifo) < DEPTH
      BY <1>2, UartAssumption DEF TypeOK, TakeByte, TXFF
    <2> QED BY <1>2, <2>1 DEF Control, TakeByte
  <1>3. CASE FeedByte
    <2>1. rxfifo' = rxfifo
      BY <1>3 DEF FeedByte, WriteDR
    <2> QED BY <1>3, <2>1 DEF Control, FeedByte
  <1>4. CASE ByteReady
    <2>1. rxfifo # <<>> /\ Len(rx) < RING
      BY <1>4, UartAssumption DEF TypeOK, ByteReady, RXFE
    <2> QED BY <1>4, <2>1 DEF Control, ByteReady
  <1>5. CASE FetchByte
    BY <1>5 DEF Control, FetchByte
  <1> QED BY <1>1, <1>2, <1>3, <1>4, <1>5

LEMMA HandlerControl ==
  ASSUME TypeOK, Control, gicv2_dispatch \/ dev_uart_kdev_isr \/ gicv2_end_isr
  PROVE  Control'
PROOF
  <1> USE DEF rings, device, locals, program, wire
  <1>1. CASE gicv2_dispatch
    BY <1>1 DEF Control, gicv2_dispatch
  <1>2. CASE dev_uart_kdev_isr
    <2>1. pc' \in {"tx_fr", "rx_fr", "eoi"}
      BY <1>2 DEF dev_uart_kdev_isr
    <2> QED BY <1>2, <2>1 DEF Control, dev_uart_kdev_isr
  <1>3. CASE gicv2_end_isr
    BY <1>3 DEF Control, gicv2_end_isr
  <1> QED BY <1>1, <1>2, <1>3

LEMMA CallControl ==
  ASSUME TypeOK, Control,
         \/ WriteCall \/ WriteByte \/ WriteReturns
         \/ ReadCall \/ ReadSyncs \/ ReadByte \/ ReadReturns
         \/ PollCall \/ PollWaits \/ PollReady \/ PollByte
  PROVE  Control'
PROOF
  <1> USE DEF rings, device, locals, program, wire
  <1>0. n \in Nat /\ idx \in Nat /\ idx <= n
    BY UartAssumption DEF TypeOK
  <1>1. CASE WriteCall
    <2>1. base + n' <= MAX_OUT
      BY <1>1 DEF WriteCall
    <2> QED BY <1>1, <2>1 DEF Control, WriteCall
  <1>2. CASE WriteByte
    BY <1>2 DEF Control, WriteByte
  <1>3. CASE WriteReturns
    BY <1>3 DEF Control, WriteReturns
  <1>4. CASE ReadCall
    <2>1. idx = 0
      BY <1>0, <1>4 DEF Control, ReadCall
    <2> QED BY <1>4, <2>1 DEF Control, ReadCall
  <1>5. CASE ReadSyncs
    BY <1>5 DEF Control, ReadSyncs
  <1>6. CASE ReadByte
    <2>1. Head(rx) \in In
      BY <1>6, HeadTailProperties DEF TypeOK, ReadByte
    <2>2. Len(dst') = idx' /\ caller = "read"
      BY <1>6, <2>1, AppendProperties DEF TypeOK, Control, ReadByte
    <2> QED BY <1>6, <2>2 DEF Control, ReadByte
  <1>7. CASE ReadReturns
    BY <1>7 DEF Control, ReadReturns
  <1>8. CASE PollCall
    BY <1>8 DEF Control, PollCall
  <1>9. CASE PollWaits
    BY <1>9 DEF Control, PollWaits
  <1>10. CASE PollReady
    <2>1. Len(txfifo) < DEPTH
      BY <1>10, UartAssumption DEF TypeOK, PollReady, TXFF
    <2> QED BY <1>10, <2>1 DEF Control, PollReady
  <1>11. CASE PollByte
    <2>1. rxfifo' = rxfifo
      BY <1>11 DEF PollByte, WriteDR
    <2> QED BY <1>11, <2>1 DEF Control, PollByte
  <1> QED BY <1>1, <1>2, <1>3, <1>4, <1>5, <1>6, <1>7, <1>8, <1>9, <1>10, <1>11

-----------------------------------------------------------------------------
(***************************************************************************)
(* Output.                                                                 *)
(***************************************************************************)
LEMMA SameOut ==
  ASSUME Sending, AllOut' = AllOut, Accepted' = Accepted, polled' = polled
  PROVE  Sending'
  BY DEF Sending, InOrder, Numbered

LEMMA OutUnmoved ==
  ASSUME Sending, UNCHANGED <<sent, txfifo, tx, polled>>, pc # "tx_dr", pc' # "tx_dr",
         Accepted' = Accepted
  PROVE  Sending'
PROOF
  <1>1. AllOut' = AllOut
    BY DEF AllOut, InHand
  <1> QED BY <1>1, SameOut

LEMMA OutTypes ==
  ASSUME TypeOK
  PROVE  /\ sent \in Seq(Out) /\ txfifo \in Seq(Out) /\ tx \in Seq(Out)
         /\ InHand \in Seq(Out) /\ <<>> \in Seq(Out)
         /\ sent \o txfifo \in Seq(Out) /\ (sent \o txfifo) \o InHand \in Seq(Out)
         /\ AllOut \in Seq(Out)
PROOF
  <1>1. /\ sent \in Seq(Out) /\ txfifo \in Seq(Out) /\ tx \in Seq(Out)
        /\ byte \in Out /\ <<>> \in Seq(Out)
    BY DEF TypeOK
  <1>2. InHand \in Seq(Out)
    BY <1>1 DEF InHand
  <1>3. sent \o txfifo \in Seq(Out)
    BY <1>1, ConcatProperties
  <1>4. (sent \o txfifo) \o InHand \in Seq(Out)
    BY <1>2, <1>3, ConcatProperties
  <1>5. AllOut \in Seq(Out)
    BY <1>1, <1>4, ConcatProperties DEF AllOut
  <1> QED BY <1>1, <1>2, <1>3, <1>4, <1>5

\* A byte goes from the ring to the driver, from the driver to the FIFO, and
\* from the FIFO to the wire.
LEMMA TransmitSends ==
  ASSUME TypeOK, Sending, Transmit
  PROVE  Sending'
PROOF
  <1>1. /\ txfifo # <<>> /\ sent' = Append(sent, Head(txfifo)) /\ txfifo' = Tail(txfifo)
        /\ UNCHANGED <<tx, pc, byte, base, idx, caller, polled>>
    BY DEF Transmit, rings, locals, program
  <1>2. sent' \o txfifo' = sent \o txfifo
    BY <1>1, OutTypes, MoveOn
  <1>3. AllOut' = AllOut /\ Accepted' = Accepted
    BY <1>1, <1>2 DEF AllOut, InHand, Accepted
  <1> QED BY <1>1, <1>3, SameOut

LEMMA TakeByteSends ==
  ASSUME TypeOK, Sending, TakeByte
  PROVE  Sending'
PROOF
  <1> DEFINE a == sent \o txfifo
  <1>1. /\ pc = "tx_fr" /\ pc' = "tx_dr" /\ tx # <<>>
        /\ byte' = Head(tx) /\ tx' = Tail(tx)
        /\ UNCHANGED <<sent, txfifo, base, idx, caller, polled>>
    BY DEF TakeByte, device, program, wire
  <1>2. a \in Seq(Out) /\ tx \in Seq(Out) /\ Head(tx) \in Out
    BY <1>1, OutTypes, HeadTailProperties
  <1>3. AllOut = (a \o <<>>) \o tx /\ AllOut' = (a \o <<Head(tx)>>) \o Tail(tx)
    BY <1>1 DEF AllOut, InHand
  <1> HIDE DEF a
  <1>4. a \o <<>> = a /\ a \o <<Head(tx)>> = Append(a, Head(tx))
    BY <1>2, ConcatEmptySeq, AppendIsConcat
  <1>5. AllOut' = AllOut
    BY <1>1, <1>2, <1>3, <1>4, MoveOn
  <1>6. Accepted' = Accepted
    BY <1>1 DEF Accepted
  <1> QED BY <1>1, <1>5, <1>6, SameOut

LEMMA FeedByteSends ==
  ASSUME TypeOK, Control, Sending, FeedByte
  PROVE  Sending'
PROOF
  <1> DEFINE a == sent \o txfifo
  <1>1. /\ pc = "tx_dr" /\ pc' = "tx_fr" /\ WriteDR(byte)
        /\ UNCHANGED <<sent, tx, base, idx, caller, polled>>
    BY DEF FeedByte, rings, program, wire
  <1>2. byte \in Out /\ Len(txfifo) < DEPTH
    BY <1>1 DEF TypeOK, Control
  <1>3. txfifo' = Append(txfifo, byte)
    BY <1>1, <1>2, WriteDRIs
  <1>4. sent' \o txfifo' = Append(a, byte) /\ a \in Seq(Out)
    BY <1>1, <1>2, <1>3, OutTypes, ConcatAppend
  <1>5. AllOut' = ((sent' \o txfifo') \o <<>>) \o tx /\ AllOut = (a \o <<byte>>) \o tx
    BY <1>1 DEF AllOut, InHand
  <1> HIDE DEF a
  <1>6. Append(a, byte) \o <<>> = Append(a, byte) /\ a \o <<byte>> = Append(a, byte)
    BY <1>2, <1>4, AppendProperties, ConcatEmptySeq, AppendIsConcat
  <1>7. AllOut' = AllOut
    BY <1>4, <1>5, <1>6
  <1>8. Accepted' = Accepted
    BY <1>1 DEF Accepted
  <1> QED BY <1>1, <1>7, <1>8, SameOut

\* The byte that write accepts is the next one.
LEMMA WriteByteSends ==
  ASSUME TypeOK, Control, Sending, WriteByte
  PROVE  Sending'
PROOF
  <1> DEFINE c == base + idx + 1
             a == (sent \o txfifo) \o <<>>
  <1>1. /\ pc = "write" /\ pc' = "tx_fr" /\ caller = "write" /\ idx < n
        /\ tx' = Append(tx, c)
        /\ UNCHANGED <<sent, txfifo, base, idx, caller, polled, n>>
    BY DEF WriteByte, Control, device, locals, program, wire
  <1>2. base \in Nat /\ idx \in Nat /\ n \in Nat /\ base + n <= MAX_OUT /\ polled \in Nat
    BY <1>1, UartAssumption DEF TypeOK, Control, Out
  <1>3. c \in Out /\ c \in Nat \ {POLLED}
    BY <1>1, <1>2, UartAssumption DEF Out, POLLED
  <1>4. a \in Seq(Out) /\ tx \in Seq(Out)
    BY OutTypes, ConcatProperties
  <1>5. AllOut = a \o tx /\ AllOut' = a \o Append(tx, c)
    BY <1>1 DEF AllOut, InHand
  <1>6. Accepted = base + idx /\ Accepted' = c
    BY <1>1, <1>2 DEF Accepted
  <1> HIDE DEF a, c
  <1>7. AllOut' = Append(AllOut, c)
    BY <1>3, <1>4, <1>5, ConcatAppend
  <1>8. AllOut \in Seq(Out) /\ Out \subseteq Nat
    BY OutTypes, UartAssumption DEF Out
  <1>9. AllOut \in Seq(Nat)
    BY <1>8, SeqMonotonic
  <1>10. Accepted \in Nat /\ c = Accepted + 1
    BY <1>2, <1>6 DEF c
  <1>11. \A x \in Numbered(AllOut) : x < c
    BY <1>10 DEF Sending
  <1>12. InOrder(AllOut') /\ Numbered(AllOut') = Numbered(AllOut) \cup {c}
    BY <1>3, <1>7, <1>9, <1>11, AtTheEnd DEF Sending
  <1>13. Numbered(AllOut') = 1 .. Accepted'
    BY <1>6, <1>10, <1>12 DEF Sending
  <1>14. Len(AllOut') = Accepted' + polled'
    <2>1. Len(AllOut') = Len(AllOut) + 1
      BY <1>3, <1>7, <1>9, AppendProperties
    <2> QED BY <1>1, <1>2, <1>6, <1>10, <2>1 DEF Sending
  <1>15. (InOrder(AllOut))' /\ (Numbered(AllOut))' = 1 .. Accepted'
    BY <1>12, <1>13 DEF InOrder, Numbered
  <1> QED BY <1>14, <1>15 DEF Sending

\* A polled byte comes between those in the FIFO and those in the ring.
LEMMA PollByteSends ==
  ASSUME TypeOK, Control, Sending, PollByte
  PROVE  Sending'
PROOF
  <1> DEFINE a == sent \o txfifo
  <1>1. /\ pc = "poll_dr" /\ pc' = "user" /\ WriteDR(POLLED) /\ polled' = polled + 1
        /\ UNCHANGED <<sent, tx, base, idx, caller>>
    BY DEF PollByte, rings, locals, wire
  <1>2. POLLED \in Out /\ Len(txfifo) < DEPTH
    BY <1>1, UartAssumption DEF Control, Out, POLLED
  <1>3. txfifo' = Append(txfifo, POLLED)
    BY <1>1, <1>2, WriteDRIs
  <1>4. sent' \o txfifo' = Append(a, POLLED) /\ a \in Seq(Out) /\ tx \in Seq(Out)
    BY <1>1, <1>2, <1>3, OutTypes, ConcatAppend
  <1>5. AllOut' = ((sent' \o txfifo') \o <<>>) \o tx /\ AllOut = (a \o <<>>) \o tx
    BY <1>1 DEF AllOut, InHand
  <1> HIDE DEF a
  <1>6. Append(a, POLLED) \o <<>> = Append(a, POLLED) /\ a \o <<>> = a
    BY <1>2, <1>4, AppendProperties, ConcatEmptySeq
  <1>7. AllOut' = Append(a, POLLED) \o tx /\ AllOut = a \o tx
    BY <1>4, <1>5, <1>6
  <1>8. a \in Seq(Nat) /\ tx \in Seq(Nat)
    <2>1. Out \subseteq Nat
      BY UartAssumption DEF Out
    <2> QED BY <1>4, <2>1, SeqMonotonic
  <1>9. InOrder(a \o tx)
    BY <1>7 DEF Sending
  <1>10. /\ InOrder(AllOut') /\ Numbered(AllOut') = Numbered(AllOut)
         /\ Len(AllOut') = Len(AllOut) + 1
    BY <1>7, <1>8, <1>9, PolledBetween
  <1>11. Accepted' = Accepted /\ Accepted \in Nat /\ polled \in Nat
    <2>1. caller = "none" /\ caller' = "none" /\ base \in Nat /\ polled \in Nat
      BY <1>1, UartAssumption DEF TypeOK, Control, Out
    <2>2. Accepted = base + 0 /\ Accepted' = base + 0
      BY <1>1, <2>1 DEF Accepted
    <2> QED BY <2>1, <2>2
  <1>12. Len(AllOut') = Accepted' + polled'
    BY <1>1, <1>10, <1>11 DEF Sending
  <1>13. (InOrder(AllOut))' /\ (Numbered(AllOut))' = 1 .. Accepted'
    BY <1>10, <1>11 DEF Sending, InOrder, Numbered
  <1> QED BY <1>12, <1>13 DEF Sending

LEMMA OtherSends ==
  ASSUME TypeOK, Control, Sending,
         \/ Receive \/ Leaves \/ ByteReady \/ FetchByte
         \/ gicv2_dispatch \/ dev_uart_kdev_isr \/ gicv2_end_isr
         \/ WriteCall \/ WriteReturns
         \/ ReadCall \/ ReadSyncs \/ ReadByte \/ ReadReturns
         \/ PollCall \/ PollWaits \/ PollReady
  PROVE  Sending'
PROOF
  <1> USE DEF rings, device, locals, program, wire
  <1>0. n \in Nat /\ idx \in Nat /\ idx <= n /\ base \in Nat
    BY UartAssumption DEF TypeOK, Out
  <1>1. CASE Receive
    <2>1. AllOut' = AllOut /\ Accepted' = Accepted /\ polled' = polled
      BY <1>1 DEF Receive, AllOut, InHand, Accepted
    <2> QED BY <2>1, SameOut
  <1>2. CASE Leaves
    <2>1. /\ UNCHANGED <<rings, device, caller, byte, mis_rx, n, dst, program, wire>>
          /\ pc # "tx_dr" /\ pc' # "tx_dr"
      BY <1>2, LeavesIs
    <2>2. Accepted' = Accepted
      <3>1. \/ caller = "write" /\ pc = "tx_fr" /\ pc' = "write" /\ idx' = idx + 1
            \/ caller \in {"read", "isr"}
        BY <1>2, LeavesIs
      <3> QED BY <2>1, <3>1 DEF Accepted
    <2> QED BY <2>1, <2>2, OutUnmoved
  <1>3. CASE ByteReady \/ FetchByte
    <2>1. caller # "write"
      BY <1>3 DEF ByteReady, FetchByte, Control
    <2>2. Accepted' = Accepted
      BY <1>3, <2>1 DEF ByteReady, FetchByte, Accepted
    <2> QED BY <1>3, <2>2, OutUnmoved DEF ByteReady, FetchByte
  <1>4. CASE gicv2_dispatch
    <2>1. caller = "none"
      BY <1>4 DEF gicv2_dispatch, Control
    <2>2. Accepted' = Accepted
      BY <1>4, <2>1 DEF gicv2_dispatch, Accepted
    <2> QED BY <1>4, <2>2, OutUnmoved DEF gicv2_dispatch
  <1>5. CASE dev_uart_kdev_isr
    <2>1. caller = "isr" /\ pc' # "tx_dr"
      BY <1>5 DEF dev_uart_kdev_isr, Control
    <2>2. Accepted' = Accepted
      BY <1>5, <2>1 DEF dev_uart_kdev_isr, Accepted
    <2> QED BY <1>5, <2>1, <2>2, OutUnmoved DEF dev_uart_kdev_isr
  <1>6. CASE gicv2_end_isr
    <2>1. caller = "isr"
      BY <1>6 DEF gicv2_end_isr, Control
    <2>2. Accepted' = Accepted
      BY <1>6, <2>1 DEF gicv2_end_isr, Accepted
    <2> QED BY <1>6, <2>2, OutUnmoved DEF gicv2_end_isr
  <1>7. CASE WriteCall
    <2>1. caller = "none" /\ idx = 0
      BY <1>0, <1>7 DEF WriteCall, Control
    <2>2. Accepted' = Accepted
      BY <1>7, <2>1 DEF WriteCall, Accepted
    <2> QED BY <1>7, <2>2, OutUnmoved DEF WriteCall
  <1>8. CASE WriteReturns
    <2>1. caller = "write" /\ pc = "write"
      BY <1>8 DEF WriteReturns, Control
    <2>2. Accepted' = Accepted
      BY <1>0, <1>8, <2>1 DEF WriteReturns, Accepted
    <2> QED BY <1>8, <2>2, OutUnmoved DEF WriteReturns
  <1>9. CASE ReadCall
    <2>1. caller = "none"
      BY <1>9 DEF ReadCall, Control
    <2>2. Accepted' = Accepted
      BY <1>9, <2>1 DEF ReadCall, Accepted
    <2> QED BY <1>9, <2>2, OutUnmoved DEF ReadCall
  <1>10. CASE ReadSyncs \/ ReadByte \/ ReadReturns
    <2>1. caller = "read"
      BY <1>10 DEF ReadSyncs, ReadByte, ReadReturns, Control
    <2>2. Accepted' = Accepted
      BY <1>10, <2>1 DEF ReadSyncs, ReadByte, ReadReturns, Accepted
    <2> QED BY <1>10, <2>2, OutUnmoved DEF ReadSyncs, ReadByte, ReadReturns
  <1>11. CASE PollCall \/ PollWaits \/ PollReady
    <2>1. caller = "none"
      BY <1>11 DEF PollCall, PollWaits, PollReady, Control
    <2>2. Accepted' = Accepted
      BY <1>11, <2>1 DEF PollCall, PollWaits, PollReady, Accepted
    <2> QED BY <1>11, <2>2, OutUnmoved DEF PollCall, PollWaits, PollReady
  <1> QED BY <1>1, <1>2, <1>3, <1>4, <1>5, <1>6, <1>7, <1>8, <1>9, <1>10, <1>11

-----------------------------------------------------------------------------
(***************************************************************************)
(* Input.                                                                  *)
(***************************************************************************)
LEMMA SameIn ==
  ASSUME ReceivedInOrder, AllIn' = AllIn, arrived' = arrived, lost' = lost
  PROVE  ReceivedInOrder'
  BY DEF ReceivedInOrder, InOrder, Numbered

LEMMA InTypes ==
  ASSUME TypeOK
  PROVE  /\ delivered \in Seq(In) /\ dst \in Seq(In) /\ rx \in Seq(In) /\ rxfifo \in Seq(In)
         /\ delivered \o dst \in Seq(In) /\ (delivered \o dst) \o rx \in Seq(In)
         /\ AllIn \in Seq(In)
PROOF
  <1>1. delivered \in Seq(In) /\ dst \in Seq(In) /\ rx \in Seq(In) /\ rxfifo \in Seq(In)
    BY DEF TypeOK
  <1>2. delivered \o dst \in Seq(In)
    BY <1>1, ConcatProperties
  <1>3. (delivered \o dst) \o rx \in Seq(In)
    BY <1>1, <1>2, ConcatProperties
  <1>4. AllIn \in Seq(In)
    BY <1>1, <1>3, ConcatProperties DEF AllIn
  <1> QED BY <1>1, <1>2, <1>3, <1>4

\* A byte that the device has room for is the latest one.
LEMMA ReceiveReceives ==
  ASSUME TypeOK, Control, ReceivedInOrder, Receive
  PROVE  ReceivedInOrder'
PROOF
  <1> DEFINE c == arrived + 1
             b == (delivered \o dst) \o rx
  <1>1. /\ arrived < MAX_IN /\ arrived' = c
        /\ \/ rxfifo' = Append(rxfifo, c) /\ lost' = lost
           \/ rxfifo' = rxfifo /\ lost' = lost \cup {c}
        /\ UNCHANGED <<delivered, dst, rx>>
    BY DEF Receive, rings, locals, program
  <1>2. arrived \in Nat /\ c \in In /\ c \in Nat \ {POLLED} /\ In \subseteq Nat
    BY <1>1, UartAssumption DEF TypeOK, In, POLLED
  <1>3. lost \subseteq 1 .. arrived
    BY DEF Control
  <1>4. /\ AllIn = b \o rxfifo /\ AllIn' = b \o rxfifo'
        /\ b \in Seq(In) /\ rxfifo \in Seq(In) /\ AllIn \in Seq(In)
    BY <1>1, InTypes DEF AllIn
  <1>5. InOrder(AllIn) /\ Numbered(AllIn) = (1 .. arrived) \ lost
    BY DEF ReceivedInOrder
  <1> HIDE DEF b
  <1>6. CASE rxfifo' = Append(rxfifo, c) /\ lost' = lost
    <2>1. AllIn' = Append(AllIn, c)
      BY <1>2, <1>4, <1>6, ConcatAppend
    <2>2. AllIn \in Seq(Nat)
      BY <1>2, <1>4, SeqMonotonic
    <2>3. \A x \in Numbered(AllIn) : x < c
      BY <1>2, <1>5
    <2> HIDE DEF c
    <2>4. InOrder(AllIn') /\ Numbered(AllIn') = Numbered(AllIn) \cup {c}
      BY <1>2, <1>5, <2>1, <2>2, <2>3, AtTheEnd
    <2>5. ((1 .. arrived) \ lost) \cup {c} = (1 .. c) \ lost
      BY <1>2, <1>3 DEF c
    <2>6. (InOrder(AllIn))' /\ (Numbered(AllIn))' = (1 .. arrived') \ lost'
      BY <1>1, <1>5, <1>6, <2>4, <2>5 DEF InOrder, Numbered
    <2> QED BY <2>6 DEF ReceivedInOrder
  <1>7. CASE rxfifo' = rxfifo /\ lost' = lost \cup {c}
    <2>1. AllIn' = AllIn
      BY <1>4, <1>7
    <2>2. (1 .. arrived) \ lost = (1 .. arrived') \ lost'
      BY <1>1, <1>2, <1>7
    <2>3. (InOrder(AllIn))' /\ (Numbered(AllIn))' = (1 .. arrived') \ lost'
      BY <1>5, <2>1, <2>2 DEF InOrder, Numbered
    <2> QED BY <2>3 DEF ReceivedInOrder
  <1> QED BY <1>1, <1>6, <1>7

\* A byte goes from the FIFO to the ring, from the ring to the buffer of the
\* call, and with the others of the call to the program.
LEMMA FetchByteReceives ==
  ASSUME TypeOK, Control, ReceivedInOrder, FetchByte
  PROVE  ReceivedInOrder'
PROOF
  <1> DEFINE b == delivered \o dst
  <1>1. /\ rxfifo # <<>> /\ Len(rx) # RING
        /\ UNCHANGED <<delivered, dst, arrived, lost>>
    BY UartAssumption DEF FetchByte, Control, TypeOK, locals, program, wire
  <1>2. rx' = Append(rx, Head(rxfifo)) /\ rxfifo' = Tail(rxfifo)
    BY <1>1 DEF FetchByte
  <1>3. /\ AllIn = (b \o rx) \o rxfifo
        /\ AllIn' = (b \o Append(rx, Head(rxfifo))) \o Tail(rxfifo)
        /\ b \in Seq(In) /\ rx \in Seq(In) /\ rxfifo \in Seq(In)
    BY <1>1, <1>2, InTypes DEF AllIn
  <1> HIDE DEF b
  <1>4. Head(rxfifo) \in In /\ b \o rx \in Seq(In)
    BY <1>1, <1>3, HeadTailProperties, ConcatProperties
  <1>5. b \o Append(rx, Head(rxfifo)) = Append(b \o rx, Head(rxfifo))
    BY <1>3, <1>4, ConcatAppend
  <1>6. AllIn' = AllIn
    BY <1>1, <1>3, <1>4, <1>5, MoveOn
  <1> QED BY <1>1, <1>6, SameIn

LEMMA ReadByteReceives ==
  ASSUME TypeOK, ReceivedInOrder, ReadByte
  PROVE  ReceivedInOrder'
PROOF
  <1>1. /\ rx # <<>> /\ dst' = Append(dst, Head(rx)) /\ rx' = Tail(rx)
        /\ UNCHANGED <<delivered, rxfifo, arrived, lost>>
    BY DEF ReadByte, device, program, wire
  <1>2. delivered \in Seq(In) /\ dst \in Seq(In) /\ rx \in Seq(In)
    BY InTypes
  <1>3. Head(rx) \in In /\ delivered \o dst \in Seq(In)
    BY <1>1, <1>2, HeadTailProperties, ConcatProperties
  <1>4. delivered \o Append(dst, Head(rx)) = Append(delivered \o dst, Head(rx))
    BY <1>2, <1>3, ConcatAppend
  <1>5. Append(delivered \o dst, Head(rx)) \o Tail(rx) = (delivered \o dst) \o rx
    BY <1>1, <1>2, <1>3, MoveOn
  <1>6. AllIn' = AllIn
    BY <1>1, <1>4, <1>5 DEF AllIn
  <1> QED BY <1>1, <1>6, SameIn

LEMMA ReadReturnsReceives ==
  ASSUME TypeOK, Control, ReceivedInOrder, ReadReturns
  PROVE  ReceivedInOrder'
PROOF
  <1>1. /\ delivered' = delivered \o SubSeq(dst, 1, idx) /\ dst' = <<>>
        /\ UNCHANGED <<rx, rxfifo, arrived, lost>>
    BY DEF ReadReturns, rings, device, wire
  <1>2. Len(dst) = idx /\ dst \in Seq(In)
    BY DEF ReadReturns, Control, TypeOK
  <1>3. delivered' = delivered \o dst
    BY <1>1, <1>2, SubSeqFull
  <1>4. delivered \o dst \in Seq(In)
    BY InTypes
  <1>5. delivered' \o dst' = delivered \o dst
    BY <1>1, <1>3, <1>4, ConcatEmptySeq
  <1>6. AllIn' = AllIn
    BY <1>1, <1>5 DEF AllIn
  <1> QED BY <1>1, <1>6, SameIn

LEMMA OtherReceives ==
  ASSUME TypeOK, Control, ReceivedInOrder,
         \/ Transmit \/ Leaves \/ TakeByte \/ FeedByte \/ ByteReady
         \/ gicv2_dispatch \/ dev_uart_kdev_isr \/ gicv2_end_isr
         \/ WriteCall \/ WriteByte \/ WriteReturns \/ ReadCall \/ ReadSyncs
         \/ PollCall \/ PollWaits \/ PollReady \/ PollByte
  PROVE  ReceivedInOrder'
PROOF
  <1>1. UNCHANGED <<delivered, dst, rx, rxfifo, arrived, lost>>
    <2>1. CASE Leaves
      BY <2>1, LeavesIs DEF rings, device, program, wire
    <2>2. CASE Transmit \/ TakeByte \/ FeedByte \/ ByteReady
      BY <2>2 DEF Transmit, TakeByte, FeedByte, ByteReady, WriteDR,
                  rings, device, locals, program, wire
    <2>3. CASE gicv2_dispatch \/ dev_uart_kdev_isr \/ gicv2_end_isr
      BY <2>3 DEF gicv2_dispatch, dev_uart_kdev_isr, gicv2_end_isr,
                  rings, device, program, wire
    <2>4. CASE WriteCall \/ WriteByte \/ WriteReturns \/ ReadCall \/ ReadSyncs
      BY <2>4 DEF WriteCall, WriteByte, WriteReturns, ReadCall, ReadSyncs,
                  rings, device, locals, program, wire
    <2>5. CASE PollCall \/ PollWaits \/ PollReady \/ PollByte
      BY <2>5 DEF PollCall, PollWaits, PollReady, PollByte, WriteDR,
                  rings, device, locals, program, wire
    <2> QED BY <2>1, <2>2, <2>3, <2>4, <2>5
  <1>2. AllIn' = AllIn
    BY <1>1 DEF AllIn
  <1> QED BY <1>1, <1>2, SameIn

-----------------------------------------------------------------------------
(***************************************************************************)
(* The inductive invariant and the theorems.                               *)
(***************************************************************************)
LEMMA InitIInv == Init => IInv
PROOF
  <1> SUFFICES ASSUME Init PROVE IInv
    OBVIOUS
  <1>1. 0 \in Out /\ <<>> \in Seq(Out) /\ <<>> \in Seq(In)
    BY UartAssumption DEF Out
  <1>2. TypeOK
    <2>1. /\ Len(<<>>) = 0 /\ 0 <= RING /\ 0 <= DEPTH /\ 0 \in 0 .. 0
          /\ 0 \in 0 .. MAX_POLL /\ 0 \in 0 .. MAX_IN
      BY UartAssumption
    <2> QED BY <1>1, <2>1 DEF Init, TypeOK
  <1>3. Control
    BY DEF Init, Control
  <1>4. <<>> \o <<>> = <<>>
    BY <1>1, ConcatEmptySeq
  <1>5. AllOut = <<>> /\ AllIn = <<>>
    BY <1>4 DEF Init, AllOut, AllIn, InHand
  <1>6. InOrder(<<>>) /\ Numbered(<<>>) = {} /\ Len(<<>>) = 0
    BY DEF InOrder, Numbered
  <1>7. Accepted = 0
    BY DEF Init, Accepted
  <1>8. Sending
    BY <1>5, <1>6, <1>7 DEF Sending, Init
  <1>9. ReceivedInOrder
    BY <1>5, <1>6 DEF ReceivedInOrder, Init
  <1> QED BY <1>2, <1>3, <1>8, <1>9 DEF IInv

LEMMA NextIInv == IInv /\ [Next]_vars => IInv'
PROOF
  <1> SUFFICES ASSUME IInv, [Next]_vars PROVE IInv'
    OBVIOUS
  <1> USE DEF IInv
  <1>1. CASE Transmit \/ Receive
    BY <1>1, DeviceType, DeviceControl, TransmitSends, OtherSends,
       ReceiveReceives, OtherReceives
  <1>2. CASE Leaves \/ TakeByte \/ FeedByte \/ ByteReady \/ FetchByte
    BY <1>2, SyncType, SyncControl, TakeByteSends, FeedByteSends, OtherSends,
       FetchByteReceives, OtherReceives
  <1>3. CASE gicv2_dispatch \/ dev_uart_kdev_isr \/ gicv2_end_isr
    BY <1>3, HandlerType, HandlerControl, OtherSends, OtherReceives
  <1>4. CASE WriteCall \/ WriteByte \/ WriteReturns
    BY <1>4, CallType, CallControl, WriteByteSends, OtherSends, OtherReceives
  <1>5. CASE ReadCall \/ ReadSyncs \/ ReadByte \/ ReadReturns
    BY <1>5, CallType, CallControl, OtherSends, ReadByteReceives,
       ReadReturnsReceives, OtherReceives
  <1>6. CASE PollCall \/ PollWaits \/ PollReady \/ PollByte
    BY <1>6, CallType, CallControl, PollByteSends, OtherSends, OtherReceives
  <1>7. CASE UNCHANGED vars
    <2>1. TypeOK'
      BY <1>7 DEF TypeOK, vars, rings, device, locals, program, wire
    <2>2. Control'
      BY <1>7 DEF Control, vars, rings, device, locals, program, wire
    <2>3. Sending'
      BY <1>7, SameOut DEF AllOut, InHand, Accepted,
                           vars, rings, device, locals, program, wire
    <2>4. ReceivedInOrder'
      BY <1>7, SameIn DEF AllIn, vars, rings, device, locals, program, wire
    <2> QED BY <2>1, <2>2, <2>3, <2>4
  <1> QED BY <1>1, <1>2, <1>3, <1>4, <1>5, <1>6, <1>7
          DEF Next, KernelStep, Leaves, dev_uart_sync_write, dev_uart_sync_read,
              dev_uart_kdev_write, dev_uart_kdev_read, dev_uart_kdev_pool_out

LEMMA IInvAlways == Spec => []IInv
PROOF
  <1> QED BY InitIInv, NextIInv, PTL DEF Spec

\* Rings and FIFOs stay within their sizes, and no call counts more bytes
\* than it was asked for.
THEOREM TypesHold == Spec => []TypeOK
PROOF
  <1>1. IInv => TypeOK
    BY DEF IInv
  <1> QED BY <1>1, IInvAlways, PTL

\* Every byte that write accepts goes out once and in order, whatever the
\* handler, the device and the polled bytes do between its steps, and the
\* count that write returns is exact.
THEOREM SentInOrderHolds == Spec => []SentInOrder
PROOF
  <1>1. IInv => SentInOrder
    <2> SUFFICES ASSUME IInv PROVE SentInOrder
      OBVIOUS
    <2>1. /\ n \in Nat /\ idx \in Nat /\ idx <= n /\ base \in 0 .. MAX_OUT
          /\ MAX_OUT \in Nat
      BY UartAssumption DEF IInv, TypeOK, Out
    <2>2. Accepted \in Out
      <3>1. CASE caller # "write"
        BY <2>1, <3>1 DEF Accepted, Out
      <3>2. CASE caller = "write" /\ pc \in {"tx_fr", "tx_dr"}
        BY <2>1, <3>2 DEF Accepted, Out, IInv, Control
      <3>3. CASE caller = "write" /\ pc \notin {"tx_fr", "tx_dr"}
        BY <2>1, <3>3 DEF Accepted, Out, IInv, Control
      <3> QED BY <3>1, <3>2, <3>3
    <2>3. pc = "user" => Accepted = base
      BY <2>1 DEF Accepted, IInv, Control
    <2> QED BY <2>2, <2>3 DEF SentInOrder, IInv, Sending
  <1> QED BY <1>1, IInvAlways, PTL

\* Every byte that arrives and that the device has room for reaches the
\* program once and in order: the driver drops none for want of room in its
\* ring, and a call returns what it took.
THEOREM ReceivedInOrderHolds == Spec => []ReceivedInOrder
PROOF
  <1>1. IInv => ReceivedInOrder
    BY DEF IInv
  <1> QED BY <1>1, IInvAlways, PTL

-----------------------------------------------------------------------------
(***************************************************************************)
(* The wake-up of the bytes left in the ring.  As long as the receive      *)
(* interrupt is not raised, the line follows the transmit interrupt, so    *)
(* that every fall of the FIFO to its level is an edge.                    *)
(***************************************************************************)
LEMMA TransmitWakes ==
  ASSUME TypeOK, Waking, ~RXRIS, ~RXRIS', Transmit
  PROVE  Waking'
PROOF
  <1> DEFINE k == Len(txfifo)
  <1>1. /\ txfifo' = Tail(txfifo) /\ txfifo # <<>> /\ UNCHANGED <<tx, pc>>
        /\ txris' <=> (txris \/ k = TXLEVEL + 1)
        /\ pending' <=> (pending \/ (~Line /\ Line'))
    BY DEF Transmit, Edge, rings, TypeOK
  <1>2. Len(txfifo') = k - 1 /\ k \in Nat /\ TXLEVEL \in Nat
    BY <1>1, HeadTailProperties, UartAssumption DEF TypeOK
  <1>3. (Line <=> txris) /\ (Line' <=> txris')
    BY DEF Line
  <1>4. /\ txris => k <= TXLEVEL
        /\ pending => txris \/ k > TXLEVEL
        /\ tx # <<>> /\ pc \notin {"tx_fr", "tx_dr"} =>
             k > TXLEVEL \/ pending \/ (pc = "isr" /\ txris)
    BY DEF Waking
  <1> HIDE DEF k
  <1>5. txris' => Len(txfifo') <= TXLEVEL
    BY <1>1, <1>2, <1>4
  <1>6. pending' => txris' \/ Len(txfifo') > TXLEVEL
    BY <1>1, <1>2, <1>3, <1>4
  <1>7. tx' # <<>> /\ pc' \notin {"tx_fr", "tx_dr"} =>
          Len(txfifo') > TXLEVEL \/ pending' \/ (pc' = "isr" /\ txris')
    BY <1>1, <1>2, <1>3, <1>4
  <1> QED BY <1>5, <1>6, <1>7 DEF Waking

\* Whatever fills the FIFO lowers the transmit interrupt once it is above
\* its level.
LEMMA FeedWakes ==
  ASSUME TypeOK, Control, Waking, FeedByte \/ PollByte
  PROVE  Waking'
PROOF
  <1>1. PICK c \in Out : WriteDR(c) /\ Len(txfifo) < DEPTH
    <2>1. byte \in Out /\ POLLED \in Out
      BY UartAssumption DEF TypeOK, Out, POLLED
    <2> QED BY <2>1 DEF FeedByte, PollByte, Control
  <1>2. /\ Len(txfifo') = Len(txfifo) + 1 /\ Len(txfifo) \in Nat /\ TXLEVEL \in Nat
        /\ pending' = pending
    BY <1>1, WriteDRIs, UartAssumption DEF TypeOK
  <1>3. txris' <=> (txris /\ Len(txfifo') <= TXLEVEL)
    BY <1>1 DEF WriteDR, TypeOK
  <1>4. /\ tx' = tx
        /\ pc \in {"tx_dr", "poll_dr"} /\ pc' = IF pc = "tx_dr" THEN "tx_fr" ELSE "user"
    BY DEF FeedByte, PollByte, rings
  <1>5. pending => txris \/ Len(txfifo) > TXLEVEL
    BY DEF Waking
  <1>6. (txris' => Len(txfifo') <= TXLEVEL) /\ (pending' => txris' \/ Len(txfifo') > TXLEVEL)
    BY <1>2, <1>3, <1>5
  <1>7. tx' # <<>> /\ pc' \notin {"tx_fr", "tx_dr"} => Len(txfifo') > TXLEVEL \/ pending'
    BY <1>2, <1>4 DEF Waking
  <1> QED BY <1>6, <1>7 DEF Waking

LEMMA OtherWakes ==
  ASSUME TypeOK, Control, Waking, ~RXRIS, ~RXRIS',
         \/ Receive \/ Leaves \/ TakeByte \/ ByteReady \/ FetchByte
         \/ gicv2_dispatch \/ dev_uart_kdev_isr \/ gicv2_end_isr
         \/ WriteCall \/ WriteByte \/ WriteReturns
         \/ ReadCall \/ ReadSyncs \/ ReadByte \/ ReadReturns
         \/ PollCall \/ PollWaits \/ PollReady
  PROVE  Waking'
PROOF
  <1> USE DEF rings, device, locals, program, wire
  <1>1. CASE Receive
    <2>1. UNCHANGED <<tx, txfifo, txris, pc>> /\ (pending' <=> pending)
      <3>1. UNCHANGED <<tx, txfifo, txris, pc>>
        BY <1>1 DEF Receive
      <3>2. ~(~Line /\ Line')
        BY <3>1 DEF Line
      <3> QED BY <1>1, <3>1, <3>2 DEF Receive, Edge, TypeOK
    <2> QED BY <2>1 DEF Waking
  <1>2. CASE Leaves
    <2>1. /\ UNCHANGED <<tx, txfifo, txris, pending>>
          /\ pc \in {"tx_fr", "rx_fr"}
          /\ pc = "tx_fr" => tx = <<>> \/ Len(txfifo) = DEPTH
      BY <1>2, LeavesIs
    <2>2. TXLEVEL \in Nat /\ DEPTH \in Nat /\ DEPTH > TXLEVEL
      BY UartAssumption
    <2>3. tx # <<>> => Len(txfifo) > TXLEVEL \/ pending
      BY <2>1, <2>2 DEF Waking
    <2> QED BY <2>1, <2>3 DEF Waking
  <1>3. CASE TakeByte
    BY <1>3 DEF Waking, TakeByte
  <1>4. CASE ByteReady \/ FetchByte
    BY <1>4 DEF Waking, ByteReady, FetchByte
  <1>5. CASE gicv2_dispatch
    BY <1>5 DEF Waking, gicv2_dispatch
  <1>6. CASE dev_uart_kdev_isr
    BY <1>6 DEF Waking, dev_uart_kdev_isr
  <1>7. CASE gicv2_end_isr
    BY <1>7 DEF Waking, gicv2_end_isr
  <1>8. CASE WriteCall \/ WriteByte \/ WriteReturns
    BY <1>8 DEF Waking, WriteCall, WriteByte, WriteReturns
  <1>9. CASE ReadCall \/ ReadSyncs \/ ReadByte \/ ReadReturns
    BY <1>9 DEF Waking, ReadCall, ReadSyncs, ReadByte, ReadReturns
  <1>10. CASE PollCall \/ PollWaits \/ PollReady
    BY <1>10 DEF Waking, PollCall, PollWaits, PollReady
  <1> QED BY <1>1, <1>2, <1>3, <1>4, <1>5, <1>6, <1>7, <1>8, <1>9, <1>10

\* Bytes left in the ring have their wake-up whenever a program runs, in
\* every behaviour in which the receive interrupt is never raised.
THEOREM TxWakesHolds == Spec /\ []~RXRIS => []TxWakes
PROOF
  <1>1. Init => Waking
    BY UartAssumption DEF Init, Waking
  <1>2. IInv /\ Waking /\ ~RXRIS /\ ~RXRIS' /\ [Next]_vars => Waking'
    <2> SUFFICES ASSUME IInv, Waking, ~RXRIS, ~RXRIS', [Next]_vars PROVE Waking'
      OBVIOUS
    <2>1. CASE Next
      BY <2>1, TransmitWakes, FeedWakes, OtherWakes
         DEF IInv, Next, KernelStep, Leaves, dev_uart_sync_write, dev_uart_sync_read,
             dev_uart_kdev_write, dev_uart_kdev_read, dev_uart_kdev_pool_out
    <2>2. CASE UNCHANGED vars
      BY <2>2 DEF Waking, vars, rings, device
    <2> QED BY <2>1, <2>2
  <1>3. Waking => TxWakes
    BY DEF Waking, TxWakes
  <1> QED BY <1>1, <1>2, <1>3, IInvAlways, PTL DEF Spec

\* Without input it is never raised: what the run of the output checks.
COROLLARY TxWakesWithoutInput ==
  ASSUME MAX_IN = 0
  PROVE  Spec => []TxWakes
PROOF
  <1>1. TypeOK => ~RXRIS
    <2> SUFFICES ASSUME TypeOK PROVE ~RXRIS
      OBVIOUS
    <2>1. In = {} /\ rxfifo \in Seq(In)
      BY DEF In, TypeOK
    <2>2. rxfifo = <<>>
      BY <2>1, HeadTailProperties
    <2> QED BY <2>2, UartAssumption DEF RXRIS
  <1>2. []TypeOK => []~RXRIS
    BY <1>1, PTL
  <1> QED BY <1>2, TypesHold, TxWakesHolds, PTL

=============================================================================
