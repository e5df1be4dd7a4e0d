-------------------------------- MODULE Ring --------------------------------
(***************************************************************************)
(* The ring buffer of include/kernel/buffer/ring.h, index by index, and    *)
(* that it is the bounded queue of module Queue.  `answer` is the value    *)
(* the last call returned.                                                 *)
(***************************************************************************)
EXTENDS Integers, Sequences

CONSTANTS
  capacity,  \* KBUFFER_RING_INIT(_capacity, _buffer): 4096 for the UART
  Byte,      \* values of a byte
  FREES      \* arguments of kbuffer_ring_free

ASSUME RingAssumption ==
  /\ capacity \in Nat \ {0}
  /\ Byte \subseteq Nat
  /\ FREES \subseteq Nat

VARIABLES buffer, size, read_idx, write_idx, answer

ring == <<buffer, size, read_idx, write_idx, answer>>

Slots == 0 .. (capacity - 1)

RingTypeOK ==
  /\ buffer \in [Slots -> Byte]
  /\ size \in 0 .. capacity
  /\ read_idx \in Slots
  /\ write_idx \in Slots
  /\ answer \in Int

\* The buffer's contents are what the memory held before.
KBUFFER_RING_INIT ==
  /\ buffer \in [Slots -> Byte]
  /\ size = 0
  /\ read_idx = 0
  /\ write_idx = 0
  /\ answer = 0

\* A write that finds the ring full only when one byte more is stored.
WriteLate(c) ==
  /\ size <= capacity
  /\ buffer' = [buffer EXCEPT ![write_idx] = c]
  /\ write_idx' = (write_idx + 1) % capacity
  /\ size' = size + 1
  /\ answer' = 0
  /\ UNCHANGED read_idx

Stored(c) ==
  /\ size # capacity
  /\ buffer' = [buffer EXCEPT ![write_idx] = c]
  /\ write_idx' = (write_idx + 1) % capacity
  /\ size' = size + 1
  /\ answer' = 0
  /\ UNCHANGED read_idx

WriteRefused ==
  /\ size = capacity
  /\ answer' = -1
  /\ UNCHANGED <<buffer, size, read_idx, write_idx>>

kbuffer_ring_write(c) == Stored(c) \/ WriteRefused

Taken ==
  /\ size # 0
  /\ answer' = buffer[read_idx]
  /\ read_idx' = (read_idx + 1) % capacity
  /\ size' = size - 1
  /\ UNCHANGED <<buffer, write_idx>>

ReadRefused ==
  /\ size = 0
  /\ answer' = -1
  /\ UNCHANGED <<buffer, size, read_idx, write_idx>>

kbuffer_ring_read == Taken \/ ReadRefused

\* A free that drops more than there is.
FreeUnbounded(n) ==
  /\ read_idx' = (read_idx + n) % capacity
  /\ size' = IF n > size THEN 0 ELSE size - n
  /\ answer' = IF n > size THEN size ELSE n
  /\ UNCHANGED <<buffer, write_idx>>

kbuffer_ring_free(n) ==
  LET to_free == IF n > size THEN size ELSE n
  IN  /\ read_idx' = (read_idx + to_free) % capacity
      /\ size' = size - to_free
      /\ answer' = to_free
      /\ UNCHANGED <<buffer, write_idx>>

kbuffer_ring_reset ==
  /\ size' = 0
  /\ read_idx' = 0
  /\ write_idx' = 0
  /\ answer' = 0
  /\ UNCHANGED buffer

RingNext ==
  \/ \E c \in Byte : kbuffer_ring_write(c)
  \/ kbuffer_ring_read
  \/ \E n \in FREES : kbuffer_ring_free(n)
  \/ kbuffer_ring_reset

RingSpec == KBUFFER_RING_INIT /\ [][RingNext]_ring

-----------------------------------------------------------------------------
\* The write index is always `size` slots after the read index, although
\* each operation moves the three fields independently.
IndicesAgree == write_idx = (read_idx + size) % capacity

RingInv == RingTypeOK /\ IndicesAgree

\* The bytes in the ring, oldest first.
Contents == [i \in 1 .. size |-> buffer[(read_idx + (i - 1)) % capacity]]

Q == INSTANCE Queue WITH queue <- Contents

\* The ring is a bounded first-in first-out queue: it refuses a byte only
\* when it is full, returns the bytes in the order of their arrival and
\* drops the oldest ones first.
RefinesQueue == Q!Spec
=============================================================================
