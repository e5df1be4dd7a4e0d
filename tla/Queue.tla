------------------------------- MODULE Queue -------------------------------
(***************************************************************************)
(* What a ring buffer promises: a bounded first-in first-out queue.        *)
(* `answer` is what the last operation returned.                           *)
(***************************************************************************)
EXTENDS Integers, Sequences

CONSTANTS
  capacity,  \* bytes the buffer can hold
  Byte,      \* values of a byte
  FREES      \* numbers of bytes a caller may ask to drop

VARIABLES queue, answer

qvars == <<queue, answer>>

Init == queue = <<>> /\ answer = 0

Refused == queue' = queue /\ answer' = -1

Write(c) ==
  IF Len(queue) = capacity
    THEN Refused
    ELSE queue' = Append(queue, c) /\ answer' = 0

Read ==
  IF queue = <<>>
    THEN Refused
    ELSE queue' = Tail(queue) /\ answer' = Head(queue)

\* Drops the n oldest bytes, or all there are.
Drop(n) ==
  LET dropped == IF n > Len(queue) THEN Len(queue) ELSE n
  IN  /\ queue' = SubSeq(queue, dropped + 1, Len(queue))
      /\ answer' = dropped

Reset == queue' = <<>> /\ answer' = 0

Next ==
  \/ \E c \in Byte : Write(c)
  \/ Read
  \/ \E n \in FREES : Drop(n)
  \/ Reset

Spec == Init /\ [][Next]_qvars
=============================================================================
