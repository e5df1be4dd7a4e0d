---------------------------- MODULE MCInterrupts ----------------------------
(***************************************************************************)
(* Values for the constants of Interrupts: the UART, a device without      *)
(* reading and writing, an empty entry of the table, and a number before   *)
(* its start.                                                              *)
(***************************************************************************)
EXTENDS Interrupts

MCDevs == {2, 0, 3, -1}
=============================================================================
