------------------------------ MODULE MCHexCodec ------------------------------
(* Instances of HexCodec for TLC. *)
EXTENDS HexCodec

\* Objects in which every byte takes every value and neighbours differ.
SomeLine(h, b) ==
  [head |-> h,
   info |-> [i \in 1..InfoSize(h) |-> (b + 11 * i) % 256],
   obj  |-> [i \in 1..CanObjSize |-> (b + 37 * i) % 256]]

SomeLines(bytes) == {SomeLine(h, b) : h \in {"VCI_Receive", "VCI_Transmit"}, b \in bytes}

WholeLines == SomeLines(Byte)
TornLines  == SomeLines({170})
==============================================================================
