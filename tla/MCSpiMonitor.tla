---------------------------- MODULE MCSpiMonitor ----------------------------
(* Values of the constants of SpiMonitor for TLC.                          *)
EXTENDS SpiMonitor

Rg(start, length) == [start |-> start, length |-> length]
Handle(list, rd, wr) == [list |-> list, R |-> rd, W |-> wr, mux |-> 0, extra |-> FALSE]

(* Eight blocks of 4, two in a register: an unaligned region that crosses  *)
(* into a second register; one longer than a register, and the last bytes  *)
(* of the flash; two that are refused, and one that covers registers whole.*)
Crossing == <<Rg(7, 2)>>
Long == <<Rg(9, 12), Rg(30, 2)>>
Refused == <<Rg(6, 0), Rg(30, 4), Rg(5, 23)>>

(* Two slots between the reserved ones: lists that fit, with a command     *)
(* that is not in the array and one listed twice, and one too long.        *)
MCHandles ==
  {Handle(<<"EN4B", "rd", "wr">>, Crossing, Long),
   Handle(<<"rd", "odd", "rd">>, Refused, Crossing),
   Handle(<<"rd", "EX4B">>, <<>>, Refused),
   [Handle(<<"wr", "rd", "er", "WREAR">>, Long, <<>>) EXCEPT !.mux = 1, !.extra = TRUE]}
=============================================================================
