---------------------------- MODULE MCZcEgress ------------------------------
(* Small instances of ZcEgress: slots are numbers, 0 stands for no slot.    *)
EXTENDS ZcEgress

TwoSlots == 1 .. 2
=============================================================================
