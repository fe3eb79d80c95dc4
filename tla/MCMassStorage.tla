---------------------------- MODULE MCMassStorage ----------------------------
(* MassStorage on its own: two packets a sector over UHCI, one over EHCI; no *)
(* transfer reaches BULK_MAX_TDS here.                                       *)
EXTENDS MassStorage

Packets == [uhci |-> 2, ehci |-> 1, none |-> 0]
=============================================================================
