----------------------------- MODULE MCBusQueue -----------------------------
(* Instances of BusQueue for TLC: one consumer, as each queue of the bus has, *)
(* and more producers than the ring has slots.                                *)
EXTENDS BusQueue
=============================================================================
