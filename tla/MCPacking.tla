----------------------------- MODULE MCPacking -----------------------------
(* Slices of up to ten coils, two bytes of which the second is not full;   *)
(* the first coil, and those at the ends of the bytes, are stored to while *)
(* they are packed.                                                        *)
EXTENDS Packing
=============================================================================
