-------------------------------- MODULE Bits --------------------------------
(***************************************************************************)
(* Words and bytes as the sets of their bits that are 1, the numbers they  *)
(* stand for, and what pack_bits and unpack_bits are to make of coils.     *)
(***************************************************************************)
EXTENDS Integers, Sequences

BitsOf(n, width) == {i \in 0 .. width - 1 : (n \div 2 ^ i) % 2 = 1}
NumberOf(word) == CHOOSE n \in 0 .. 2 ^ 16 - 1 : BitsOf(n, 16) = word

(* Eight coils to a byte, the first coil in the lowest bit, and the bits   *)
(* that are left over 0.                                                   *)
PackedSize(n) == (n + 7) \div 8
PackedBits(coil, n) ==
    [j \in 1 .. PackedSize(n) |->
        {i \in 0 .. 7 : 8 * (j - 1) + i < n /\ coil[8 * (j - 1) + i + 1] = {0}}]
UnpackedBits(packet) ==
    [k \in 1 .. 8 * Len(packet) |->
        IF (k - 1) % 8 \in packet[(k - 1) \div 8 + 1] THEN {0} ELSE {}]
=============================================================================
