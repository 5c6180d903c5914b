------------------------------- MODULE Packing -------------------------------
(***************************************************************************)
(* Coils on their way through a packet: op::pack_bits makes bytes of a     *)
(* slice of coils, bit by bit, and op::unpack_bits with the resize of      *)
(* write_multiple_coils::decode makes coils of them again.  The slice a    *)
(* read packs is the live container, read with no lock: other threads      *)
(* store to it while the loop runs.                                        *)
(***************************************************************************)
EXTENDS Bits

CONSTANTS
    MaxCount,       \* bound: the longest slice
    Shared          \* the places of the slice other threads store to

ASSUME PackingAssumption == MaxCount \in Nat /\ Shared \subseteq Nat

VARIABLES
    coil,           \* the coils of the slice
    count,          \* how many they are
    seen,           \* history: the values *ptr had, so far
    packet,         \* the bytes pushed
    shift,          \* the place of the next bit, in packing and unpacking
    one_byte,       \* the byte being packed, the set of its bits
    ptr,            \* the byte being unpacked
    result,         \* the coils unpacked
    stage           \* which of the loops runs

vars == << coil, count, seen, packet, shift, one_byte, ptr, result, stage >>

Coil == {{}, {0}}

Init ==
    /\ count \in 0 .. MaxCount
    /\ coil \in [1 .. count -> Coil]
    /\ seen = << >> /\ packet = << >> /\ shift = 0 /\ one_byte = {}
    /\ ptr = 1 /\ result = << >>
    /\ stage = "pack"

(* Another thread stores to a coil of the slice.                           *)
Flip(k) ==
    /\ k \in Shared \cap 1 .. count
    /\ \E c \in Coil : coil' = [coil EXCEPT ![k] = c]
    /\ UNCHANGED << count, seen, packet, shift, one_byte, ptr, result, stage >>

(* one_byte |= *ptr << shift                                               *)
WithBit(byte, c, place) == IF c = {0} THEN byte \cup {place} ELSE byte

(* A byte of eight bits that is pushed one bit late.                       *)
PackLate ==
    /\ stage = "pack" /\ Len(seen) < count
    /\ LET c == coil[Len(seen) + 1]
           byte == WithBit(one_byte, c, shift)
       IN /\ seen' = Append(seen, c)
          /\ IF shift = 8
             THEN packet' = Append(packet, byte) /\ one_byte' = {} /\ shift' = 0
             ELSE packet' = packet /\ one_byte' = byte /\ shift' = shift + 1
    /\ UNCHANGED << coil, count, ptr, result, stage >>

(* One iteration of the loop of pack_bits.                                 *)
Pack ==
    /\ stage = "pack" /\ Len(seen) < count
    /\ LET c == coil[Len(seen) + 1]
           byte == WithBit(one_byte, c, shift)
       IN /\ seen' = Append(seen, c)
          /\ IF shift = 7
             THEN packet' = Append(packet, byte) /\ one_byte' = {} /\ shift' = 0
             ELSE packet' = packet /\ one_byte' = byte /\ shift' = shift + 1
    /\ UNCHANGED << coil, count, ptr, result, stage >>

(* A last byte that is pushed even when it is empty.                       *)
PackAlwaysLast ==
    /\ stage = "pack" /\ Len(seen) = count
    /\ packet' = Append(packet, one_byte)
    /\ stage' = "unpack" /\ shift' = 0
    /\ UNCHANGED << coil, count, seen, one_byte, ptr, result >>

(* The loop is over: a last byte that is not full is pushed, pack_bits     *)
(* returns, and unpack_bits is given what it made.                         *)
PackLast ==
    /\ stage = "pack" /\ Len(seen) = count
    /\ packet' = IF shift # 0 THEN Append(packet, one_byte) ELSE packet
    /\ stage' = "unpack" /\ shift' = 0
    /\ UNCHANGED << coil, count, seen, one_byte, ptr, result >>

(* A loop that begins with the highest bit.                                *)
UnpackHighFirst ==
    /\ stage = "unpack" /\ ptr <= Len(packet)
    /\ result' = Append(result, IF 7 - shift \in packet[ptr] THEN {0} ELSE {})
    /\ IF shift = 7 THEN ptr' = ptr + 1 /\ shift' = 0
       ELSE ptr' = ptr /\ shift' = shift + 1
    /\ UNCHANGED << coil, count, seen, packet, one_byte, stage >>

(* One iteration of the inner loop of unpack_bits: bit is 1 << shift.      *)
Unpack ==
    /\ stage = "unpack" /\ ptr <= Len(packet)
    /\ result' = Append(result, IF shift \in packet[ptr] THEN {0} ELSE {})
    /\ IF shift = 7 THEN ptr' = ptr + 1 /\ shift' = 0
       ELSE ptr' = ptr /\ shift' = shift + 1
    /\ UNCHANGED << coil, count, seen, packet, one_byte, stage >>

(* The padding of the last byte is not cut off.                            *)
ResizeForgotten ==
    /\ stage = "unpack" /\ ptr > Len(packet)
    /\ stage' = "done"
    /\ UNCHANGED << coil, count, seen, packet, shift, one_byte, ptr, result >>

(* values_.resize(count).                                                  *)
Resize ==
    /\ stage = "unpack" /\ ptr > Len(packet)
    /\ result' = [k \in 1 .. count |-> IF k <= Len(result) THEN result[k] ELSE {}]
    /\ stage' = "done"
    /\ UNCHANGED << coil, count, seen, packet, shift, one_byte, ptr >>

Next ==
    \/ \E k \in Shared : Flip(k)
    \/ Pack \/ PackLast
    \/ Unpack \/ Resize

Spec == Init /\ [][Next]_vars

-----------------------------------------------------------------------------
(* What pack_bits returns: for any number of coils, a multiple of 8 or     *)
(* not, as many bytes as byte_count() announces, the values it read each   *)
(* at its place, each read once though they change meanwhile.              *)
PackedRight ==
    stage \in {"unpack", "done"} => packet = PackedBits(seen, count)

(* What unpack_bits returns: eight coils for every byte, lowest bit first. *)
UnpackedRight ==
    stage = "unpack" /\ ptr > Len(packet) => result = UnpackedBits(packet)

(* The other end gets back exactly the values that were read: no bit of    *)
(* the last byte's padding becomes a coil, and none is missing.            *)
RoundTrip ==
    stage = "done" => result = seen

-----------------------------------------------------------------------------
(* The inductive invariant: how far each loop is, and what it has made.    *)
Typed ==
    /\ count \in Nat
    /\ coil \in [1 .. count -> Coil]
    /\ seen \in Seq(Coil) /\ Len(seen) <= count
    /\ packet \in Seq(SUBSET (0 .. 7))
    /\ shift \in 0 .. 7
    /\ one_byte \in SUBSET (0 .. 7)
    /\ ptr \in Nat \ {0}
    /\ result \in Seq(Coil)
    /\ stage \in {"pack", "unpack", "done"}

(* A byte holds the next eight of some coils after the first n.            *)
PackedByte(coils, n, byte) ==
    \A i \in 0 .. 7 :
        i \in byte <=> n + i < Len(coils) /\ coils[n + i + 1] = {0}

WhilePacking ==
    stage = "pack" =>
        /\ Len(seen) = 8 * Len(packet) + shift
        /\ \A j \in 1 .. Len(packet) : PackedByte(seen, 8 * (j - 1), packet[j])
        /\ PackedByte(seen, 8 * Len(packet), one_byte)
        /\ ptr = 1 /\ result = << >>

OncePacked ==
    stage # "pack" =>
        /\ Len(seen) = count /\ Len(packet) = PackedSize(count)
        /\ \A j \in 1 .. Len(packet) : PackedByte(seen, 8 * (j - 1), packet[j])

WhileUnpacking ==
    stage = "unpack" =>
        /\ ptr <= Len(packet) + 1
        /\ ptr > Len(packet) => shift = 0
        /\ Len(result) = 8 * (ptr - 1) + shift
        /\ \A k \in 1 .. Len(result) :
             result[k] = IF (k - 1) % 8 \in packet[(k - 1) \div 8 + 1]
                         THEN {0} ELSE {}

IInv == Typed /\ WhilePacking /\ OncePacked /\ WhileUnpacking /\ RoundTrip
=============================================================================
