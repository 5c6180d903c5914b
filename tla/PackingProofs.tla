---------------------------- MODULE PackingProofs ----------------------------
(***************************************************************************)
(* pack_bits and unpack_bits are right for every number of coils, whatever *)
(* other threads store to the slice meanwhile.                             *)
(***************************************************************************)
EXTENDS Packing, TLAPS

-----------------------------------------------------------------------------
LEMMA OneMore ==
    ASSUME NEW S, NEW s \in Seq(S), NEW e \in S
    PROVE  /\ Append(s, e) \in Seq(S) /\ Len(Append(s, e)) = Len(s) + 1
           /\ Append(s, e)[Len(s) + 1] = e
           /\ \A k \in 1 .. Len(s) : Append(s, e)[k] = s[k]
    OBVIOUS

LEMMA EightToAByte ==
    ASSUME NEW p \in Nat, NEW i \in 0 .. 7
    PROVE  (8 * p + i) % 8 = i /\ (8 * p + i) \div 8 = p
    OBVIOUS

(* Taking one more coil leaves the bytes that are full as they were.       *)
LEMMA FullBytesStay ==
    ASSUME NEW s \in Seq(Coil), NEW n \in Nat, NEW byte, n + 8 <= Len(s),
           NEW c \in Coil, PackedByte(s, n, byte)
    PROVE  PackedByte(Append(s, c), n, byte)
<1>1. ASSUME NEW i \in 0 .. 7
      PROVE  /\ n + i < Len(s) /\ n + i < Len(Append(s, c))
             /\ Append(s, c)[n + i + 1] = s[n + i + 1]
  <2>1. n + i + 1 \in 1 .. Len(s)
    OBVIOUS
  <2>. QED  BY <2>1
<1>. QED  BY <1>1 DEF PackedByte

(* The coil joins the byte being packed, at the next place.                *)
LEMMA BitJoins ==
    ASSUME NEW s \in Seq(Coil), NEW n \in Nat, NEW place \in 0 .. 7,
           NEW byte \in SUBSET (0 .. 7), NEW c \in Coil,
           Len(s) = n + place, PackedByte(s, n, byte)
    PROVE  PackedByte(Append(s, c), n, WithBit(byte, c, place))
<1>. SUFFICES ASSUME NEW i \in 0 .. 7
              PROVE  i \in WithBit(byte, c, place) <=>
                         n + i < Len(Append(s, c)) /\ Append(s, c)[n + i + 1] = {0}
    BY DEF PackedByte
<1>2. Len(Append(s, c)) = n + place + 1
    OBVIOUS
<1>3. i \in byte <=> n + i < Len(s) /\ s[n + i + 1] = {0}
    BY DEF PackedByte
<1>4. CASE i < place
  <2>1. n + i + 1 \in 1 .. Len(s)
    BY <1>4
  <2>2. Append(s, c)[n + i + 1] = s[n + i + 1]
    BY <2>1
  <2>. QED  BY <1>2, <1>3, <1>4, <2>2 DEF WithBit
<1>5. CASE i = place
  <2>1. Append(s, c)[n + i + 1] = c
    BY <1>5
  <2>2. i \notin byte
    BY <1>3, <1>5
  <2>. QED  BY <1>2, <1>5, <2>1, <2>2 DEF WithBit
<1>6. CASE i > place
    BY <1>2, <1>3, <1>6 DEF WithBit
<1>. QED  BY <1>4, <1>5, <1>6

-----------------------------------------------------------------------------
LEMMA InitIInv == Init => IInv
<1>. SUFFICES ASSUME Init PROVE IInv
    OBVIOUS
<1>1. Typed
    BY PackingAssumption DEF Init, Typed, Coil
<1>2. WhilePacking
    BY <1>1 DEF Init, WhilePacking, PackedByte, Typed
<1>. QED  BY <1>1, <1>2 DEF Init, IInv, OncePacked, WhileUnpacking, RoundTrip

(* What the loop of pack_bits has in hand when it takes one more coil.     *)
LEMMA PackReads ==
    ASSUME IInv, Pack
    PROVE  LET c == coil[Len(seen) + 1]
               byte == WithBit(one_byte, c, shift)
           IN /\ c \in Coil /\ seen' = Append(seen, c) /\ Len(seen) < count
              /\ byte \in SUBSET (0 .. 7)
              /\ PackedByte(seen', 8 * Len(packet), byte)
              /\ \A j \in 1 .. Len(packet) : PackedByte(seen', 8 * (j - 1), packet[j])
<1>. DEFINE c == coil[Len(seen) + 1]
            byte == WithBit(one_byte, c, shift)
<1>1. /\ count \in Nat /\ coil \in [1 .. count -> Coil]
      /\ seen \in Seq(Coil) /\ packet \in Seq(SUBSET (0 .. 7))
      /\ shift \in 0 .. 7 /\ one_byte \in SUBSET (0 .. 7)
    BY DEF IInv, Typed
<1>2. stage = "pack" /\ Len(seen) < count /\ seen' = Append(seen, c)
    BY DEF Pack
<1>3. Len(seen) = 8 * Len(packet) + shift
    BY <1>2 DEF IInv, WhilePacking
<1>4. c \in Coil
    BY <1>1, <1>2
<1>5. PackedByte(seen', 8 * Len(packet), byte)
  <2>1. PackedByte(seen, 8 * Len(packet), one_byte)
    BY <1>2 DEF IInv, WhilePacking
  <2>2. 8 * Len(packet) \in Nat
    BY <1>1
  <2>. HIDE DEF c
  <2>3. PackedByte(Append(seen, c), 8 * Len(packet), byte)
    BY <1>1, <1>3, <1>4, <2>1, <2>2, BitJoins
  <2>. QED  BY <1>2, <2>3
<1>6. ASSUME NEW j \in 1 .. Len(packet)
      PROVE  PackedByte(seen', 8 * (j - 1), packet[j])
  <2>1. PackedByte(seen, 8 * (j - 1), packet[j])
    BY <1>2 DEF IInv, WhilePacking
  <2>2. 8 * (j - 1) \in Nat /\ 8 * (j - 1) + 8 <= Len(seen)
    BY <1>1, <1>3
  <2>. HIDE DEF c
  <2>. QED  BY <1>1, <1>2, <1>4, <2>1, <2>2, FullBytesStay
<1>7. byte \in SUBSET (0 .. 7)
    BY <1>1 DEF WithBit
<1>. QED  BY <1>2, <1>4, <1>5, <1>6, <1>7

(* A byte that is full is pushed, one that is not is kept.                 *)
LEMMA PackStep == IInv /\ Pack => IInv'
<1>. SUFFICES ASSUME IInv, Pack PROVE IInv'
    OBVIOUS
<1>1. PICK c \in Coil, byte \in SUBSET (0 .. 7) :
          /\ seen' = Append(seen, c) /\ Len(seen) < count
          /\ PackedByte(seen', 8 * Len(packet), byte)
          /\ \A j \in 1 .. Len(packet) : PackedByte(seen', 8 * (j - 1), packet[j])
          /\ IF shift = 7
             THEN packet' = Append(packet, byte) /\ one_byte' = {} /\ shift' = 0
             ELSE packet' = packet /\ one_byte' = byte /\ shift' = shift + 1
    BY PackReads DEF Pack
<1>2. /\ count \in Nat /\ coil \in [1 .. count -> Coil]
      /\ seen \in Seq(Coil) /\ packet \in Seq(SUBSET (0 .. 7))
      /\ shift \in 0 .. 7 /\ ptr = 1 /\ result = << >>
      /\ stage = "pack" /\ stage' = "pack"
      /\ count' = count /\ coil' = coil /\ ptr' = ptr /\ result' = result
      /\ Len(seen) = 8 * Len(packet) + shift
    BY DEF IInv, Typed, Pack, WhilePacking
<1>4. Len(seen') = Len(seen) + 1 /\ seen' \in Seq(Coil) /\ Len(seen') <= count'
    BY <1>1, <1>2
<1>5. CASE shift = 7
  <2>1. /\ packet' \in Seq(SUBSET (0 .. 7)) /\ Len(packet') = Len(packet) + 1
        /\ packet'[Len(packet) + 1] = byte
        /\ \A j \in 1 .. Len(packet) : packet'[j] = packet[j]
    <3>1. packet' = Append(packet, byte)
      BY <1>1, <1>5
    <3>. QED  BY <1>2, <3>1, OneMore
  <2>0. shift' = 0 /\ one_byte' = {}
    BY <1>1, <1>5
  <2>2. Typed'
    BY <1>2, <1>4, <2>0, <2>1 DEF Typed
  <2>3. ASSUME NEW j \in 1 .. Len(packet')
        PROVE  PackedByte(seen', 8 * (j - 1), packet'[j])
    <3>1. CASE j \in 1 .. Len(packet)
      BY <1>1, <2>1, <3>1
    <3>2. CASE j = Len(packet) + 1
      <4>1. 8 * (j - 1) = 8 * Len(packet)
        BY <1>2, <3>2
      <4>. QED  BY <1>1, <2>1, <3>2, <4>1
    <3>. QED  BY <1>2, <2>1, <3>1, <3>2
  <2>4. Len(seen') = 8 * Len(packet') + shift'
    BY <1>2, <1>4, <1>5, <2>0, <2>1
  <2>5. PackedByte(seen', 8 * Len(packet'), one_byte')
    BY <1>2, <1>4, <2>0, <2>1, <2>4 DEF PackedByte
  <2>6. WhilePacking'
    BY <1>2, <2>3, <2>4, <2>5 DEF WhilePacking
  <2>. QED  BY <1>2, <2>2, <2>6 DEF IInv, OncePacked, WhileUnpacking, RoundTrip
<1>6. CASE shift # 7
  <2>1. packet' = packet /\ one_byte' = byte /\ shift' = shift + 1
    BY <1>1, <1>6
  <2>2. Typed'
    BY <1>2, <1>4, <1>6, <2>1 DEF Typed
  <2>6. WhilePacking'
    BY <1>1, <1>2, <1>4, <2>1 DEF WhilePacking
  <2>. QED  BY <1>2, <2>2, <2>6 DEF IInv, OncePacked, WhileUnpacking, RoundTrip
<1>. QED  BY <1>5, <1>6

(* The last byte is pushed if there is one; then the loop of unpack_bits   *)
(* begins.                                                                 *)
LEMMA PackLastStep == IInv /\ PackLast => IInv'
<1>. SUFFICES ASSUME IInv, PackLast PROVE IInv'
    OBVIOUS
<1>1. /\ count \in Nat /\ coil \in [1 .. count -> Coil]
      /\ seen \in Seq(Coil) /\ packet \in Seq(SUBSET (0 .. 7))
      /\ shift \in 0 .. 7 /\ one_byte \in SUBSET (0 .. 7)
      /\ ptr = 1 /\ result = << >>
      /\ stage = "pack" /\ stage' = "unpack" /\ shift' = 0
      /\ count' = count /\ coil' = coil /\ ptr' = ptr /\ result' = result
      /\ seen' = seen /\ one_byte' = one_byte
      /\ Len(seen) = 8 * Len(packet) + shift /\ Len(seen) = count
    BY DEF IInv, Typed, PackLast, WhilePacking
<1>2. /\ PackedByte(seen, 8 * Len(packet), one_byte)
      /\ \A j \in 1 .. Len(packet) : PackedByte(seen, 8 * (j - 1), packet[j])
    BY <1>1 DEF IInv, WhilePacking
<1>3. /\ packet' \in Seq(SUBSET (0 .. 7)) /\ Len(packet') = PackedSize(count)
      /\ \A j \in 1 .. Len(packet') : PackedByte(seen, 8 * (j - 1), packet'[j])
  <2>1. CASE shift = 0
    <3>1. packet' = packet
      BY <2>1 DEF PackLast
    <3>. QED  BY <1>1, <1>2, <2>1, <3>1 DEF PackedSize
  <2>2. CASE shift # 0
    <3>1. packet' = Append(packet, one_byte)
      BY <2>2 DEF PackLast
    <3>2. /\ packet' \in Seq(SUBSET (0 .. 7)) /\ Len(packet') = Len(packet) + 1
          /\ packet'[Len(packet) + 1] = one_byte
          /\ \A j \in 1 .. Len(packet) : packet'[j] = packet[j]
      BY <1>1, <3>1, OneMore
    <3>3. Len(packet') = PackedSize(count)
      BY <1>1, <2>2, <3>2 DEF PackedSize
    <3>4. ASSUME NEW j \in 1 .. Len(packet')
          PROVE  PackedByte(seen, 8 * (j - 1), packet'[j])
      <4>1. CASE j \in 1 .. Len(packet)
        BY <1>2, <3>2, <4>1
      <4>2. CASE j = Len(packet) + 1
        <5>1. 8 * (j - 1) = 8 * Len(packet)
          BY <1>1, <4>2
        <5>. QED  BY <1>2, <3>2, <4>2, <5>1
      <4>. QED  BY <1>1, <3>2, <4>1, <4>2
    <3>. QED  BY <3>2, <3>3, <3>4
  <2>. QED  BY <2>1, <2>2
<1>4. Typed'
    BY <1>1, <1>3 DEF Typed
<1>5. OncePacked'
    BY <1>1, <1>3 DEF OncePacked
<1>6. WhileUnpacking'
    BY <1>1, <1>3 DEF WhileUnpacking
<1>. QED  BY <1>1, <1>4, <1>5, <1>6 DEF IInv, WhilePacking, RoundTrip

(* The bit under the mask is the coil whose turn it is.                    *)
LEMMA UnpackStep == IInv /\ Unpack => IInv'
<1>. SUFFICES ASSUME IInv, Unpack PROVE IInv'
    OBVIOUS
<1>1. PICK bit \in Coil :
          /\ bit = IF shift \in packet[ptr] THEN {0} ELSE {}
          /\ result' = Append(result, bit)
    BY DEF Unpack, Coil
<1>2. /\ count \in Nat /\ coil \in [1 .. count -> Coil]
      /\ seen \in Seq(Coil) /\ packet \in Seq(SUBSET (0 .. 7))
      /\ shift \in 0 .. 7 /\ one_byte \in SUBSET (0 .. 7)
      /\ ptr \in Nat \ {0} /\ result \in Seq(Coil)
      /\ stage = "unpack" /\ stage' = "unpack"
      /\ count' = count /\ coil' = coil /\ packet' = packet
      /\ seen' = seen /\ one_byte' = one_byte /\ ptr <= Len(packet)
    BY DEF IInv, Typed, Unpack
<1>3. /\ Len(seen) = count /\ Len(packet) = PackedSize(count)
      /\ \A j \in 1 .. Len(packet) : PackedByte(seen, 8 * (j - 1), packet[j])
      /\ Len(result) = 8 * (ptr - 1) + shift
      /\ \A k \in 1 .. Len(result) :
           result[k] = IF (k - 1) % 8 \in packet[(k - 1) \div 8 + 1] THEN {0} ELSE {}
    BY <1>2 DEF IInv, OncePacked, WhileUnpacking
<1>4. /\ result' \in Seq(Coil) /\ Len(result') = Len(result) + 1
      /\ result'[Len(result) + 1] = bit
      /\ \A k \in 1 .. Len(result) : result'[k] = result[k]
    BY <1>1, <1>2, OneMore
<1>6. ASSUME NEW k \in 1 .. Len(result')
      PROVE  result'[k] = IF (k - 1) % 8 \in packet[(k - 1) \div 8 + 1] THEN {0} ELSE {}
  <2>1. CASE k \in 1 .. Len(result)
    BY <1>3, <1>4, <2>1
  <2>2. CASE k = Len(result) + 1
    <3>1. k - 1 = 8 * (ptr - 1) + shift /\ ptr - 1 \in Nat /\ ptr - 1 + 1 = ptr
      <4>1. ptr \in Nat \ {0} /\ shift \in 0 .. 7 /\ Len(result) = 8 * (ptr - 1) + shift
        BY <1>2, <1>3
      <4>2. k = Len(result) + 1
        BY <2>2
      <4>. QED  BY ONLY <4>1, <4>2, SMTT(30)
    <3>2. (k - 1) % 8 = shift /\ (k - 1) \div 8 = ptr - 1
      BY <1>2, <3>1, EightToAByte
    <3>3. (k - 1) \div 8 + 1 = ptr
      BY <3>1, <3>2
    <3>. QED  BY <1>1, <1>4, <2>2, <3>2, <3>3
  <2>. QED  BY <1>2, <1>4, <2>1, <2>2
<1>7. /\ ptr' \in Nat \ {0} /\ shift' \in 0 .. 7 /\ ptr' <= Len(packet) + 1
      /\ ptr' > Len(packet) => shift' = 0
      /\ Len(result') = 8 * (ptr' - 1) + shift'
  <2>1. CASE shift = 7
    BY <1>2, <1>3, <1>4, <2>1 DEF Unpack
  <2>2. CASE shift # 7
    BY <1>2, <1>3, <1>4, <2>2 DEF Unpack
  <2>. QED  BY <2>1, <2>2
<1>8. Typed'
  <2>1. Len(seen') <= count'
    BY <1>2, <1>3
  <2>. QED  BY <1>2, <1>4, <1>7, <2>1 DEF Typed
<1>9. OncePacked' /\ WhileUnpacking'
    BY <1>2, <1>3, <1>6, <1>7 DEF OncePacked, WhileUnpacking
<1>. QED  BY <1>2, <1>8, <1>9 DEF IInv, WhilePacking, RoundTrip

(* The padding of the last byte is cut off.                                *)
LEMMA ResizeStep == IInv /\ Resize => IInv'
<1>. SUFFICES ASSUME IInv, Resize PROVE IInv'
    OBVIOUS
<1>1. /\ count \in Nat /\ coil \in [1 .. count -> Coil]
      /\ seen \in Seq(Coil) /\ packet \in Seq(SUBSET (0 .. 7))
      /\ shift \in 0 .. 7 /\ one_byte \in SUBSET (0 .. 7)
      /\ ptr \in Nat \ {0} /\ result \in Seq(Coil)
      /\ stage = "unpack" /\ stage' = "done" /\ ptr > Len(packet)
      /\ count' = count /\ coil' = coil /\ packet' = packet /\ shift' = shift
      /\ seen' = seen /\ one_byte' = one_byte /\ ptr' = ptr
      /\ result' = [k \in 1 .. count |-> IF k <= Len(result) THEN result[k] ELSE {}]
    BY DEF IInv, Typed, Resize
<1>2. /\ Len(seen) = count /\ Len(packet) = PackedSize(count)
      /\ \A j \in 1 .. Len(packet) : PackedByte(seen, 8 * (j - 1), packet[j])
      /\ ptr <= Len(packet) + 1 /\ shift = 0
      /\ Len(result) = 8 * (ptr - 1) + shift
      /\ \A k \in 1 .. Len(result) :
           result[k] = IF (k - 1) % 8 \in packet[(k - 1) \div 8 + 1] THEN {0} ELSE {}
    BY <1>1 DEF IInv, OncePacked, WhileUnpacking
<1>3. Len(result) >= count
    BY <1>1, <1>2 DEF PackedSize
<1>4. ASSUME NEW k \in 1 .. count
      PROVE  k \in 1 .. Len(result) /\ result[k] = seen[k]
  <2>. DEFINE j == (k - 1) \div 8 + 1
              i == (k - 1) % 8
  <2>1. j \in Int /\ i \in 0 .. 7 /\ 8 * (j - 1) + i = k - 1
    <3>1. k - 1 \in Nat
      BY <1>1
    <3>. QED  BY ONLY <3>1, SMTT(30)
  <2>2. k \in 1 .. Len(result)
    BY <1>1, <1>3
  <2>3. j \in 1 .. Len(packet)
    BY <1>1, <1>2, <2>1, <2>2
  <2>4. result[k] = IF i \in packet[j] THEN {0} ELSE {}
    BY <1>2, <2>2
  <2>. HIDE DEF i, j
  <2>5. i \in packet[j] <=> k - 1 < Len(seen) /\ seen[k - 1 + 1] = {0}
    <3>1. PackedByte(seen, 8 * (j - 1), packet[j])
      BY <1>2, <2>3
    <3>. QED  BY <2>1, <3>1 DEF PackedByte
  <2>6. k - 1 < Len(seen) /\ k - 1 + 1 = k /\ seen[k] \in Coil
    BY <1>1, <1>2
  <2>. QED  BY <2>2, <2>4, <2>5, <2>6 DEF Coil
<1>5. result' = [k \in 1 .. count |-> seen[k]]
    BY <1>1, <1>4
<1>6. result' = seen
    BY <1>1, <1>2, <1>5
<1>7. Typed'
  <2>1. Len(seen') <= count'
    BY <1>1, <1>2
  <2>. QED  BY <1>1, <1>6, <2>1 DEF Typed
<1>8. OncePacked' /\ RoundTrip'
    BY <1>1, <1>2, <1>6 DEF OncePacked, RoundTrip
<1>. QED  BY <1>1, <1>7, <1>8 DEF IInv, WhilePacking, WhileUnpacking

(* What other threads store to the slice does not matter to the loops.     *)
LEMMA FlipStep == ASSUME NEW k \in Shared, IInv, Flip(k) PROVE IInv'
<1>1. coil' \in [1 .. count -> Coil]
    BY DEF IInv, Typed, Flip
<1>2. Typed'
    BY <1>1 DEF IInv, Typed, Flip
<1>. QED  BY <1>2 DEF IInv, Flip, WhilePacking, OncePacked, WhileUnpacking, RoundTrip

-----------------------------------------------------------------------------
(* The loops' invariant holds at each of their iterations, for slices of   *)
(* any length and any shared coils.                                        *)
THEOREM PackingInvariant == Spec => []IInv
<1>1. IInv /\ [Next]_vars => IInv'
  <2>. SUFFICES ASSUME IInv, [Next]_vars PROVE IInv'
    OBVIOUS
  <2>1. CASE UNCHANGED vars
    BY <2>1 DEF vars, IInv, Typed, WhilePacking, OncePacked, WhileUnpacking, RoundTrip
  <2>. QED  BY <2>1, FlipStep, PackStep, PackLastStep, UnpackStep, ResizeStep DEF Next
<1>. QED  BY <1>1, InitIInv, PTL DEF Spec

(* pack_bits makes of n coils the (n + 7) / 8 bytes byte_count() announces *)
(* with each coil at its place, for every n.                               *)
THEOREM PackBitsRight == Spec => []PackedRight
<1>1. IInv => PackedRight
  <2>. SUFFICES ASSUME IInv, stage # "pack" PROVE packet = PackedBits(seen, count)
    BY DEF PackedRight
  <2>1. /\ count \in Nat /\ packet \in Seq(SUBSET (0 .. 7)) /\ Len(seen) = count
        /\ Len(packet) = PackedSize(count)
        /\ \A j \in 1 .. Len(packet) : PackedByte(seen, 8 * (j - 1), packet[j])
    BY DEF IInv, Typed, OncePacked
  <2>2. ASSUME NEW j \in 1 .. PackedSize(count)
        PROVE  packet[j] = {i \in 0 .. 7 : 8 * (j - 1) + i < count
                                           /\ seen[8 * (j - 1) + i + 1] = {0}}
    <3>1. packet[j] \in SUBSET (0 .. 7)
      BY <2>1
    <3>2. PackedByte(seen, 8 * (j - 1), packet[j])
      BY <2>1
    <3>3. \A i \in 0 .. 7 : i \in packet[j] <=>
              8 * (j - 1) + i < count /\ seen[8 * (j - 1) + i + 1] = {0}
      BY <2>1, <3>2 DEF PackedByte
    <3>. QED  BY <3>1, <3>3
  <2>3. packet = [j \in 1 .. PackedSize(count) |-> packet[j]]
    BY <2>1
  <2>. QED  BY <2>2, <2>3 DEF PackedBits
<1>. QED  BY <1>1, PackingInvariant, PTL

(* unpack_bits makes of every byte the eight coils of its bits.            *)
THEOREM UnpackBitsRight == Spec => []UnpackedRight
<1>1. IInv => UnpackedRight
  <2>. SUFFICES ASSUME IInv, stage = "unpack", ptr > Len(packet)
                PROVE  result = UnpackedBits(packet)
    BY DEF UnpackedRight
  <2>1. /\ packet \in Seq(SUBSET (0 .. 7)) /\ result \in Seq(Coil) /\ ptr \in Nat
        /\ ptr <= Len(packet) + 1 /\ shift = 0 /\ Len(result) = 8 * (ptr - 1) + shift
        /\ \A k \in 1 .. Len(result) :
             result[k] = IF (k - 1) % 8 \in packet[(k - 1) \div 8 + 1] THEN {0} ELSE {}
    BY DEF IInv, Typed, WhileUnpacking
  <2>2. Len(result) = 8 * Len(packet)
    <3>1. Len(packet) \in Nat
      BY <2>1
    <3>2. ptr = Len(packet) + 1
      BY <2>1, <3>1
    <3>. QED  BY <2>1, <3>1, <3>2
  <2>3. result = [k \in 1 .. 8 * Len(packet) |-> result[k]]
    BY <2>1, <2>2
  <2>. QED  BY <2>1, <2>2, <2>3 DEF UnpackedBits
<1>. QED  BY <1>1, PackingInvariant, PTL

(* unpack_bits and the resize give back what pack_bits read, for every n.  *)
THEOREM UnpackGivesBack == Spec => []RoundTrip
<1>1. IInv => RoundTrip
    BY DEF IInv
<1>. QED  BY <1>1, PackingInvariant, PTL
=============================================================================
