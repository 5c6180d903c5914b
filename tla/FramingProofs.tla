--------------------------- MODULE FramingProofs ---------------------------
(***************************************************************************)
(* Proofs about Framing, for any requests that encode makes a frame of,    *)
(* any table whose cells have the types of the code, and any cut of the    *)
(* stream: the decoders give back what encode was given, whatever follows  *)
(* the frame; the piece of a frame changes no other block than its own.    *)
(***************************************************************************)
EXTENDS Framing, SequenceTheorems, WellFoundedInduction, TLAPS

-----------------------------------------------------------------------------
(* Bits, bytes and words.                                                  *)

LEMMA Halves ==
    ASSUME NEW n \in Number
    PROVE  /\ (256 * (n \div 256)) + (n % 256) = n
           /\ n \div 256 \in 0 .. 255 /\ n % 256 \in 0 .. 255
<1>1. n \in Nat /\ n <= 65535
    BY DEF Number
<1>2. (256 * (n \div 256)) + (n % 256) = n
    BY <1>1
<1>3. n \div 256 \in 0 .. 255
    BY <1>1
<1>4. n % 256 \in 0 .. 255
    BY <1>1
<1>. QED  BY <1>2, <1>3, <1>4

(* Eight bits of a word from its k-th are the lowest eight of a number.    *)
Low(n, w, k) ==
    /\ (n % 2 = 1 <=> k \in w)
    /\ ((n \div 2) % 2 = 1 <=> k + 1 \in w)
    /\ ((n \div 4) % 2 = 1 <=> k + 2 \in w)
    /\ ((n \div 8) % 2 = 1 <=> k + 3 \in w)
    /\ ((n \div 16) % 2 = 1 <=> k + 4 \in w)
    /\ ((n \div 32) % 2 = 1 <=> k + 5 \in w)
    /\ ((n \div 64) % 2 = 1 <=> k + 6 \in w)
    /\ ((n \div 128) % 2 = 1 <=> k + 7 \in w)

(* Eight bits of a word, and what is above them, make a number.            *)
LEMMA EightBits ==
    ASSUME NEW w, NEW k \in Nat, NEW h \in Nat
    PROVE  \E n \in Nat : n \div 256 = h /\ n <= 255 + 256 * h /\ Low(n, w, k)
<1>. DEFINE Bit(b, i) == b \in 0 .. 1 /\ (b = 1 <=> i \in w)
<1>0. \A i : \E b : Bit(b, i)
  <2>1. ASSUME NEW i PROVE Bit(IF i \in w THEN 1 ELSE 0, i)
      OBVIOUS
  <2>. QED  BY <2>1
<1>. PICK b0 : Bit(b0, k)      BY <1>0
<1>. PICK b1 : Bit(b1, k + 1)  BY <1>0
<1>. PICK b2 : Bit(b2, k + 2)  BY <1>0
<1>. PICK b3 : Bit(b3, k + 3)  BY <1>0
<1>. PICK b4 : Bit(b4, k + 4)  BY <1>0
<1>. PICK b5 : Bit(b5, k + 5)  BY <1>0
<1>. PICK b6 : Bit(b6, k + 6)  BY <1>0
<1>. PICK b7 : Bit(b7, k + 7)  BY <1>0
<1>. PICK n : n = b0 + 2*b1 + 4*b2 + 8*b3 + 16*b4 + 32*b5 + 64*b6 + 128*b7 + 256*h
    OBVIOUS
<1>1. n \in Nat /\ n \div 256 = h /\ n <= 255 + 256 * h
    OBVIOUS
<1>2. n % 2 = b0
    OBVIOUS
<1>3. n \div 2 = b1 + 2 * (b2 + 2*b3 + 4*b4 + 8*b5 + 16*b6 + 32*b7 + 64*h)
    OBVIOUS
<1>4. n \div 4 = b2 + 2 * (b3 + 2*b4 + 4*b5 + 8*b6 + 16*b7 + 32*h)
    OBVIOUS
<1>5. n \div 8 = b3 + 2 * (b4 + 2*b5 + 4*b6 + 8*b7 + 16*h)
    OBVIOUS
<1>6. n \div 16 = b4 + 2 * (b5 + 2*b6 + 4*b7 + 8*h)
    OBVIOUS
<1>7. n \div 32 = b5 + 2 * (b6 + 2*b7 + 4*h)
    OBVIOUS
<1>8. n \div 64 = b6 + 2 * (b7 + 2*h)
    OBVIOUS
<1>9. n \div 128 = b7 + 2 * h
    OBVIOUS
<1>10. \A b \in 0 .. 1, m \in Nat : (b + 2 * m) % 2 = b
    OBVIOUS
<1>11. /\ (n \div 2) % 2 = b1 /\ (n \div 4) % 2 = b2 /\ (n \div 8) % 2 = b3
       /\ (n \div 16) % 2 = b4
    BY <1>3, <1>4, <1>5, <1>6, <1>10
<1>12. (n \div 32) % 2 = b5 /\ (n \div 64) % 2 = b6 /\ (n \div 128) % 2 = b7
    BY <1>7, <1>8, <1>9, <1>10
<1>13. Low(n, w, k)
    BY <1>2, <1>11, <1>12 DEF Low
<1>. QED  BY <1>1, <1>13

LEMMA DivDiv ==
    ASSUME NEW n \in Nat
    PROVE  /\ (n \div 256) \div 2 = n \div 512
           /\ (n \div 256) \div 4 = n \div 1024 /\ (n \div 256) \div 8 = n \div 2048
           /\ (n \div 256) \div 16 = n \div 4096 /\ (n \div 256) \div 32 = n \div 8192
           /\ (n \div 256) \div 64 = n \div 16384 /\ (n \div 256) \div 128 = n \div 32768
    OBVIOUS

(* Every set of sixteen bits is the bits of a number.                      *)
LEMMA BitsAreNumbers ==
    ASSUME NEW w \in Register
    PROVE  \E n \in Number : BitsOf(n, 16) = w
<1>1. PICK h \in Nat : h \div 256 = 0 /\ h <= 255 + 256 * 0 /\ Low(h, w, 8)
  <2>1. 8 \in Nat /\ 0 \in Nat
      OBVIOUS
  <2>. QED  BY <2>1, EightBits
<1>2. PICK n \in Nat : n \div 256 = h /\ n <= 255 + 256 * h /\ Low(n, w, 0)
  <2>1. 0 \in Nat
      OBVIOUS
  <2>. QED  BY <2>1, EightBits
<1>. DEFINE P(i) == (n \div 2 ^ i) % 2 = 1 <=> i \in w
<1>3. /\ h \div 2 = n \div 512 /\ h \div 4 = n \div 1024
      /\ h \div 8 = n \div 2048 /\ h \div 16 = n \div 4096 /\ h \div 32 = n \div 8192
      /\ h \div 64 = n \div 16384 /\ h \div 128 = n \div 32768
    BY <1>2, DivDiv
<1>4. n \div 1 = n
    OBVIOUS
<1>5. P(0) /\ P(1) /\ P(2) /\ P(3) /\ P(4) /\ P(5) /\ P(6) /\ P(7)
    BY <1>2, <1>4 DEF Low
<1>6. P(8) /\ P(9) /\ P(10) /\ P(11) /\ P(12) /\ P(13) /\ P(14) /\ P(15)
    BY <1>1, <1>2, <1>3 DEF Low
<1>7. ASSUME NEW i \in 0 .. 15
      PROVE  P(i)
  <2>. HIDE DEF P
  <2>1. \/ i = 0 \/ i = 1 \/ i = 2 \/ i = 3 \/ i = 4 \/ i = 5 \/ i = 6 \/ i = 7
        \/ i = 8 \/ i = 9 \/ i = 10 \/ i = 11 \/ i = 12 \/ i = 13 \/ i = 14 \/ i = 15
      OBVIOUS
  <2>. QED  BY <1>5, <1>6, <2>1
<1>8. BitsOf(n, 16) = w
  <2>1. BitsOf(n, 16) = {i \in 0 .. 15 : (n \div 2 ^ i) % 2 = 1}
      BY DEF BitsOf
  <2>2. \A i \in 0 .. 15 : (n \div 2 ^ i) % 2 = 1 <=> i \in w
      BY <1>7
  <2>. QED  BY <2>1, <2>2 DEF Register
<1>9. n \in Number
  <2>1. n <= 65535
      BY <1>1, <1>2
  <2>. QED  BY <2>1 DEF Number
<1>. QED  BY <1>8, <1>9

LEMMA NumberOfWord ==
    ASSUME NEW w \in Register
    PROVE  NumberOf(w) \in Number /\ BitsOf(NumberOf(w), 16) = w
<1>. DEFINE Is(n) == BitsOf(n, 16) = w
<1>1. NumberOf(w) = CHOOSE n \in Number : Is(n)
    BY DEF NumberOf, Number
<1>2. \E n \in Number : Is(n)
    BY BitsAreNumbers
<1>. HIDE DEF Is
<1>3. NumberOf(w) \in Number /\ Is(NumberOf(w))
    BY <1>1, <1>2
<1>. QED  BY <1>3 DEF Is

LEMMA NumberOfByte ==
    ASSUME NEW w \in SUBSET (0 .. 7)
    PROVE  NumberOf(w) \in Number /\ BitsOf(NumberOf(w), 8) = w
<1>1. w \in Register
    BY DEF Register
<1>2. NumberOf(w) \in Number /\ BitsOf(NumberOf(w), 16) = w
    BY <1>1, NumberOfWord
<1>3. /\ BitsOf(NumberOf(w), 16) = {i \in 0 .. 15 : (NumberOf(w) \div 2 ^ i) % 2 = 1}
      /\ BitsOf(NumberOf(w), 8) = {i \in 0 .. 7 : (NumberOf(w) \div 2 ^ i) % 2 = 1}
    BY DEF BitsOf
<1>4. BitsOf(NumberOf(w), 8) = BitsOf(NumberOf(w), 16) \cap (0 .. 7)
  <2>. DEFINE Is(i) == (NumberOf(w) \div 2 ^ i) % 2 = 1
  <2>1. /\ BitsOf(NumberOf(w), 16) = {i \in 0 .. 15 : Is(i)}
        /\ BitsOf(NumberOf(w), 8) = {i \in 0 .. 7 : Is(i)}
      BY <1>3
  <2>. HIDE DEF Is
  <2>. QED  BY <2>1
<1>. QED  BY <1>2, <1>4
-----------------------------------------------------------------------------
(* What encode makes of the fields.                                        *)

Join(s, t) == s \o t

LEMMA Joined ==
    ASSUME NEW s \in Seq(Int), NEW t \in Seq(Int)
    PROVE  /\ Join(s, t) \in Seq(Int) /\ Len(Join(s, t)) = Len(s) + Len(t)
           /\ \A i \in 1 .. Len(s) : Join(s, t)[i] = s[i]
           /\ \A i \in 1 .. Len(t) : Join(s, t)[Len(s) + i] = t[i]
    BY DEF Join

(* A field of two bytes, from place i on.                                  *)
Field(s, i, n) == s[i] = n \div 256 /\ s[i + 1] = n % 256

LEMMA PairBytes ==
    ASSUME NEW n \in Nat
    PROVE  /\ Pair(n) \in Seq(Int) /\ Len(Pair(n)) = 2
           /\ Pair(n)[1] = n \div 256 /\ Pair(n)[2] = n % 256
    BY DEF Pair

LEMMA RegisterBytes ==
    ASSUME NEW vals \in Seq(Register)
    PROVE  /\ Registers(vals) \in Seq(Int) /\ Len(Registers(vals)) = 2 * Len(vals)
           /\ \A k \in 1 .. Len(vals) :
                Field(Registers(vals), (2 * k) - 1, NumberOf(vals[k]))
<1>1. \A k \in 1 .. Len(vals) : NumberOf(vals[k]) \in Nat
    BY NumberOfWord DEF Number
<1>2. ASSUME NEW j \in 1 .. 2 * Len(vals)
      PROVE  /\ (j + 1) \div 2 \in 1 .. Len(vals)
             /\ (j - 1) % 2 \in 0 .. 1
    OBVIOUS
<1>3. ASSUME NEW j \in 1 .. 2 * Len(vals)
      PROVE  Pair(NumberOf(vals[(j + 1) \div 2]))[1 + ((j - 1) % 2)] \in Int
  <2>1. PICK n \in Nat : n = NumberOf(vals[(j + 1) \div 2])
      BY <1>1, <1>2
  <2>2. Pair(n)[1] \in Int /\ Pair(n)[2] \in Int
    <3>1. n \div 256 \in Int /\ n % 256 \in Int
        OBVIOUS
    <3>. QED  BY <3>1, PairBytes
  <2>3. (j - 1) % 2 = 0 \/ (j - 1) % 2 = 1
      BY <1>2
  <2>. QED  BY <2>1, <2>2, <2>3
<1>4. Registers(vals) \in Seq(Int) /\ Len(Registers(vals)) = 2 * Len(vals)
  <2>1. Registers(vals) \in [1 .. 2 * Len(vals) -> Int]
      BY <1>3 DEF Registers
  <2>2. 2 * Len(vals) \in Nat
      OBVIOUS
  <2>. QED  BY <2>1, <2>2
<1>5. ASSUME NEW k \in 1 .. Len(vals)
      PROVE  Field(Registers(vals), (2 * k) - 1, NumberOf(vals[k]))
  <2>1. PICK n \in Nat : n = NumberOf(vals[k])
      BY <1>1
  <2>2. /\ (2 * k) - 1 \in 1 .. 2 * Len(vals) /\ 2 * k \in 1 .. 2 * Len(vals)
        /\ (((2 * k) - 1) + 1) \div 2 = k /\ ((2 * k) + 1) \div 2 = k
        /\ (((2 * k) - 1) - 1) % 2 = 0 /\ ((2 * k) - 1) % 2 = 1
        /\ ((2 * k) - 1) + 1 = 2 * k
      OBVIOUS
  <2>3. Registers(vals)[(2 * k) - 1] = Pair(n)[1] /\ Registers(vals)[2 * k] = Pair(n)[2]
      BY <2>1, <2>2 DEF Registers
  <2>. QED  BY <2>1, <2>2, <2>3, PairBytes DEF Field
<1>. QED  BY <1>4, <1>5

LEMMA CoilBytes ==
    ASSUME NEW vals \in Seq({off, on})
    PROVE  /\ Coils(vals) \in Seq(Int) /\ Len(Coils(vals)) = PackedSize(Len(vals))
           /\ \A j \in 1 .. PackedSize(Len(vals)) :
                BitsOf(Coils(vals)[j], 8) = PackedBits(vals, Len(vals))[j]
<1>. DEFINE packet == PackedBits(vals, Len(vals))
<1>1. PackedSize(Len(vals)) \in Nat
    BY DEF PackedSize
<1>2. DOMAIN packet = 1 .. PackedSize(Len(vals))
    BY DEF PackedBits
<1>3. \A j \in 1 .. PackedSize(Len(vals)) : packet[j] \in SUBSET (0 .. 7)
    BY DEF PackedBits
<1>4. Coils(vals) = [j \in 1 .. PackedSize(Len(vals)) |-> NumberOf(packet[j])]
    BY <1>2 DEF Coils
<1>. HIDE DEF packet
<1>5. \A j \in 1 .. PackedSize(Len(vals)) :
         NumberOf(packet[j]) \in Int /\ BitsOf(NumberOf(packet[j]), 8) = packet[j]
    BY <1>3, NumberOfByte DEF Number
<1>6. Coils(vals) \in Seq(Int) /\ Len(Coils(vals)) = PackedSize(Len(vals))
    BY <1>1, <1>4, <1>5
<1>. QED  BY <1>4, <1>5, <1>6 DEF packet

(* Every frame is a header of eight bytes and the data of its function.    *)
LEMMA FrameBytes ==
    ASSUME NEW p, p.fn \in Int, Pdu(p) \in Seq(Int)
    PROVE  /\ Frame(p) \in Seq(Int) /\ Len(Frame(p)) = 8 + Len(Pdu(p))
           /\ Frame(p)[8] = p.fn
           /\ \A j \in 1 .. Len(Pdu(p)) : Frame(p)[8 + j] = Pdu(p)[j]
<1>. DEFINE d == Pdu(p)
            l == Pair(Len(d) + 2)
            z == << 0, 0, 0, 0 >>
            f == << 0, p.fn >>
<1>1. d \in Seq(Int) /\ l \in Seq(Int) /\ Len(l) = 2
  <2>1. Len(d) + 2 \in Nat
      OBVIOUS
  <2>. QED  BY <2>1, PairBytes
<1>2. z \in Seq(Int) /\ Len(z) = 4
    OBVIOUS
<1>3. f \in Seq(Int) /\ Len(f) = 2 /\ f[2] = p.fn
    OBVIOUS
<1>4. Frame(p) = Join(Join(Join(z, l), f), d)
    BY DEF Frame, Join
<1>. HIDE DEF d, l, z, f
<1>5. Join(z, l) \in Seq(Int) /\ Len(Join(z, l)) = 6
  <2>1. Join(z, l) \in Seq(Int) /\ Len(Join(z, l)) = Len(z) + Len(l)
      BY <1>1, <1>2, Joined, Zenon
  <2>. QED  BY <1>1, <1>2, <2>1
<1>. DEFINE h == Join(Join(z, l), f)
<1>6. h \in Seq(Int) /\ Len(h) = 8 /\ h[8] = p.fn
  <2>1. /\ h \in Seq(Int) /\ Len(h) = Len(Join(z, l)) + Len(f)
        /\ \A i \in 1 .. Len(f) : h[Len(Join(z, l)) + i] = f[i]
      BY <1>3, <1>5, Joined, Zenon
  <2>. HIDE DEF h
  <2>2. 2 \in 1 .. Len(f) /\ Len(Join(z, l)) + 2 = 8
      BY <1>3, <1>5
  <2>3. h[8] = f[2]
      BY <2>1, <2>2
  <2>. QED  BY <1>3, <1>5, <2>1, <2>3
<1>. HIDE DEF h
<1>7. /\ Join(h, d) \in Seq(Int) /\ Len(Join(h, d)) = 8 + Len(d)
      /\ Join(h, d)[8] = p.fn
      /\ \A j \in 1 .. Len(d) : Join(h, d)[8 + j] = d[j]
  <2>1. /\ Join(h, d) \in Seq(Int) /\ Len(Join(h, d)) = Len(h) + Len(d)
        /\ \A i \in 1 .. Len(h) : Join(h, d)[i] = h[i]
        /\ \A i \in 1 .. Len(d) : Join(h, d)[Len(h) + i] = d[i]
      BY <1>1, <1>6, Joined, Zenon
  <2>2. 8 \in 1 .. Len(h)
      BY <1>6
  <2>. QED  BY <1>6, <2>1, <2>2
<1>8. Frame(p) = Join(h, d)
    BY <1>4 DEF h
<1>. QED  BY <1>7, <1>8 DEF d
(* What encode was given, function by function.                            *)
LEMMA Fields ==
    ASSUME NEW p \in Packet
    PROVE  /\ p.addr \in Number /\ p.cnt \in Number
           /\ p.waddr \in Number /\ p.wcnt \in Number
           /\ p.bytes \in 0 .. 255 /\ p.vals \in Seq(Register)
           /\ p.fn \in Supported
<1>1. Encodable(p)
    BY FramingAssumption
<1>2. p.fn \in Supported
    BY <1>1 DEF Encodable, Supported, ReadFunction, WriteFunction, ReadWritePacket
<1>. QED  BY <1>1, <1>2 DEF Encodable

LEMMA Kinds ==
    ASSUME NEW p \in Packet
    PROVE  /\ p.fn \in ReadFunction \ WriteFunction =>
                p = ReadPacket(p.fn, p.addr, p.cnt)
           /\ p.fn \in {write_single_coil, write_single_register, mask_write_register} =>
                /\ p = WritePacket(p.fn, p.waddr, 1, p.vals, 0)
                /\ Len(p.vals) = IF p.fn = mask_write_register THEN 2 ELSE 1
                /\ p.fn = write_single_coil => p.vals[1] \in {off, on}
           /\ p.fn = write_multiple_coils =>
                /\ p = WritePacket(p.fn, p.waddr, Len(p.vals), p.vals, p.bytes)
                /\ p.vals \in Seq({off, on})
           /\ p.fn = write_multiple_registers =>
                p = WritePacket(p.fn, p.waddr, Len(p.vals), p.vals, 2 * Len(p.vals))
           /\ p.fn = read_write_multiple_registers =>
                p = ReadWritePacket(p.addr, p.cnt, p.waddr, Len(p.vals), p.vals,
                                    2 * Len(p.vals))
<1>1. Encodable(p)
    BY FramingAssumption
<1>2. p = ReadWritePacket(p.addr, p.cnt, p.waddr, Len(p.vals), p.vals,
                          2 * Len(p.vals)) => p.fn = read_write_multiple_registers
    BY DEF ReadWritePacket
<1>3. /\ ReadFunction \ WriteFunction = {1, 2, 3, 4}
      /\ write_single_coil = 5 /\ write_single_register = 6
      /\ write_multiple_coils = 15 /\ write_multiple_registers = 16
      /\ mask_write_register = 22 /\ read_write_multiple_registers = 23
    BY DEF ReadFunction, WriteFunction, read_coils, read_discrete_inputs,
       read_holding_registers, read_input_registers, write_single_coil,
       write_single_register, write_multiple_coils, write_multiple_registers,
       mask_write_register, read_write_multiple_registers
<1>. QED  BY <1>1, <1>2, <1>3, SMTT(30) DEF Encodable

LEMMA ReadFrame ==
    ASSUME NEW p \in Packet, p.fn \in ReadFunction \ WriteFunction
    PROVE  /\ Frame(p) \in Seq(Int) /\ Len(Frame(p)) = 12 /\ Frame(p)[8] = p.fn
           /\ Field(Frame(p), 9, p.addr) /\ Field(Frame(p), 11, p.cnt)
<1>1. p.addr \in Nat /\ p.cnt \in Nat /\ p.fn \in Int
    BY Fields DEF Number, Supported, ReadFunction, WriteFunction, read_coils,
       read_discrete_inputs, read_holding_registers, read_input_registers,
       write_single_coil, write_single_register, write_multiple_coils,
       write_multiple_registers, mask_write_register, read_write_multiple_registers
<1>2. Pdu(p) = Pair(p.addr) \o Pair(p.cnt)
    BY DEF Pdu, WriteFunction, ReadFunction, read_coils, read_discrete_inputs,
       read_holding_registers, read_input_registers, write_single_coil,
       write_single_register, write_multiple_coils, write_multiple_registers,
       mask_write_register, read_write_multiple_registers
<1>3. /\ Pdu(p) \in Seq(Int) /\ Len(Pdu(p)) = 4
      /\ Pdu(p)[1] = p.addr \div 256 /\ Pdu(p)[2] = p.addr % 256
      /\ Pdu(p)[3] = p.cnt \div 256 /\ Pdu(p)[4] = p.cnt % 256
    BY <1>1, <1>2 DEF Pair
<1>4. /\ Frame(p) \in Seq(Int) /\ Len(Frame(p)) = 8 + Len(Pdu(p))
      /\ Frame(p)[8] = p.fn
      /\ \A j \in 1 .. Len(Pdu(p)) : Frame(p)[8 + j] = Pdu(p)[j]
    BY <1>1, <1>3, FrameBytes
<1>5. Frame(p)[9] = Pdu(p)[1] /\ Frame(p)[10] = Pdu(p)[2]
      /\ Frame(p)[11] = Pdu(p)[3] /\ Frame(p)[12] = Pdu(p)[4]
    BY <1>3, <1>4
<1>. QED  BY <1>3, <1>4, <1>5 DEF Field
(* The fixed fields of a function, then the values.                        *)
LEMMA ValuesFrame ==
    ASSUME NEW p, p.fn \in Int, NEW head \in Seq(Int), NEW tail \in Seq(Int),
           Pdu(p) = Join(head, tail)
    PROVE  /\ Frame(p) \in Seq(Int) /\ Len(Frame(p)) = 8 + Len(head) + Len(tail)
           /\ Frame(p)[8] = p.fn
           /\ \A j \in 1 .. Len(head) : Frame(p)[8 + j] = head[j]
           /\ \A j \in 1 .. Len(tail) : Frame(p)[8 + Len(head) + j] = tail[j]
<1>1. /\ Pdu(p) \in Seq(Int) /\ Len(Pdu(p)) = Len(head) + Len(tail)
      /\ \A j \in 1 .. Len(head) : Pdu(p)[j] = head[j]
      /\ \A j \in 1 .. Len(tail) : Pdu(p)[Len(head) + j] = tail[j]
  <2>. DEFINE s == Join(head, tail)
  <2>1. /\ s \in Seq(Int) /\ Len(s) = Len(head) + Len(tail)
        /\ \A j \in 1 .. Len(head) : s[j] = head[j]
        /\ \A j \in 1 .. Len(tail) : s[Len(head) + j] = tail[j]
      BY Joined, Zenon
  <2>. HIDE DEF s
  <2>2. Pdu(p) = s
      BY DEF s
  <2>. QED  BY <2>1, <2>2
<1>2. /\ Frame(p) \in Seq(Int) /\ Len(Frame(p)) = 8 + Len(Pdu(p))
      /\ Frame(p)[8] = p.fn
      /\ \A j \in 1 .. Len(Pdu(p)) : Frame(p)[8 + j] = Pdu(p)[j]
    BY <1>1, FrameBytes
<1>3. ASSUME NEW j \in 1 .. Len(head)  PROVE Frame(p)[8 + j] = head[j]
    BY <1>1, <1>2
<1>4. ASSUME NEW j \in 1 .. Len(tail)  PROVE Frame(p)[8 + Len(head) + j] = tail[j]
  <2>1. Len(head) + j \in 1 .. Len(Pdu(p)) /\ 8 + (Len(head) + j) = 8 + Len(head) + j
      BY <1>1
  <2>2. Frame(p)[8 + (Len(head) + j)] = Pdu(p)[Len(head) + j]
      BY <1>2, <2>1
  <2>. QED  BY <1>1, <2>1, <2>2
<1>. QED  BY <1>1, <1>2, <1>3, <1>4

LEMMA Types ==
    ASSUME NEW p \in Packet
    PROVE  /\ p.addr \in Nat /\ p.cnt \in Nat /\ p.waddr \in Nat /\ p.wcnt \in Nat
           /\ p.bytes \in Nat /\ p.fn \in Int /\ p.vals \in Seq(Register)
<1>1. p.addr \in Nat /\ p.cnt \in Nat /\ p.waddr \in Nat /\ p.wcnt \in Nat
    BY Fields DEF Number
<1>2. p.bytes \in 0 .. 255 /\ p.vals \in Seq(Register)
    BY Fields
<1>3. \A i \in 0 .. 255 : i \in Nat
    OBVIOUS
<1>4. p.fn \in Int
    BY Fields DEF Supported, ReadFunction, WriteFunction, read_coils,
       read_discrete_inputs, read_holding_registers, read_input_registers,
       write_single_coil, write_single_register, write_multiple_coils,
       write_multiple_registers, mask_write_register, read_write_multiple_registers
<1>. QED  BY <1>1, <1>2, <1>3, <1>4

LEMMA SingleCoilFrame ==
    ASSUME NEW p \in Packet, p.fn \in {write_single_coil}
    PROVE  /\ Frame(p) \in Seq(Int) /\ Len(Frame(p)) = 12 /\ Frame(p)[8] = p.fn
           /\ Field(Frame(p), 9, p.waddr)
           /\ Field(Frame(p), 11, IF p.vals[1] = on THEN 65280 ELSE 0)
<1>. DEFINE head == Pair(p.waddr)
            tail == IF p.vals[1] = on THEN << 255, 0 >> ELSE << 0, 0 >>
<1>1. p.waddr \in Nat /\ p.fn \in Int
    BY Types
<1>2. Pdu(p) = Join(head, tail)
  <2>1. Pdu(p) = head \o tail
      BY DEF Pdu, write_single_coil,
         write_single_register, write_multiple_coils, write_multiple_registers,
         mask_write_register, read_write_multiple_registers
  <2>. QED  BY <2>1 DEF Join
<1>3. head \in Seq(Int) /\ Len(head) = 2 /\ Field(head, 1, p.waddr)
    BY <1>1 DEF Pair, Field
<1>4. /\ tail \in Seq(Int) /\ Len(tail) = 2
      /\ Field(tail, 1, IF p.vals[1] = on THEN 65280 ELSE 0)
    BY DEF Field
<1>. HIDE DEF head, tail
<1>5. /\ Frame(p) \in Seq(Int) /\ Len(Frame(p)) = 8 + Len(head) + Len(tail)
      /\ Frame(p)[8] = p.fn
      /\ \A j \in 1 .. Len(head) : Frame(p)[8 + j] = head[j]
      /\ \A j \in 1 .. Len(tail) : Frame(p)[8 + Len(head) + j] = tail[j]
  <2>1. head \in Seq(Int) /\ tail \in Seq(Int) /\ p.fn \in Int
      BY <1>1, <1>3, <1>4
  <2>. QED  BY <2>1, <1>2, ValuesFrame, Zenon
<1>6. /\ Frame(p)[9] = head[1] /\ Frame(p)[10] = head[2]
      /\ Frame(p)[11] = tail[1] /\ Frame(p)[12] = tail[2]
    BY <1>3, <1>4, <1>5
<1>. QED  BY <1>3, <1>4, <1>5, <1>6 DEF Field

(* The registers of a frame, from place i on.                              *)
RegisterFields(s, i, vals) ==
    /\ vals \in Seq(Register) /\ i + (2 * Len(vals)) - 1 <= Len(s)
    /\ \A k \in 1 .. Len(vals) : Field(s, i + (2 * k) - 2, NumberOf(vals[k]))

LEMMA RegistersLast ==
    ASSUME NEW vals \in Seq(Register), NEW s, NEW m \in Nat,
           8 + m + Len(Registers(vals)) <= Len(s), Len(s) \in Nat,
           \A j \in 1 .. Len(Registers(vals)) : s[8 + m + j] = Registers(vals)[j]
    PROVE  RegisterFields(s, 9 + m, vals)
<1>. DEFINE tail == Registers(vals)
<1>1. /\ tail \in Seq(Int) /\ Len(tail) = 2 * Len(vals)
      /\ \A k \in 1 .. Len(vals) : Field(tail, (2 * k) - 1, NumberOf(vals[k]))
    BY RegisterBytes
<1>2. /\ \A j \in 1 .. Len(tail) : s[8 + m + j] = tail[j]
      /\ 8 + m + Len(tail) <= Len(s)
    OBVIOUS
<1>. HIDE DEF tail
<1>3. ASSUME NEW k \in 1 .. Len(vals)
      PROVE  Field(s, (9 + m) + (2 * k) - 2, NumberOf(vals[k]))
  <2>1. /\ (2 * k) - 1 \in 1 .. Len(tail) /\ ((2 * k) - 1) + 1 \in 1 .. Len(tail)
        /\ 8 + m + ((2 * k) - 1) = (9 + m) + (2 * k) - 2
        /\ 8 + m + (((2 * k) - 1) + 1) = ((9 + m) + (2 * k) - 2) + 1
    <3>1. k \in Nat /\ 1 <= k /\ k <= Len(vals) /\ Len(vals) \in Nat
        OBVIOUS
    <3>2. (2 * k) - 1 \in 1 .. 2 * Len(vals) /\ ((2 * k) - 1) + 1 \in 1 .. 2 * Len(vals)
        BY <3>1
    <3>3. /\ 8 + m + ((2 * k) - 1) = (9 + m) + (2 * k) - 2
          /\ 8 + m + (((2 * k) - 1) + 1) = ((9 + m) + (2 * k) - 2) + 1
        BY <3>1
    <3>. QED  BY <1>1, <3>2, <3>3
  <2>2. /\ s[8 + m + ((2 * k) - 1)] = tail[(2 * k) - 1]
        /\ s[8 + m + (((2 * k) - 1) + 1)] = tail[((2 * k) - 1) + 1]
      BY <1>2, <2>1, Zenon
  <2>3. /\ s[(9 + m) + (2 * k) - 2] = tail[(2 * k) - 1]
        /\ s[((9 + m) + (2 * k) - 2) + 1] = tail[((2 * k) - 1) + 1]
      BY <2>1, <2>2
  <2>. QED  BY <1>1, <2>3 DEF Field
<1>4. (9 + m) + (2 * Len(vals)) - 1 <= Len(s)
    BY <1>1, <1>2
<1>. QED  BY <1>3, <1>4 DEF RegisterFields

LEMMA RegisterFrame ==
    ASSUME NEW p \in Packet, p.fn \in {write_single_register, mask_write_register}
    PROVE  /\ Frame(p) \in Seq(Int) /\ Len(Frame(p)) = 10 + (2 * Len(p.vals))
           /\ Frame(p)[8] = p.fn
           /\ Field(Frame(p), 9, p.waddr)
           /\ RegisterFields(Frame(p), 11, p.vals)
<1>. DEFINE head == Pair(p.waddr)
            tail == Registers(p.vals)
<1>1. p.waddr \in Nat /\ p.fn \in Int /\ p.vals \in Seq(Register)
    BY Types
<1>2. Pdu(p) = Join(head, tail)
  <2>1. Pdu(p) = head \o tail
      BY DEF Pdu, write_single_coil,
         write_single_register, write_multiple_coils, write_multiple_registers,
         mask_write_register, read_write_multiple_registers
  <2>. QED  BY <2>1 DEF Join
<1>3. head \in Seq(Int) /\ Len(head) = 2 /\ Field(head, 1, p.waddr)
    BY <1>1 DEF Pair, Field
<1>4. /\ tail \in Seq(Int) /\ Len(tail) = 2 * Len(p.vals)
      /\ \A k \in 1 .. Len(p.vals) : Field(tail, (2 * k) - 1, NumberOf(p.vals[k]))
    BY <1>1, RegisterBytes
<1>. HIDE DEF head, tail
<1>5. /\ Frame(p) \in Seq(Int) /\ Len(Frame(p)) = 8 + Len(head) + Len(tail)
      /\ Frame(p)[8] = p.fn
      /\ \A j \in 1 .. Len(head) : Frame(p)[8 + j] = head[j]
      /\ \A j \in 1 .. Len(tail) : Frame(p)[8 + Len(head) + j] = tail[j]
  <2>1. head \in Seq(Int) /\ tail \in Seq(Int) /\ p.fn \in Int
      BY <1>1, <1>3, <1>4
  <2>. QED  BY <2>1, <1>2, ValuesFrame, Zenon
<1>6. Len(Frame(p)) = 10 + (2 * Len(p.vals))
    BY <1>1, <1>3, <1>4, <1>5
<1>7. Field(Frame(p), 9, p.waddr)
    BY <1>3, <1>5 DEF Field
<1>8. RegisterFields(Frame(p), 11, p.vals)
  <2>1. \A j \in 1 .. Len(Registers(p.vals)) :
           Frame(p)[8 + 2 + j] = Registers(p.vals)[j]
      BY <1>3, <1>5 DEF tail
  <2>0. 8 + 2 + Len(Registers(p.vals)) <= Len(Frame(p)) /\ Len(Frame(p)) \in Nat
      BY <1>3, <1>4, <1>5 DEF tail
  <2>2. RegisterFields(Frame(p), 9 + 2, p.vals)
      BY <1>1, <2>0, <2>1, RegistersLast
  <2>. QED  BY <2>2
<1>. QED  BY <1>5, <1>6, <1>7, <1>8

LEMMA MultipleCoilsFrame ==
    ASSUME NEW p \in Packet, p.fn \in {write_multiple_coils}
    PROVE  /\ Frame(p) \in Seq(Int)
           /\ Len(Frame(p)) = 13 + PackedSize(Len(p.vals))
           /\ Frame(p)[8] = p.fn
           /\ Field(Frame(p), 9, p.waddr) /\ Field(Frame(p), 11, p.wcnt)
           /\ \A j \in 1 .. PackedSize(Len(p.vals)) :
                BitsOf(Frame(p)[13 + j], 8) = PackedBits(p.vals, Len(p.vals))[j]
<1>. DEFINE head == Pair(p.waddr) \o Pair(p.wcnt) \o << p.bytes >>
            tail == Coils(p.vals)
<1>1. /\ p.waddr \in Nat /\ p.wcnt \in Nat /\ p.bytes \in Int /\ p.fn \in Int
      /\ p.vals \in Seq({off, on})
    BY Types, Kinds
<1>2. Pdu(p) = Join(head, tail)
  <2>1. Pdu(p) = head \o tail
      BY DEF Pdu, write_single_coil,
         write_single_register, write_multiple_coils, write_multiple_registers,
         mask_write_register, read_write_multiple_registers
  <2>. QED  BY <2>1 DEF Join
<1>3. /\ head \in Seq(Int) /\ Len(head) = 5
      /\ Field(head, 1, p.waddr) /\ Field(head, 3, p.wcnt)
  <2>1. /\ head \in Seq(Int) /\ Len(head) = 5
        /\ head[1] = p.waddr \div 256 /\ head[2] = p.waddr % 256
        /\ head[3] = p.wcnt \div 256 /\ head[4] = p.wcnt % 256
      BY <1>1 DEF Pair
  <2>. HIDE DEF head
  <2>. QED  BY <2>1 DEF Field
<1>4. /\ tail \in Seq(Int) /\ Len(tail) = PackedSize(Len(p.vals))
      /\ \A j \in 1 .. PackedSize(Len(p.vals)) :
           BitsOf(tail[j], 8) = PackedBits(p.vals, Len(p.vals))[j]
    BY <1>1, CoilBytes
<1>. HIDE DEF head, tail
<1>5. /\ Frame(p) \in Seq(Int) /\ Len(Frame(p)) = 8 + Len(head) + Len(tail)
      /\ Frame(p)[8] = p.fn
      /\ \A j \in 1 .. Len(head) : Frame(p)[8 + j] = head[j]
      /\ \A j \in 1 .. Len(tail) : Frame(p)[8 + Len(head) + j] = tail[j]
  <2>1. head \in Seq(Int) /\ tail \in Seq(Int) /\ p.fn \in Int
      BY <1>1, <1>3, <1>4
  <2>. QED  BY <2>1, <1>2, ValuesFrame, Zenon
<1>6. Len(Frame(p)) = 13 + PackedSize(Len(p.vals))
    BY <1>3, <1>4, <1>5
<1>7. Field(Frame(p), 9, p.waddr) /\ Field(Frame(p), 11, p.wcnt)
    BY <1>3, <1>5 DEF Field
<1>8. \A j \in 1 .. PackedSize(Len(p.vals)) : Frame(p)[13 + j] = tail[j]
    BY <1>3, <1>4, <1>5
<1>. QED  BY <1>4, <1>5, <1>6, <1>7, <1>8

LEMMA MultipleRegistersFrame ==
    ASSUME NEW p \in Packet, p.fn \in {write_multiple_registers}
    PROVE  /\ Frame(p) \in Seq(Int) /\ Len(Frame(p)) = 13 + (2 * Len(p.vals))
           /\ Frame(p)[8] = p.fn
           /\ Field(Frame(p), 9, p.waddr) /\ Field(Frame(p), 11, p.wcnt)
           /\ Frame(p)[13] = p.bytes
           /\ RegisterFields(Frame(p), 14, p.vals)
<1>. DEFINE head == Pair(p.waddr) \o Pair(p.wcnt) \o << p.bytes >>
            tail == Registers(p.vals)
<1>1. /\ p.waddr \in Nat /\ p.wcnt \in Nat /\ p.bytes \in Int /\ p.fn \in Int
      /\ p.vals \in Seq(Register)
    BY Types
<1>2. Pdu(p) = Join(head, tail)
  <2>1. Pdu(p) = head \o tail
      BY DEF Pdu, write_single_coil,
         write_single_register, write_multiple_coils, write_multiple_registers,
         mask_write_register, read_write_multiple_registers
  <2>. QED  BY <2>1 DEF Join
<1>3. /\ head \in Seq(Int) /\ Len(head) = 5
      /\ Field(head, 1, p.waddr) /\ Field(head, 3, p.wcnt) /\ head[5] = p.bytes
  <2>1. /\ head \in Seq(Int) /\ Len(head) = 5
        /\ head[1] = p.waddr \div 256 /\ head[2] = p.waddr % 256
        /\ head[3] = p.wcnt \div 256 /\ head[4] = p.wcnt % 256
        /\ head[5] = p.bytes
      BY <1>1 DEF Pair
  <2>. HIDE DEF head
  <2>. HIDE DEF head
  <2>. QED  BY <2>1 DEF Field
<1>4. tail \in Seq(Int) /\ Len(tail) = 2 * Len(p.vals)
    BY <1>1, RegisterBytes
<1>. HIDE DEF head, tail
<1>5. /\ Frame(p) \in Seq(Int) /\ Len(Frame(p)) = 8 + Len(head) + Len(tail)
      /\ Frame(p)[8] = p.fn
      /\ \A j \in 1 .. Len(head) : Frame(p)[8 + j] = head[j]
      /\ \A j \in 1 .. Len(tail) : Frame(p)[8 + Len(head) + j] = tail[j]
  <2>1. head \in Seq(Int) /\ tail \in Seq(Int) /\ p.fn \in Int
      BY <1>1, <1>3, <1>4
  <2>. QED  BY <2>1, <1>2, ValuesFrame, Zenon
<1>6. Len(Frame(p)) = 13 + (2 * Len(p.vals))
    BY <1>1, <1>3, <1>4, <1>5
<1>7. /\ Field(Frame(p), 9, p.waddr) /\ Field(Frame(p), 11, p.wcnt)
      /\ Frame(p)[13] = p.bytes
  <2>1. \A j \in 1 .. 5 : Frame(p)[8 + j] = head[j]
      BY <1>3, <1>5
  <2>2. /\ Frame(p)[9] = head[1] /\ Frame(p)[10] = head[2] /\ Frame(p)[11] = head[3]
        /\ Frame(p)[12] = head[4] /\ Frame(p)[13] = head[5]
      BY <2>1
  <2>. QED  BY <1>3, <2>2 DEF Field
<1>8. RegisterFields(Frame(p), 14, p.vals)
  <2>1. \A j \in 1 .. Len(Registers(p.vals)) :
           Frame(p)[8 + 5 + j] = Registers(p.vals)[j]
      BY <1>3, <1>5 DEF tail
  <2>0. 8 + 5 + Len(Registers(p.vals)) <= Len(Frame(p)) /\ Len(Frame(p)) \in Nat
      BY <1>3, <1>4, <1>5 DEF tail
  <2>2. RegisterFields(Frame(p), 9 + 5, p.vals)
      BY <1>1, <2>0, <2>1, RegistersLast
  <2>. QED  BY <2>2
<1>. QED  BY <1>5, <1>6, <1>7, <1>8

LEMMA ReadWriteFrame ==
    ASSUME NEW p \in Packet, p.fn \in {read_write_multiple_registers}
    PROVE  /\ Frame(p) \in Seq(Int) /\ Len(Frame(p)) = 17 + (2 * Len(p.vals))
           /\ Frame(p)[8] = p.fn
           /\ Field(Frame(p), 9, p.addr) /\ Field(Frame(p), 11, p.cnt)
           /\ Field(Frame(p), 13, p.waddr) /\ Field(Frame(p), 15, p.wcnt)
           /\ Frame(p)[17] = p.bytes
           /\ RegisterFields(Frame(p), 18, p.vals)
<1>. DEFINE head == Pair(p.addr) \o Pair(p.cnt) \o Pair(p.waddr) \o Pair(p.wcnt)
                        \o << p.bytes >>
            tail == Registers(p.vals)
<1>1. /\ p.addr \in Nat /\ p.cnt \in Nat /\ p.waddr \in Nat /\ p.wcnt \in Nat
      /\ p.bytes \in Int /\ p.fn \in Int /\ p.vals \in Seq(Register)
    BY Types
<1>2. Pdu(p) = Join(head, tail)
  <2>1. Pdu(p) = head \o tail
      BY DEF Pdu, write_single_coil,
         write_single_register, write_multiple_coils, write_multiple_registers,
         mask_write_register, read_write_multiple_registers
  <2>. QED  BY <2>1 DEF Join
<1>3. /\ head \in Seq(Int) /\ Len(head) = 9
      /\ Field(head, 1, p.addr) /\ Field(head, 3, p.cnt)
      /\ Field(head, 5, p.waddr) /\ Field(head, 7, p.wcnt) /\ head[9] = p.bytes
  <2>1. head \in Seq(Int) /\ Len(head) = 9
      BY <1>1 DEF Pair
  <2>2. /\ head[1] = p.addr \div 256 /\ head[2] = p.addr % 256
        /\ head[3] = p.cnt \div 256 /\ head[4] = p.cnt % 256
      BY <1>1 DEF Pair
  <2>3. /\ head[5] = p.waddr \div 256 /\ head[6] = p.waddr % 256
        /\ head[7] = p.wcnt \div 256 /\ head[8] = p.wcnt % 256
        /\ head[9] = p.bytes
      BY <1>1 DEF Pair
  <2>. HIDE DEF head
  <2>. QED  BY <2>1, <2>2, <2>3 DEF Field
<1>4. tail \in Seq(Int) /\ Len(tail) = 2 * Len(p.vals)
    BY <1>1, RegisterBytes
<1>. HIDE DEF head, tail
<1>5. /\ Frame(p) \in Seq(Int) /\ Len(Frame(p)) = 8 + Len(head) + Len(tail)
      /\ Frame(p)[8] = p.fn
      /\ \A j \in 1 .. Len(head) : Frame(p)[8 + j] = head[j]
      /\ \A j \in 1 .. Len(tail) : Frame(p)[8 + Len(head) + j] = tail[j]
  <2>1. head \in Seq(Int) /\ tail \in Seq(Int) /\ p.fn \in Int
      BY <1>1, <1>3, <1>4
  <2>. QED  BY <2>1, <1>2, ValuesFrame, Zenon
<1>6. Len(Frame(p)) = 17 + (2 * Len(p.vals))
    BY <1>1, <1>3, <1>4, <1>5
<1>7. /\ Field(Frame(p), 9, p.addr) /\ Field(Frame(p), 11, p.cnt)
      /\ Field(Frame(p), 13, p.waddr) /\ Field(Frame(p), 15, p.wcnt)
      /\ Frame(p)[17] = p.bytes
  <2>1. \A j \in 1 .. 9 : Frame(p)[8 + j] = head[j]
      BY <1>3, <1>5
  <2>2. /\ Frame(p)[9] = head[1] /\ Frame(p)[10] = head[2] /\ Frame(p)[11] = head[3]
        /\ Frame(p)[12] = head[4] /\ Frame(p)[13] = head[5] /\ Frame(p)[14] = head[6]
        /\ Frame(p)[15] = head[7] /\ Frame(p)[16] = head[8] /\ Frame(p)[17] = head[9]
      BY <2>1
  <2>. QED  BY <1>3, <2>2 DEF Field
<1>8. RegisterFields(Frame(p), 18, p.vals)
  <2>1. \A j \in 1 .. Len(Registers(p.vals)) :
           Frame(p)[8 + 9 + j] = Registers(p.vals)[j]
      BY <1>3, <1>5 DEF tail
  <2>0. 8 + 9 + Len(Registers(p.vals)) <= Len(Frame(p)) /\ Len(Frame(p)) \in Nat
      BY <1>3, <1>4, <1>5 DEF tail
  <2>2. RegisterFields(Frame(p), 9 + 9, p.vals)
      BY <1>1, <2>0, <2>1, RegistersLast
  <2>. QED  BY <2>2
<1>. QED  BY <1>5, <1>6, <1>7, <1>8
-----------------------------------------------------------------------------
(* What decode makes of a packet that starts with a frame.                 *)
Starts(packet, f) ==
    /\ packet \in Seq(Int) /\ f \in Seq(Int) /\ Len(f) <= Len(packet)
    /\ \A i \in 1 .. Len(f) : packet[i] = f[i]

LEMMA ByteRead ==
    ASSUME NEW packet, NEW f, Starts(packet, f), NEW junk,
           NEW at \in Nat, at < Len(f), NEW i, i = at + 1
    PROVE  Byte(packet, junk, at) = f[i]
<1>1. f \in Seq(Int) /\ packet \in Seq(Int) /\ Len(f) <= Len(packet)
    BY DEF Starts
<1>2. Len(f) \in Nat /\ Len(packet) \in Nat
    BY <1>1
<1>3. at < Len(packet) /\ i \in 1 .. Len(f)
    BY <1>1, <1>2
<1>4. packet[i] = f[i]
    BY <1>3 DEF Starts
<1>. QED  BY <1>3, <1>4 DEF Byte

LEMMA FieldRead ==
    ASSUME NEW packet, NEW f, Starts(packet, f), NEW junk,
           NEW at \in Nat, at + 2 <= Len(f), NEW i, i = at + 1,
           NEW n \in Number, Field(f, i, n)
    PROVE  Word(packet, junk, at) = n
<1>1. f \in Seq(Int) /\ Len(f) \in Nat
    BY DEF Starts
<1>2. at < Len(f) /\ at + 1 < Len(f) /\ at + 1 \in Nat
    BY <1>1
<1>3. Byte(packet, junk, at) = f[i] /\ Byte(packet, junk, at + 1) = f[i + 1]
    BY <1>2, ByteRead
<1>4. Word(packet, junk, at) = 256 * (n \div 256) + (n % 256)
    BY <1>3 DEF Word, Field
<1>. QED  BY <1>4, Halves

LEMMA RegisterRead ==
    ASSUME NEW packet, NEW f, Starts(packet, f), NEW junk,
           NEW at \in Nat, NEW i, i = at + 1,
           NEW vals, RegisterFields(f, i, vals),
           NEW k \in DOMAIN vals, NEW j, j = at + 2 * (k - 1)
    PROVE  BitsOf(Word(packet, junk, j), 16) = vals[k]
<1>1. /\ f \in Seq(Int) /\ Len(f) \in Nat
      /\ vals \in Seq(Register) /\ Len(vals) \in Nat
      /\ i + (2 * Len(vals)) - 1 <= Len(f)
  <2>1. f \in Seq(Int) /\ vals \in Seq(Register)
      BY DEF Starts, RegisterFields
  <2>2. i + (2 * Len(vals)) - 1 <= Len(f)
      BY DEF RegisterFields
  <2>. QED  BY <2>1, <2>2
<1>2. /\ k \in 1 .. Len(vals)
      /\ j \in Nat /\ j + 2 <= Len(f) /\ i + (2 * k) - 2 = j + 1
  <2>1. k \in 1 .. Len(vals)
      BY <1>1
  <2>2. k \in Nat /\ k >= 1 /\ k <= Len(vals)
      BY <1>1, <2>1
  <2>3. j \in Nat /\ i + (2 * k) - 2 = j + 1
      BY <2>2
  <2>4. j + 2 <= Len(f)
    <3>1. j + 2 = i - 1 + (2 * k)
        BY <2>2
    <3>2. 2 * k <= 2 * Len(vals)
        BY <1>1, <2>2
    <3>. QED  BY <1>1, <3>1, <3>2, SMTT(30)
  <2>. QED  BY <2>1, <2>3, <2>4
<1>3. vals[k] \in Register
    BY <1>1, <1>2
<1>4. NumberOf(vals[k]) \in Number /\ BitsOf(NumberOf(vals[k]), 16) = vals[k]
    BY <1>3, NumberOfWord
<1>5. Field(f, i + (2 * k) - 2, NumberOf(vals[k]))
    BY <1>2 DEF RegisterFields
<1>6. Word(packet, junk, j) = NumberOf(vals[k])
    BY <1>2, <1>4, <1>5, FieldRead
<1>. QED  BY <1>4, <1>6

LEMMA RegistersRead ==
    ASSUME NEW packet, NEW f, Starts(packet, f), NEW junk,
           NEW at \in Nat, NEW i, i = at + 1,
           NEW vals, RegisterFields(f, i, vals),
           NEW bytes, bytes = 2 * Len(vals)
    PROVE  RegistersFrom(packet, junk, at, bytes) = vals
<1>1. /\ f \in Seq(Int) /\ Len(f) \in Nat
      /\ vals \in Seq(Register) /\ Len(vals) \in Nat
      /\ i + (2 * Len(vals)) - 1 <= Len(f)
    BY DEF Starts, RegisterFields
<1>2. (bytes + 1) \div 2 = Len(vals)
    BY <1>1
<1>3. \A k \in DOMAIN vals :
         BitsOf(Word(packet, junk, at + 2 * (k - 1)), 16) = vals[k]
    BY RegisterRead
<1>4. RegistersFrom(packet, junk, at, bytes) = [k \in 1 .. Len(vals) |-> vals[k]]
    BY <1>1, <1>2, <1>3 DEF RegistersFrom
<1>5. vals = [k \in 1 .. Len(vals) |-> vals[k]]
    BY <1>1
<1>. QED  BY <1>4, <1>5

LEMMA DecodedRead ==
    ASSUME NEW p \in Packet, p.fn \in ReadFunction \ WriteFunction,
           NEW packet, Starts(packet, Frame(p)), NEW junk
    PROVE  Decoded(packet, junk) = p
<1>1. p.addr \in Number /\ p.cnt \in Number
    BY Fields
<1>2. /\ Len(Frame(p)) = 12 /\ Frame(p)[8] = p.fn
      /\ Field(Frame(p), 9, p.addr) /\ Field(Frame(p), 11, p.cnt)
    BY ReadFrame
<1>3. packet[header_length + 1] = p.fn
    BY <1>2 DEF Starts, header_length
<1>4. Word(packet, junk, 8) = p.addr /\ Word(packet, junk, 10) = p.cnt
  <2>1. /\ 8 \in Nat /\ 8 + 2 <= Len(Frame(p)) /\ 9 = 8 + 1
        /\ 10 \in Nat /\ 10 + 2 <= Len(Frame(p)) /\ 11 = 10 + 1
      BY <1>2
  <2>2. Word(packet, junk, 8) = p.addr
      BY <1>1, <1>2, <2>1, FieldRead
  <2>3. Word(packet, junk, 10) = p.cnt
      BY <1>1, <1>2, <2>1, FieldRead
  <2>. QED  BY <2>2, <2>3
<1>5. Decoded(packet, junk) =
        ReadPacket(p.fn, Word(packet, junk, 8), Word(packet, junk, 10))
    BY <1>3 DEF Decoded, ReadFunction, WriteFunction, read_coils,
         read_discrete_inputs, read_holding_registers, read_input_registers,
         write_single_coil, write_single_register,
         write_multiple_coils, write_multiple_registers, mask_write_register,
         read_write_multiple_registers
<1>6. p = ReadPacket(p.fn, p.addr, p.cnt)
    BY Kinds
<1>. QED  BY <1>4, <1>5, <1>6
LEMMA One ==
    ASSUME NEW vals \in Seq(Register), Len(vals) = 1
    PROVE  << vals[1] >> = vals
    OBVIOUS

LEMMA Two ==
    ASSUME NEW vals \in Seq(Register), Len(vals) = 2
    PROVE  << vals[1], vals[2] >> = vals
    OBVIOUS

LEMMA DecodedSingleCoil ==
    ASSUME NEW p \in Packet, p.fn \in {write_single_coil},
           NEW packet, Starts(packet, Frame(p)), NEW junk
    PROVE  Decoded(packet, junk) = p
<1>. DEFINE n == IF p.vals[1] = on THEN 65280 ELSE 0
<1>1. p.waddr \in Number /\ n \in Number /\ p.vals \in Seq(Register)
    BY Fields DEF Number
<1>2. /\ Len(Frame(p)) = 12 /\ Frame(p)[8] = p.fn
      /\ Field(Frame(p), 9, p.waddr) /\ Field(Frame(p), 11, n)
    BY SingleCoilFrame
<1>3. CoilValue(n) = p.vals[1]
  <2>1. p.vals[1] = off \/ p.vals[1] = on
      BY Kinds
  <2>. QED  BY <2>1 DEF CoilValue, on, off
<1>. HIDE DEF n
<1>4. Word(packet, junk, 8) = p.waddr /\ Word(packet, junk, 10) = n
  <2>1. /\ 8 \in Nat /\ 8 + 2 <= Len(Frame(p)) /\ 9 = 8 + 1
        /\ 10 \in Nat /\ 10 + 2 <= Len(Frame(p)) /\ 11 = 10 + 1
      BY <1>1, <1>2
  <2>2. Word(packet, junk, 8) = p.waddr
      BY <1>1, <1>2, <2>1, FieldRead
  <2>3. Word(packet, junk, 10) = n
    <3>1. n \in Number /\ Field(Frame(p), 11, n)
        BY <1>1, <1>2
    <3>. QED  BY <3>1, <2>1, FieldRead, SMTT(30)
  <2>. QED  BY <2>2, <2>3
<1>5. packet[header_length + 1] = p.fn
    BY <1>2 DEF Starts, header_length
<1>6. Decoded(packet, junk) =
        WritePacket(p.fn, Word(packet, junk, 8), 1,
                    << CoilValue(Word(packet, junk, 10)) >>, 0)
    BY <1>5 DEF Decoded, write_single_coil, write_single_register,
       write_multiple_coils, write_multiple_registers, mask_write_register,
       read_write_multiple_registers
<1>7. /\ p = WritePacket(p.fn, p.waddr, 1, p.vals, 0)
      /\ Len(p.vals) = 1
  <2>1. p.fn # mask_write_register
      BY DEF write_single_coil, mask_write_register
  <2>. QED  BY <2>1, Kinds
<1>8. << CoilValue(n) >> = p.vals
    BY <1>1, <1>3, <1>7, One
<1>. QED  BY <1>4, <1>6, <1>7, <1>8

LEMMA DecodedRegister ==
    ASSUME NEW p \in Packet, p.fn \in {write_single_register, mask_write_register},
           NEW packet, Starts(packet, Frame(p)), NEW junk
    PROVE  Decoded(packet, junk) = p
<1>1. p.waddr \in Number /\ p.vals \in Seq(Register)
    BY Fields
<1>2. /\ Len(Frame(p)) = 10 + (2 * Len(p.vals)) /\ Frame(p)[8] = p.fn
      /\ Field(Frame(p), 9, p.waddr) /\ RegisterFields(Frame(p), 11, p.vals)
    BY RegisterFrame
<1>3. /\ p = WritePacket(p.fn, p.waddr, 1, p.vals, 0)
      /\ Len(p.vals) = IF p.fn = mask_write_register THEN 2 ELSE 1
    BY Kinds
<1>4. Word(packet, junk, 8) = p.waddr
  <2>1. 8 \in Nat /\ 8 + 2 <= Len(Frame(p)) /\ 9 = 8 + 1
      BY <1>1, <1>2
  <2>. QED  BY <1>1, <1>2, <2>1, FieldRead
<1>5. ASSUME NEW k \in DOMAIN p.vals, NEW j, j = 10 + 2 * (k - 1)
      PROVE  BitsOf(Word(packet, junk, j), 16) = p.vals[k]
  <2>1. 10 \in Nat /\ 11 = 10 + 1
      OBVIOUS
  <2>. QED  BY <1>1, <1>2, <1>5, <2>1, RegisterRead
<1>6. packet[header_length + 1] = p.fn
  <2>1. 8 \in 1 .. Len(Frame(p)) /\ header_length + 1 = 8
      BY <1>1, <1>2 DEF header_length
  <2>. QED  BY <1>2, <2>1 DEF Starts
<1>7. CASE p.fn = write_single_register
  <2>1. Decoded(packet, junk) =
          WritePacket(p.fn, Word(packet, junk, 8), 1,
                      << BitsOf(Word(packet, junk, 10), 16) >>, 0)
      BY <1>6, <1>7 DEF Decoded, write_single_coil, write_single_register,
       write_multiple_coils, write_multiple_registers, mask_write_register,
       read_write_multiple_registers
  <2>2. Len(p.vals) = 1
      BY <1>3, <1>7 DEF write_single_register, mask_write_register
  <2>3. BitsOf(Word(packet, junk, 10), 16) = p.vals[1]
    <3>1. 1 \in DOMAIN p.vals /\ 10 = 10 + 2 * (1 - 1)
        BY <1>1, <2>2
    <3>. QED  BY <1>5, <3>1
  <2>4. << BitsOf(Word(packet, junk, 10), 16) >> = p.vals
      BY <1>1, <2>2, <2>3, One
  <2>. QED  BY <1>3, <1>4, <2>1, <2>4
<1>8. CASE p.fn = mask_write_register
  <2>1. Decoded(packet, junk) =
          WritePacket(p.fn, Word(packet, junk, 8), 1,
                      << BitsOf(Word(packet, junk, 10), 16),
                         BitsOf(Word(packet, junk, 12), 16) >>, 0)
      BY <1>6, <1>8 DEF Decoded, write_single_coil, write_single_register,
       write_multiple_coils, write_multiple_registers, mask_write_register,
       read_write_multiple_registers
  <2>2. Len(p.vals) = 2
      BY <1>3, <1>8
  <2>3. /\ BitsOf(Word(packet, junk, 10), 16) = p.vals[1]
        /\ BitsOf(Word(packet, junk, 12), 16) = p.vals[2]
    <3>1. /\ 1 \in DOMAIN p.vals /\ 10 = 10 + 2 * (1 - 1)
          /\ 2 \in DOMAIN p.vals /\ 12 = 10 + 2 * (2 - 1)
        BY <1>1, <2>2
    <3>. QED  BY <1>5, <3>1
  <2>4. << BitsOf(Word(packet, junk, 10), 16),
           BitsOf(Word(packet, junk, 12), 16) >> = p.vals
      BY <1>1, <2>2, <2>3, Two
  <2>. QED  BY <1>3, <1>4, <2>1, <2>4
<1>. QED  BY <1>7, <1>8

LEMMA DecodedMultipleRegisters ==
    ASSUME NEW p \in Packet, p.fn \in {write_multiple_registers},
           NEW packet, Starts(packet, Frame(p)), NEW junk
    PROVE  Decoded(packet, junk) = p
<1>1. p.waddr \in Number /\ p.wcnt \in Number /\ p.vals \in Seq(Register)
    BY Fields
<1>2. /\ Len(Frame(p)) = 13 + (2 * Len(p.vals)) /\ Frame(p)[8] = p.fn
      /\ Field(Frame(p), 9, p.waddr) /\ Field(Frame(p), 11, p.wcnt)
      /\ Frame(p)[13] = p.bytes /\ RegisterFields(Frame(p), 14, p.vals)
    BY MultipleRegistersFrame
<1>3. p = WritePacket(p.fn, p.waddr, Len(p.vals), p.vals, 2 * Len(p.vals))
    BY Kinds
<1>4. p.wcnt = Len(p.vals) /\ p.bytes = 2 * Len(p.vals)
    BY <1>3 DEF WritePacket
<1>5. Word(packet, junk, 8) = p.waddr /\ Word(packet, junk, 10) = p.wcnt
  <2>1. /\ 8 \in Nat /\ 8 + 2 <= Len(Frame(p)) /\ 9 = 8 + 1
        /\ 10 \in Nat /\ 10 + 2 <= Len(Frame(p)) /\ 11 = 10 + 1
      BY <1>1, <1>2
  <2>2. Word(packet, junk, 8) = p.waddr
      BY <1>1, <1>2, <2>1, FieldRead
  <2>3. Word(packet, junk, 10) = p.wcnt
      BY <1>1, <1>2, <2>1, FieldRead
  <2>. QED  BY <2>2, <2>3
<1>6. Byte(packet, junk, 12) = p.bytes
  <2>1. 12 \in Nat /\ 12 < Len(Frame(p)) /\ 13 = 12 + 1
      BY <1>1, <1>2
  <2>2. Byte(packet, junk, 12) = Frame(p)[13]
      BY <2>1, ByteRead
  <2>. QED  BY <1>2, <2>2
<1>7. RegistersFrom(packet, junk, 13, p.bytes) = p.vals
  <2>1. 13 \in Nat /\ 14 = 13 + 1
      OBVIOUS
  <2>. QED  BY <1>1, <1>2, <1>4, <2>1, RegistersRead
<1>8. packet[header_length + 1] = p.fn
  <2>1. 8 \in 1 .. Len(Frame(p)) /\ header_length + 1 = 8
      BY <1>1, <1>2 DEF header_length
  <2>. QED  BY <1>2, <2>1 DEF Starts
<1>9. Decoded(packet, junk) =
        WritePacket(p.fn, Word(packet, junk, 8), Word(packet, junk, 10),
                    RegistersFrom(packet, junk, 13, Byte(packet, junk, 12)),
                    Byte(packet, junk, 12))
    BY <1>8 DEF Decoded, write_single_coil, write_single_register,
       write_multiple_coils, write_multiple_registers, mask_write_register,
       read_write_multiple_registers
<1>10. RegistersFrom(packet, junk, 13, Byte(packet, junk, 12)) = p.vals
    BY <1>6, <1>7
<1>. QED  BY <1>3, <1>4, <1>5, <1>6, <1>9, <1>10

LEMMA DecodedReadWrite ==
    ASSUME NEW p \in Packet, p.fn \in {read_write_multiple_registers},
           NEW packet, Starts(packet, Frame(p)), NEW junk
    PROVE  Decoded(packet, junk) = p
<1>1. /\ p.addr \in Number /\ p.cnt \in Number
      /\ p.waddr \in Number /\ p.wcnt \in Number /\ p.vals \in Seq(Register)
    BY Fields
<1>2. /\ Len(Frame(p)) = 17 + (2 * Len(p.vals)) /\ Frame(p)[8] = p.fn
      /\ Field(Frame(p), 9, p.addr) /\ Field(Frame(p), 11, p.cnt)
      /\ Field(Frame(p), 13, p.waddr) /\ Field(Frame(p), 15, p.wcnt)
      /\ Frame(p)[17] = p.bytes /\ RegisterFields(Frame(p), 18, p.vals)
    BY ReadWriteFrame
<1>3. p = ReadWritePacket(p.addr, p.cnt, p.waddr, Len(p.vals), p.vals,
                          2 * Len(p.vals))
    BY Kinds
<1>4. p.wcnt = Len(p.vals) /\ p.bytes = 2 * Len(p.vals)
    BY <1>3 DEF ReadWritePacket
<1>5. /\ Word(packet, junk, 8) = p.addr /\ Word(packet, junk, 10) = p.cnt
      /\ Word(packet, junk, 12) = p.waddr /\ Word(packet, junk, 14) = p.wcnt
  <2>1. /\ 8 \in Nat /\ 8 + 2 <= Len(Frame(p)) /\ 9 = 8 + 1
        /\ 10 \in Nat /\ 10 + 2 <= Len(Frame(p)) /\ 11 = 10 + 1
        /\ 12 \in Nat /\ 12 + 2 <= Len(Frame(p)) /\ 13 = 12 + 1
        /\ 14 \in Nat /\ 14 + 2 <= Len(Frame(p)) /\ 15 = 14 + 1
      BY <1>1, <1>2
  <2>2. Word(packet, junk, 8) = p.addr
      BY <1>1, <1>2, <2>1, FieldRead
  <2>3. Word(packet, junk, 10) = p.cnt
      BY <1>1, <1>2, <2>1, FieldRead
  <2>4. Word(packet, junk, 12) = p.waddr
      BY <1>1, <1>2, <2>1, FieldRead
  <2>5. Word(packet, junk, 14) = p.wcnt
      BY <1>1, <1>2, <2>1, FieldRead
  <2>. QED  BY <2>2, <2>3, <2>4, <2>5
<1>6. Byte(packet, junk, 16) = p.bytes
  <2>1. 16 \in Nat /\ 16 < Len(Frame(p)) /\ 17 = 16 + 1
      BY <1>1, <1>2
  <2>2. Byte(packet, junk, 16) = Frame(p)[17]
      BY <2>1, ByteRead
  <2>. QED  BY <1>2, <2>2
<1>7. RegistersFrom(packet, junk, 17, p.bytes) = p.vals
  <2>1. 17 \in Nat /\ 18 = 17 + 1
      OBVIOUS
  <2>. QED  BY <1>1, <1>2, <1>4, <2>1, RegistersRead
<1>8. packet[header_length + 1] = p.fn
  <2>1. 8 \in 1 .. Len(Frame(p)) /\ header_length + 1 = 8
      BY <1>1, <1>2 DEF header_length
  <2>. QED  BY <1>2, <2>1 DEF Starts
<1>9. Decoded(packet, junk) =
        ReadWritePacket(Word(packet, junk, 8), Word(packet, junk, 10),
                        Word(packet, junk, 12), Word(packet, junk, 14),
                        RegistersFrom(packet, junk, 17, Byte(packet, junk, 16)),
                        Byte(packet, junk, 16))
    BY <1>8 DEF Decoded, write_single_coil, write_single_register,
       write_multiple_coils, write_multiple_registers, mask_write_register,
       read_write_multiple_registers
<1>10. RegistersFrom(packet, junk, 17, Byte(packet, junk, 16)) = p.vals
    BY <1>6, <1>7
<1>. QED  BY <1>3, <1>4, <1>5, <1>6, <1>9, <1>10
LEMMA Sizes == \A n \in Nat : PackedSize(n) \in Nat
    BY DEF PackedSize

(* The byte and the bit of the k-th of n coils.                            *)
LEMMA Place ==
    ASSUME NEW n \in Nat, NEW k \in 1 .. n
    PROVE  /\ ((k - 1) \div 8) + 1 \in 1 .. PackedSize(n)
           /\ (k - 1) % 8 \in 0 .. 7
           /\ k = 8 * ((((k - 1) \div 8) + 1) - 1) + ((k - 1) % 8) + 1
<1>1. PICK c \in Nat : c = k - 1 /\ c < n /\ k = c + 1
    OBVIOUS
<1>2. c \div 8 \in Nat /\ c % 8 \in 0 .. 7 /\ c = 8 * (c \div 8) + (c % 8)
    OBVIOUS
<1>3. PackedSize(n) \in Nat /\ (c \div 8) + 1 <= PackedSize(n)
    BY <1>1 DEF PackedSize
<1>4. ((c \div 8) + 1) - 1 = c \div 8 /\ (c \div 8) + 1 \in 1 .. PackedSize(n)
    BY <1>2, <1>3
<1>. QED  BY <1>1, <1>2, <1>4

(* m bytes of which the first hold some coils.                             *)
Hold(bytes, m, vals) ==
    /\ vals \in Seq({off, on}) /\ m \in Nat
    /\ bytes \in [1 .. m -> SUBSET (0 .. 7)] /\ m >= PackedSize(Len(vals))
    /\ \A j \in 1 .. PackedSize(Len(vals)) : bytes[j] = PackedBits(vals, Len(vals))[j]

(* A coil is back in its place when its byte has been unpacked.            *)
LEMMA CoilsBack ==
    ASSUME NEW vals, NEW bytes, NEW m, Hold(bytes, m, vals), NEW k \in DOMAIN vals
    PROVE  k <= Len(UnpackedBits(bytes)) /\ UnpackedBits(bytes)[k] = vals[k]
<1>0. /\ vals \in Seq({off, on}) /\ m \in Nat
      /\ bytes \in [1 .. m -> SUBSET (0 .. 7)]
    BY DEF Hold
<1>1. PICK n \in Nat : n = Len(vals) /\ k \in 1 .. n
    BY <1>0
<1>10. /\ m >= PackedSize(n)
       /\ \A j \in 1 .. PackedSize(n) : bytes[j] = PackedBits(vals, n)[j]
    BY <1>1 DEF Hold
<1>2. PICK j \in Nat, i \in 0 .. 7 :
        /\ j = ((k - 1) \div 8) + 1 /\ i = (k - 1) % 8
        /\ j \in 1 .. PackedSize(n) /\ k = 8 * (j - 1) + i + 1
  <2>1. PackedSize(n) \in Nat
      BY Sizes
  <2>2. ((k - 1) \div 8) + 1 \in Nat
      BY <1>1, <2>1, Place
  <2>. QED  BY <1>1, <2>2, Place
<1>3. j \in 1 .. PackedSize(n) /\ k <= 8 * m /\ 8 * (j - 1) + i < n
  <2>1. PackedSize(n) \in Nat
      BY Sizes
  <2>2. 8 * (j - 1) + i < n
      BY <1>1, <1>2
  <2>3. j <= m
      BY <1>0, <1>10, <1>2, <2>1
  <2>4. k <= 8 * m
    <3>1. m \in Nat /\ k = 8 * (j - 1) + i + 1
        BY <1>0, <1>2
    <3>. QED  BY <2>3, <3>1
  <2>. QED  BY <1>2, <2>2, <2>4
<1>4. Len(bytes) = m
    BY <1>0
<1>5. UnpackedBits(bytes)[k] = IF i \in bytes[j] THEN {0} ELSE {}
    BY <1>0, <1>1, <1>2, <1>3, <1>4 DEF UnpackedBits
<1>6. Len(UnpackedBits(bytes)) = 8 * m
  <2>1. UnpackedBits(bytes) \in [1 .. 8 * m -> {{0}, {}}]
      BY <1>4 DEF UnpackedBits
  <2>2. 8 * m \in Nat
      BY <1>0
  <2>. QED  BY <2>1, <2>2
<1>7. bytes[j] = {b \in 0 .. 7 : 8 * (j - 1) + b < n /\ vals[8 * (j - 1) + b + 1] = {0}}
    BY <1>10, <1>3 DEF PackedBits
<1>8. i \in bytes[j] <=> vals[k] = {0}
    BY <1>2, <1>3, <1>7
<1>9. vals[k] = {} \/ vals[k] = {0}
    BY <1>0, <1>1 DEF off, on
<1>. QED  BY <1>1, <1>3, <1>5, <1>6, <1>8, <1>9

LEMMA DecodedCoils ==
    ASSUME NEW p \in Packet, p.fn \in {write_multiple_coils},
           NEW packet, Starts(packet, Frame(p)), NEW junk,
           NEW q, q = Decoded(packet, junk)
    PROVE  /\ q.fn = p.fn /\ q.waddr = p.waddr /\ q.wcnt = p.wcnt
           /\ p.wcnt = Len(p.vals)
           /\ \A k \in 1 .. p.wcnt : k <= Len(q.vals) /\ q.vals[k] = p.vals[k]
<1>1. p.waddr \in Number /\ p.wcnt \in Number
    BY Fields
<1>2. /\ Frame(p) \in Seq(Int) /\ Len(Frame(p)) = 13 + PackedSize(Len(p.vals))
      /\ Frame(p)[8] = p.fn
      /\ Field(Frame(p), 9, p.waddr) /\ Field(Frame(p), 11, p.wcnt)
      /\ \A j \in 1 .. PackedSize(Len(p.vals)) :
           BitsOf(Frame(p)[13 + j], 8) = PackedBits(p.vals, Len(p.vals))[j]
    BY MultipleCoilsFrame
<1>3. p.vals \in Seq({off, on}) /\ Len(p.vals) \in Nat
    BY Kinds
<1>4. p.wcnt = Len(p.vals)
    BY Kinds DEF WritePacket
<1>5. PackedSize(Len(p.vals)) \in Nat
    BY <1>3, Sizes
<1>6. Word(packet, junk, 8) = p.waddr /\ Word(packet, junk, 10) = p.wcnt
  <2>1. /\ 8 \in Nat /\ 8 + 2 <= Len(Frame(p)) /\ 9 = 8 + 1
        /\ 10 \in Nat /\ 10 + 2 <= Len(Frame(p)) /\ 11 = 10 + 1
      BY <1>2, <1>5
  <2>2. Word(packet, junk, 8) = p.waddr
      BY <1>1, <1>2, <2>1, FieldRead
  <2>3. Word(packet, junk, 10) = p.wcnt
      BY <1>1, <1>2, <2>1, FieldRead
  <2>. QED  BY <2>2, <2>3
<1>7. packet[header_length + 1] = p.fn
  <2>1. 8 \in 1 .. Len(Frame(p)) /\ header_length + 1 = 8
      BY <1>2, <1>5 DEF header_length
  <2>. QED  BY <1>2, <2>1 DEF Starts
<1>8. q = WritePacket(p.fn, Word(packet, junk, 8), Word(packet, junk, 10),
                      CoilsFrom(packet, 13), Byte(packet, junk, 12))
    BY <1>7 DEF Decoded, write_single_coil, write_single_register,
       write_multiple_coils, write_multiple_registers, mask_write_register,
       read_write_multiple_registers
<1>. DEFINE m == Len(packet) - 13
            bytes == [j \in 1 .. m |-> BitsOf(packet[13 + j], 8)]
<1>9. m \in Nat /\ m >= PackedSize(Len(p.vals)) /\ packet \in Seq(Int)
  <2>1. Len(Frame(p)) = 13 + PackedSize(Len(p.vals))
      BY <1>2
  <2>2. packet \in Seq(Int) /\ Len(Frame(p)) <= Len(packet)
      BY DEF Starts
  <2>3. Len(packet) \in Nat
      BY <2>2
  <2>. QED  BY <1>5, <2>1, <2>2, <2>3
<1>10. bytes \in [1 .. m -> SUBSET (0 .. 7)]
    BY DEF BitsOf
<1>11. ASSUME NEW j \in 1 .. PackedSize(Len(p.vals))
       PROVE  bytes[j] = PackedBits(p.vals, Len(p.vals))[j]
  <2>1. j \in 1 .. m /\ 13 + j \in 1 .. Len(Frame(p))
    <3>1. PICK n \in Nat : n = PackedSize(Len(p.vals))
        BY <1>5
    <3>2. j \in 1 .. n /\ m >= n /\ m \in Nat /\ Len(Frame(p)) = 13 + n
        BY <1>2, <1>9, <3>1
    <3>. HIDE DEF m
    <3>. QED  BY <3>2
  <2>2. packet[13 + j] = Frame(p)[13 + j]
      BY <2>1 DEF Starts
  <2>. QED  BY <1>2, <2>1, <2>2
<1>12. q.vals = UnpackedBits(bytes)
    BY <1>8 DEF CoilsFrom, WritePacket
<1>13. q.fn = p.fn /\ q.waddr = p.waddr /\ q.wcnt = p.wcnt
    BY <1>6, <1>8 DEF WritePacket
<1>. HIDE DEF bytes, m
<1>14. Hold(bytes, m, p.vals)
    BY <1>3, <1>9, <1>10, <1>11 DEF Hold
<1>15. ASSUME NEW k \in 1 .. Len(p.vals)
       PROVE  k <= Len(q.vals) /\ q.vals[k] = p.vals[k]
  <2>1. k \in DOMAIN p.vals
      BY <1>3
  <2>. QED  BY <1>12, <1>14, <2>1, CoilsBack
<1>. QED  BY <1>4, <1>13, <1>15
-----------------------------------------------------------------------------
(* What a packet makes of the table.                                       *)

LEMMA SameCoils ==
    ASSUME NEW p, p.fn = write_multiple_coils, p.waddr \in Nat, p.wcnt \in Nat,
           Start[coils] \in Nat, p.wcnt = Len(p.vals), NEW q,
           q.fn = p.fn, q.waddr = p.waddr, q.wcnt = p.wcnt,
           \A k \in 1 .. p.wcnt : k <= Len(q.vals) /\ q.vals[k] = p.vals[k],
           NEW t
    PROVE  TableAfter(t, q) = TableAfter(t, p)
<1>1. BlockOf(p.fn) = coils /\ BlockOf(q.fn) = coils
    BY DEF BlockOf, read_coils, write_single_coil, write_multiple_coils,
       read_discrete_inputs, read_input_registers
<1>2. Verdict(q) = Verdict(p)
    BY DEF Verdict, Decodes, Executes, WriteInRange, ReadFunction, WriteFunction,
       Supported, read_coils, read_discrete_inputs, read_holding_registers,
       read_input_registers, write_single_coil, write_single_register,
       write_multiple_coils, write_multiple_registers, mask_write_register,
       read_write_multiple_registers
<1>3. WriteSpan(q) = WriteSpan(p)
    BY DEF WriteSpan
<1>4. ASSUME NEW c \in WriteSpan(p), NEW word
      PROVE  NewWord(q, c, word) = NewWord(p, c, word)
  <2>1. PICK i \in Int : i = Index(coils, p.waddr)
      BY DEF Index
  <2>2. c \in i .. (i + p.wcnt) - 1
      BY <1>1, <2>1 DEF WriteSpan, Span, WriteFunction
  <2>3. (c - i) + 1 \in 1 .. p.wcnt
      BY <2>2
  <2>4. p.fn # mask_write_register
      BY DEF write_multiple_coils, mask_write_register
  <2>5. PICK k \in 1 .. p.wcnt : k = (c - i) + 1
      BY <2>3
  <2>6. NewWord(q, c, word) = IF k <= Len(q.vals) THEN q.vals[k] ELSE off
      BY <1>1, <2>1, <2>4, <2>5 DEF NewWord, Index
  <2>7. NewWord(p, c, word) = IF k <= Len(p.vals) THEN p.vals[k] ELSE off
      BY <1>1, <2>1, <2>4, <2>5 DEF NewWord
  <2>8. k <= Len(p.vals)
      BY <2>5
  <2>. QED  BY <2>6, <2>7, <2>8
<1>5. Effect(t, q) = Effect(t, p)
    BY <1>3, <1>4 DEF Effect
<1>. QED  BY <1>2, <1>5 DEF TableAfter

(* The decoders give back what encode was given: a packet that starts with *)
(* the frame of a request does what the request does, whatever follows.    *)
LEMMA FrameUnderstood ==
    ASSUME NEW p \in Packet, NEW packet, Starts(packet, Frame(p)), NEW junk, NEW t
    PROVE  TableAfter(t, Decoded(packet, junk)) = TableAfter(t, p)
<1>1. \/ p.fn \in ReadFunction \ WriteFunction
      \/ p.fn \in {write_single_coil}
      \/ p.fn \in {write_single_register, mask_write_register}
      \/ p.fn \in {write_multiple_registers}
      \/ p.fn \in {read_write_multiple_registers}
      \/ p.fn \in {write_multiple_coils}
    BY Fields DEF Supported, WriteFunction
<1>2. CASE p.fn \in {write_multiple_coils}
  <2>1. PICK q : q = Decoded(packet, junk)
      OBVIOUS
  <2>2. /\ q.fn = p.fn /\ q.waddr = p.waddr /\ q.wcnt = p.wcnt
        /\ p.wcnt = Len(p.vals)
        /\ \A k \in 1 .. p.wcnt : k <= Len(q.vals) /\ q.vals[k] = p.vals[k]
      BY <1>2, <2>1, DecodedCoils
  <2>3. p.waddr \in Nat /\ p.wcnt \in Nat /\ Start[coils] \in Nat
      BY Types, FramingAssumption, DataBlockAssumption
  <2>. QED  BY <1>2, <2>1, <2>2, <2>3, SameCoils
<1>3. CASE p.fn \notin {write_multiple_coils}
  <2>1. Decoded(packet, junk) = p
      BY <1>1, <1>3, DecodedRead, DecodedSingleCoil, DecodedRegister,
         DecodedMultipleRegisters, DecodedReadWrite
  <2>. QED  BY <2>1
<1>. QED  BY <1>2, <1>3

(* The types of a table's cells.                                           *)
TableOK(t) == DOMAIN t = Block /\ \A b \in Block : t[b] \in [Cell(b) -> Value[b]]

LEMMA AnySequence ==
    ASSUME NEW S, NEW m \in Int, NEW f \in [1 .. m -> S]
    PROVE  f \in Seq(S)
<1>1. CASE m \in Nat
    BY <1>1
<1>2. CASE m \notin Nat
  <2>1. 1 .. m = 1 .. 0
      BY <1>2
  <2>. QED  BY <2>1
<1>. QED  BY <1>1, <1>2

LEMMA WordBits == \A n : BitsOf(n, 16) \in Register
    BY DEF BitsOf, Register

LEMMA ByteIsNumber ==
    ASSUME NEW packet \in Seq(Int), NEW junk \in [0 .. 1 -> Junk], NEW i \in Nat
    PROVE  Byte(packet, junk, i) \in Int
<1>1. i % 2 \in 0 .. 1 /\ i + 1 \in Nat
    OBVIOUS
<1>2. junk[i % 2] \in Int
  <2>1. junk[i % 2] \in Junk /\ Junk \subseteq 0 .. 255
      BY <1>1, FramingAssumption
  <2>2. 0 .. 255 \subseteq Int
      OBVIOUS
  <2>. QED  BY <2>1, <2>2
<1>3. i < Len(packet) => packet[i + 1] \in Int
    BY <1>1
<1>. QED  BY <1>2, <1>3 DEF Byte

(* What the values of a request are, whatever packet they are read from.   *)
LEMMA ReadingFits ==
    ASSUME NEW packet \in Seq(Int), NEW junk \in [0 .. 1 -> Junk],
           NEW q, q = Decoded(packet, junk)
    PROVE  /\ q.fn = packet[8]
           /\ q.fn \in {write_single_coil, write_multiple_coils} /\ Decodes(q) =>
                q.vals \in Seq({off, on})
           /\ q.fn \in {write_single_register, mask_write_register,
                         write_multiple_registers, read_write_multiple_registers} =>
                q.vals \in Seq(Register)
           /\ q.fn = mask_write_register => Len(q.vals) = 2
<1>1. \A i \in Nat : Byte(packet, junk, i) \in Int
    BY ByteIsNumber
<1>2. ASSUME NEW i \in Nat, NEW bytes \in Int
      PROVE  RegistersFrom(packet, junk, i, bytes) \in Seq(Register)
  <2>1. (bytes + 1) \div 2 \in Int
      OBVIOUS
  <2>2. RegistersFrom(packet, junk, i, bytes)
          \in [1 .. ((bytes + 1) \div 2) -> Register]
      BY WordBits DEF RegistersFrom
  <2>. QED  BY <2>1, <2>2, AnySequence
<1>3. CoilsFrom(packet, 13) \in Seq({off, on})
  <2>. DEFINE m == Len(packet) - 13
              bytes == [j \in 1 .. m |-> BitsOf(packet[13 + j], 8)]
  <2>1. m \in Int
      OBVIOUS
  <2>2. bytes \in [1 .. m -> SUBSET (0 .. 7)]
      BY DEF BitsOf
  <2>. HIDE DEF m, bytes
  <2>3. bytes \in Seq(SUBSET (0 .. 7))
      BY <2>1, <2>2, AnySequence
  <2>4. 8 * Len(bytes) \in Int
      BY <2>3
  <2>5. UnpackedBits(bytes) \in [1 .. 8 * Len(bytes) -> {off, on}]
      BY DEF UnpackedBits, off, on
  <2>6. UnpackedBits(bytes) \in Seq({off, on})
      BY <2>4, <2>5, AnySequence
  <2>. QED  BY <2>6 DEF CoilsFrom, bytes, m
<1>4. header_length + 1 = 8
    BY DEF header_length
<1>5. CASE packet[8] = write_single_coil
  <2>1. /\ q.fn = write_single_coil
        /\ q.vals = << CoilValue(Word(packet, junk, 10)) >>
      BY <1>4, <1>5 DEF Decoded, write_single_coil, write_single_register,
       write_multiple_coils, write_multiple_registers, mask_write_register,
       read_write_multiple_registers, WritePacket
  <2>2. Decodes(q) => q.vals[1] \in {off, on}
      BY <2>1 DEF Decodes
  <2>3. Decodes(q) => q.vals \in Seq({off, on})
      BY <2>1, <2>2
  <2>. QED  BY <1>5, <2>1, <2>3 DEF write_single_coil, write_single_register, write_multiple_coils,
         write_multiple_registers, mask_write_register,
         read_write_multiple_registers
<1>6. CASE packet[8] = write_multiple_coils
  <2>1. q.fn = write_multiple_coils /\ q.vals = CoilsFrom(packet, 13)
      BY <1>4, <1>6 DEF Decoded, write_single_coil, write_single_register,
       write_multiple_coils, write_multiple_registers, mask_write_register,
       read_write_multiple_registers, WritePacket
  <2>. QED  BY <1>3, <1>6, <2>1 DEF write_single_coil, write_single_register, write_multiple_coils,
         write_multiple_registers, mask_write_register,
         read_write_multiple_registers
<1>7. CASE packet[8] = write_single_register
  <2>1. /\ q.fn = write_single_register
        /\ q.vals = << BitsOf(Word(packet, junk, 10), 16) >>
      BY <1>4, <1>7 DEF Decoded, write_single_coil, write_single_register,
       write_multiple_coils, write_multiple_registers, mask_write_register,
       read_write_multiple_registers, WritePacket
  <2>2. q.vals \in Seq(Register)
      BY <2>1, WordBits
  <2>. QED  BY <1>7, <2>1, <2>2 DEF write_single_coil, write_single_register, write_multiple_coils,
         write_multiple_registers, mask_write_register,
         read_write_multiple_registers
<1>8. CASE packet[8] = mask_write_register
  <2>1. /\ q.fn = mask_write_register
        /\ q.vals = << BitsOf(Word(packet, junk, 10), 16),
                       BitsOf(Word(packet, junk, 12), 16) >>
      BY <1>4, <1>8 DEF Decoded, write_single_coil, write_single_register,
       write_multiple_coils, write_multiple_registers, mask_write_register,
       read_write_multiple_registers, WritePacket
  <2>2. q.vals \in Seq(Register) /\ Len(q.vals) = 2
      BY <2>1, WordBits
  <2>. QED  BY <1>8, <2>1, <2>2 DEF write_single_coil, write_single_register, write_multiple_coils,
         write_multiple_registers, mask_write_register,
         read_write_multiple_registers
<1>9. CASE packet[8] = write_multiple_registers
  <2>1. /\ q.fn = write_multiple_registers
        /\ q.vals = RegistersFrom(packet, junk, 13, Byte(packet, junk, 12))
      BY <1>4, <1>9 DEF Decoded, write_single_coil, write_single_register,
       write_multiple_coils, write_multiple_registers, mask_write_register,
       read_write_multiple_registers, WritePacket
  <2>2. q.vals \in Seq(Register)
      BY <1>1, <1>2, <2>1
  <2>. QED  BY <1>9, <2>1, <2>2 DEF write_single_coil, write_single_register, write_multiple_coils,
         write_multiple_registers, mask_write_register,
         read_write_multiple_registers
<1>10. CASE packet[8] = read_write_multiple_registers
  <2>1. /\ q.fn = read_write_multiple_registers
        /\ q.vals = RegistersFrom(packet, junk, 17, Byte(packet, junk, 16))
      BY <1>4, <1>10 DEF Decoded, write_single_coil, write_single_register,
       write_multiple_coils, write_multiple_registers, mask_write_register,
       read_write_multiple_registers, ReadWritePacket
  <2>2. q.vals \in Seq(Register)
      BY <1>1, <1>2, <2>1
  <2>. QED  BY <1>10, <2>1, <2>2 DEF write_single_coil, write_single_register, write_multiple_coils,
         write_multiple_registers, mask_write_register,
         read_write_multiple_registers
<1>11. CASE packet[8] \notin {write_single_coil, write_multiple_coils,
              write_single_register, mask_write_register,
              write_multiple_registers, read_write_multiple_registers}
  <2>1. q.fn = packet[8]
      BY <1>4, <1>11 DEF Decoded, ReadPacket
  <2>. QED  BY <1>11, <2>1
<1>. QED  BY <1>5, <1>6, <1>7, <1>8, <1>9, <1>10, <1>11

(* The values a request writes are values of the cells it writes.          *)
LEMMA NewWordFits ==
    ASSUME NEW packet \in Seq(Int), NEW junk \in [0 .. 1 -> Junk],
           NEW q, q = Decoded(packet, junk), Decodes(q), q.fn \in WriteFunction,
           NEW k \in Int, k >= 1,
           NEW word \in Value[BlockOf(q.fn)]
    PROVE  (IF q.fn = mask_write_register THEN Masked(word, q)
            ELSE IF k <= Len(q.vals) THEN q.vals[k] ELSE off)
              \in Value[BlockOf(q.fn)]
<1>1. Value[coils] = {off, on} /\ Value[holding_registers] = Register
    BY FramingAssumption
<1>2. off \in {off, on} /\ off \in Register
    BY DEF off, Register
<1>3. CASE q.fn \in {write_single_coil, write_multiple_coils}
  <2>1. q.vals \in Seq({off, on})
      BY <1>3, ReadingFits
  <2>2. BlockOf(q.fn) = coils /\ q.fn # mask_write_register
      BY <1>3 DEF BlockOf, read_coils, write_single_coil, write_multiple_coils,
         mask_write_register, read_discrete_inputs, read_input_registers
  <2>3. k <= Len(q.vals) => q.vals[k] \in {off, on}
      BY <2>1
  <2>. QED  BY <1>1, <1>2, <2>2, <2>3
<1>4. CASE q.fn \in {write_single_register, mask_write_register,
                     write_multiple_registers, read_write_multiple_registers}
  <2>1. q.vals \in Seq(Register) /\ (q.fn = mask_write_register => Len(q.vals) = 2)
      BY <1>4, ReadingFits
  <2>2. BlockOf(q.fn) = holding_registers
      BY <1>4 DEF BlockOf, read_coils, write_single_coil, write_multiple_coils,
         write_single_register, mask_write_register, write_multiple_registers,
         read_write_multiple_registers, read_discrete_inputs, read_input_registers
  <2>3. k <= Len(q.vals) => q.vals[k] \in Register
      BY <2>1
  <2>4. q.fn = mask_write_register => Masked(word, q) \in Register
    <3>1. SUFFICES ASSUME q.fn = mask_write_register
                   PROVE  Masked(word, q) \in Register
        OBVIOUS
    <3>2. q.vals[1] \in Register /\ q.vals[2] \in Register
        BY <2>1, <3>1
    <3>3. word \in Register
        BY <1>1, <2>2
    <3>. QED  BY <3>2, <3>3 DEF Masked, Register
  <2>. QED  BY <1>1, <1>2, <2>2, <2>3, <2>4
<1>. QED  BY <1>3, <1>4 DEF WriteFunction

(* The write range of a request is two numbers.                            *)
LEMMA RangeRead ==
    ASSUME NEW packet \in Seq(Int), NEW junk \in [0 .. 1 -> Junk],
           NEW q, q = Decoded(packet, junk), q.fn \in WriteFunction
    PROVE  q.waddr \in Int /\ q.wcnt \in Int
<1>1. ASSUME NEW i \in Nat
      PROVE  Word(packet, junk, i) \in Int
  <2>1. Byte(packet, junk, i) \in Int /\ Byte(packet, junk, i + 1) \in Int
      BY ByteIsNumber
  <2>. QED  BY <2>1 DEF Word
<1>2. /\ Word(packet, junk, 8) \in Int /\ Word(packet, junk, 10) \in Int
      /\ Word(packet, junk, 12) \in Int /\ Word(packet, junk, 14) \in Int
    BY <1>1
<1>3. q.fn = packet[8] /\ header_length + 1 = 8
    BY ReadingFits DEF header_length
<1>4. CASE q.fn \in {write_single_coil, write_single_register, mask_write_register}
  <2>1. q.waddr = Word(packet, junk, 8) /\ q.wcnt = 1
      BY <1>3, <1>4 DEF Decoded, WritePacket, write_single_coil,
       write_single_register, write_multiple_coils, write_multiple_registers,
       mask_write_register, read_write_multiple_registers
  <2>. QED  BY <1>2, <2>1
<1>5. CASE q.fn \in {write_multiple_coils, write_multiple_registers}
  <2>1. q.waddr = Word(packet, junk, 8) /\ q.wcnt = Word(packet, junk, 10)
      BY <1>3, <1>5 DEF Decoded, WritePacket, write_single_coil,
       write_single_register, write_multiple_coils, write_multiple_registers,
       mask_write_register, read_write_multiple_registers
  <2>. QED  BY <1>2, <2>1
<1>6. CASE q.fn = read_write_multiple_registers
  <2>1. q = ReadWritePacket(Word(packet, junk, 8), Word(packet, junk, 10),
                            Word(packet, junk, 12), Word(packet, junk, 14),
                            RegistersFrom(packet, junk, 17, Byte(packet, junk, 16)),
                            Byte(packet, junk, 16))
    <3>1. packet[header_length + 1] = read_write_multiple_registers
        BY <1>3, <1>6
    <3>. QED  BY <3>1 DEF Decoded, write_single_coil, write_single_register,
       write_multiple_coils, write_multiple_registers, mask_write_register,
       read_write_multiple_registers
  <2>2. q.waddr = Word(packet, junk, 12) /\ q.wcnt = Word(packet, junk, 14)
      BY <2>1 DEF ReadWritePacket
  <2>. QED  BY <1>2, <2>2
<1>. QED  BY <1>4, <1>5, <1>6 DEF WriteFunction

(* A packet, whatever it holds, leaves cells that are well typed.          *)
LEMMA TableKept ==
    ASSUME NEW packet \in Seq(Int), NEW junk \in [0 .. 1 -> Junk],
           NEW t, TableOK(t)
    PROVE  TableOK(TableAfter(t, Decoded(packet, junk)))
<1>1. PICK q : q = Decoded(packet, junk)
    OBVIOUS
<1>2. SUFFICES ASSUME Verdict(q) = 0
               PROVE  TableOK(Effect(t, q))
    BY <1>1 DEF TableAfter
<1>3. Decodes(q) /\ Executes(q)
    BY <1>2 DEF Verdict, illegal_function, server_device_failure,
           illegal_data_address
<1>4. ASSUME NEW b \in Block, NEW c \in Cell(b)
      PROVE  (IF b = BlockOf(q.fn) /\ c \in WriteSpan(q)
              THEN NewWord(q, c, t[b][c]) ELSE t[b][c]) \in Value[b]
  <2>1. t[b][c] \in Value[b]
      BY DEF TableOK
  <2>2. ASSUME b = BlockOf(q.fn), c \in WriteSpan(q)
        PROVE  NewWord(q, c, t[b][c]) \in Value[b]
    <3>1. q.fn \in WriteFunction /\ c \in Span(b, q.waddr, q.wcnt)
        BY <2>2 DEF WriteSpan
    <3>0. q.waddr \in Int /\ q.wcnt \in Int /\ Start[b] \in Nat
        BY <1>1, <3>1, RangeRead, DataBlockAssumption
    <3>2. PICK i \in Int : i = Index(b, q.waddr)
        BY <3>0 DEF Index
    <3>3. c \in i .. (i + q.wcnt) - 1 /\ c \in Int
        BY <3>0, <3>1, <3>2 DEF Span, Cell
    <3>4. (c - i) + 1 \in Int /\ (c - i) + 1 >= 1
        BY <3>3
    <3>. QED  BY <1>1, <1>3, <2>1, <2>2, <3>1, <3>2, <3>4, NewWordFits DEF NewWord
  <2>. QED  BY <2>1, <2>2
<1>. QED  BY <1>4 DEF TableOK, Effect

(* It changes one block at most, that of the function byte.                *)
LEMMA OtherBlocksKept ==
    ASSUME NEW packet \in Seq(Int), NEW junk \in [0 .. 1 -> Junk],
           NEW t, TableOK(t), NEW b \in Block,
           TableAfter(t, Decoded(packet, junk))[b] # t[b]
    PROVE  packet[8] \in WriteFunction /\ b = BlockOf(packet[8])
<1>1. PICK q : q = Decoded(packet, junk)
    OBVIOUS
<1>2. q.fn = packet[8]
    BY <1>1, ReadingFits
<1>3. Effect(t, q)[b] # t[b]
    BY <1>1 DEF TableAfter
<1>4. ~(q.fn \in WriteFunction /\ b = BlockOf(q.fn)) => Effect(t, q)[b] = t[b]
  <2>1. SUFFICES ASSUME ~(q.fn \in WriteFunction /\ b = BlockOf(q.fn))
                 PROVE  Effect(t, q)[b] = t[b]
      OBVIOUS
  <2>2. Effect(t, q)[b] = [c \in Cell(b) |-> t[b][c]]
      BY <2>1 DEF Effect, WriteSpan
  <2>3. t[b] \in [Cell(b) -> Value[b]]
      BY DEF TableOK
  <2>. QED  BY <2>2, <2>3
<1>. QED  BY <1>2, <1>3, <1>4

(* No frame is shorter than a header and two fields.                       *)
LEMMA FrameLength ==
    ASSUME NEW p \in Packet
    PROVE  /\ Frame(p) \in Seq(Int) /\ Len(Frame(p)) >= 12
           /\ Frame(p)[8] = p.fn
<1>1. \/ p.fn \in ReadFunction \ WriteFunction
      \/ p.fn \in {write_single_coil}
      \/ p.fn \in {write_single_register, mask_write_register}
      \/ p.fn \in {write_multiple_registers}
      \/ p.fn \in {read_write_multiple_registers}
      \/ p.fn \in {write_multiple_coils}
    BY Fields DEF Supported, WriteFunction
<1>2. Len(p.vals) \in Nat
    BY Types
<1>3. PackedSize(Len(p.vals)) \in Nat
    BY <1>2, Sizes
<1>4. CASE p.fn \in {write_single_register, mask_write_register}
  <2>1. Len(p.vals) >= 1
      BY <1>4, Kinds
  <2>. QED  BY <1>2, <1>4, <2>1, RegisterFrame
<1>5. CASE p.fn \in {write_multiple_coils}
    BY <1>3, <1>5, MultipleCoilsFrame
<1>6. CASE p.fn \in {write_multiple_registers}
    BY <1>2, <1>6, MultipleRegistersFrame
<1>7. CASE p.fn \in {read_write_multiple_registers}
    BY <1>2, <1>7, ReadWriteFrame
<1>8. CASE p.fn \in ReadFunction \ WriteFunction
  <2>1. Frame(p) \in Seq(Int) /\ Len(Frame(p)) = 12 /\ Frame(p)[8] = p.fn
      BY <1>8, ReadFrame, Zenon
  <2>. QED  BY <2>1
<1>9. CASE p.fn \in {write_single_coil}
  <2>1. /\ Frame(p) \in Seq(Int) /\ Len(Frame(p)) = 12 /\ Frame(p)[8] = p.fn
        /\ Field(Frame(p), 9, p.waddr)
        /\ Field(Frame(p), 11, IF p.vals[1] = on THEN 65280 ELSE 0)
      BY <1>9, SingleCoilFrame
  <2>. QED  BY <2>1
<1>. QED  BY <1>1, <1>4, <1>5, <1>6, <1>7, <1>8, <1>9

-----------------------------------------------------------------------------
(* The stream.                                                             *)

(* Induction, on a set of numbers.                                         *)
LEMMA Least ==
    ASSUME NEW T \in SUBSET Nat, T # {}
    PROVE  \E x \in T : \A y \in T : x <= y
<1>1. IsWellFoundedOn(OpToRel(<, Nat), Nat)
    BY NatLessThanWellFounded
<1>2. PICK x \in T : \A y \in T : ~(<< y, x >> \in OpToRel(<, Nat))
    BY <1>1, WFMin
<1>3. \A y \in T : ~(y < x)
    BY <1>2 DEF OpToRel
<1>. QED  BY <1>3

LEMMA Everywhere ==
    ASSUME NEW S, 0 \in S, \A n \in Nat : n \in S => n + 1 \in S
    PROVE  Nat \subseteq S
<1>. DEFINE T == Nat \ S
<1>1. SUFFICES ASSUME T # {} PROVE FALSE
    OBVIOUS
<1>2. PICK x \in T : \A y \in T : x <= y
    BY <1>1, Least
<1>3. x - 1 \in Nat /\ x - 1 \notin T
    BY <1>2
<1>. QED  BY <1>2, <1>3

LEMMA Greatest ==
    ASSUME NEW m \in Nat, NEW T \in SUBSET (0 .. m), T # {}
    PROVE  Max(T) \in T /\ \A y \in T : Max(T) >= y
<1>. DEFINE U == {m - y : y \in T}
<1>1. U \in SUBSET Nat /\ U # {}
  <2>1. \A y \in T : y \in 0 .. m
      OBVIOUS
  <2>2. \A y \in 0 .. m : m - y \in Nat
      OBVIOUS
  <2>3. \A y \in T : m - y \in Nat
      BY <2>1, <2>2
  <2>. QED  BY <2>3
<1>2. PICK x \in U : \A y \in U : x <= y
    BY <1>1, Least
<1>3. m - x \in T /\ \A y \in T : m - x >= y
  <2>1. PICK z \in T : x = m - z
      BY <1>2
  <2>2. \A y \in T : m - z <= m - y
      BY <1>2, <2>1
  <2>3. \A y \in T : z >= y
      BY <2>2
  <2>. QED  BY <2>1, <2>3
<1>4. \E z \in T : \A y \in T : z >= y
    BY <1>3
<1>. QED  BY <1>4 DEF Max

(* The frames from the first to the k-th of s, one behind the other, which *)
(* FlattenSeq defines by recursion.                                        *)
Flat(f, s, k) ==
    f = [i \in 1 .. k |-> IF i = 1 THEN s[i] ELSE Join(f[i - 1], s[i])]

LEMMA FlatSteps ==
    ASSUME NEW k \in Nat, NEW s, NEW f, Flat(f, s, k)
    PROVE  /\ k >= 1 => f[1] = s[1]
           /\ \A i \in 1 .. k : i # 1 => f[i] = Join(f[i - 1], s[i])
<1>1. \A i \in 1 .. k : f[i] = IF i = 1 THEN s[i] ELSE Join(f[i - 1], s[i])
    BY DEF Flat
<1>2. k >= 1 => 1 \in 1 .. k
    OBVIOUS
<1>. QED  BY <1>1, <1>2

LEMMA FlatExists ==
    ASSUME NEW k \in Nat, NEW s, \A i \in 1 .. k : s[i] \in Seq(Int)
    PROVE  \E f \in [1 .. k -> Seq(Int)] : Flat(f, s, k)
<1>. DEFINE S == {m \in Nat : m <= k => \E f \in [1 .. m -> Seq(Int)] : Flat(f, s, m)}
<1>1. 0 \in S
  <2>. DEFINE f == [i \in 1 .. 0 |-> << >>]
  <2>1. f \in [1 .. 0 -> Seq(Int)] /\ Flat(f, s, 0)
      BY DEF Flat
  <2>. QED  BY <2>1
<1>2. ASSUME NEW m \in Nat, m \in S
      PROVE  m + 1 \in S
  <2>1. SUFFICES ASSUME m + 1 <= k
                 PROVE  \E g \in [1 .. (m + 1) -> Seq(Int)] : Flat(g, s, m + 1)
      OBVIOUS
  <2>2. PICK f \in [1 .. m -> Seq(Int)] : Flat(f, s, m)
      BY <1>2, <2>1
  <2>3. PICK last \in Seq(Int) : last = s[m + 1]
      BY <2>1
  <2>4. PICK whole \in Seq(Int) :
          whole = IF m = 0 THEN last ELSE Join(f[m], last)
    <3>1. CASE m = 0
        BY <3>1
    <3>2. CASE m # 0
      <4>1. f[m] \in Seq(Int)
          BY <3>2
      <4>. QED  BY <3>2, <4>1, Joined, Zenon
    <3>. QED  BY <3>1, <3>2
  <2>. DEFINE g == [i \in 1 .. (m + 1) |-> IF i = m + 1 THEN whole ELSE f[i]]
  <2>5. g \in [1 .. (m + 1) -> Seq(Int)]
      BY <2>2
  <2>6. ASSUME NEW i \in 1 .. (m + 1)
        PROVE  g[i] = IF i = 1 THEN s[i] ELSE Join(g[i - 1], s[i])
    <3>1. CASE i = m + 1 /\ i = 1
        BY <2>3, <2>4, <3>1
    <3>2. CASE i = m + 1 /\ i # 1
      <4>1. m # 0 /\ i - 1 = m /\ m \in 1 .. m + 1 /\ m # m + 1
          BY <3>2
      <4>2. g[i - 1] = f[m] /\ g[i] = whole
          BY <3>2, <4>1
      <4>. QED  BY <2>3, <2>4, <3>2, <4>1, <4>2
    <3>3. CASE i # m + 1
      <4>1. i \in 1 .. m /\ g[i] = f[i]
          BY <3>3
      <4>2. i # 1 => g[i - 1] = f[i - 1]
          BY <4>1
      <4>3. f[i] = IF i = 1 THEN s[i] ELSE Join(f[i - 1], s[i])
          BY <2>2, <4>1 DEF Flat
      <4>. QED  BY <4>1, <4>2, <4>3
    <3>. QED  BY <3>1, <3>2, <3>3
  <2>. HIDE DEF g
  <2>7. g = [i \in 1 .. (m + 1) |-> g[i]]
      BY <2>5
  <2>8. Flat(g, s, m + 1)
      BY <2>6, <2>7 DEF Flat
  <2>. QED  BY <2>5, <2>8
<1>. HIDE DEF S
<1>3. k \in S
    BY <1>1, <1>2, Everywhere
<1>. QED  BY <1>3 DEF S

(* What comes first does not depend on what follows.                       *)
Agree(s, t, k) == \A i \in 1 .. k : s[i] = t[i]

LEMMA FlatSame ==
    ASSUME NEW k \in Nat, NEW m \in Nat, k <= m, NEW s, NEW t, Agree(s, t, k),
           NEW f, Flat(f, s, k), NEW g, Flat(g, t, m)
    PROVE  Agree(f, g, k)
<1>. DEFINE S == {j \in Nat : j + 1 <= k => f[j + 1] = g[j + 1]}
<1>1. 0 \in S
  <2>1. SUFFICES ASSUME 1 <= k PROVE f[1] = g[1]
      OBVIOUS
  <2>2. f[1] = s[1] /\ g[1] = t[1] /\ 1 \in 1 .. k
      BY <2>1, FlatSteps
  <2>. QED  BY <2>2 DEF Agree
<1>2. ASSUME NEW j \in Nat, j \in S
      PROVE  j + 1 \in S
  <2>1. SUFFICES ASSUME j + 2 <= k PROVE f[j + 2] = g[j + 2]
    <3>1. (j + 1) + 1 = j + 2
        OBVIOUS
    <3>. QED  BY <3>1
  <2>2. f[j + 1] = g[j + 1]
      BY <1>2, <2>1
  <2>3. j + 2 \in 1 .. k /\ j + 2 \in 1 .. m /\ j + 2 # 1 /\ (j + 2) - 1 = j + 1
      BY <2>1
  <2>4. f[j + 2] = Join(f[j + 1], s[j + 2])
      BY <2>3, FlatSteps
  <2>5. g[j + 2] = Join(g[j + 1], t[j + 2])
      BY <2>3, FlatSteps
  <2>. QED  BY <2>2, <2>3, <2>4, <2>5 DEF Agree
<1>. HIDE DEF S
<1>3. \A j \in Nat : j \in S
    BY <1>1, <1>2, Everywhere
<1>4. ASSUME NEW i \in 1 .. k
      PROVE  f[i] = g[i]
  <2>1. i - 1 \in Nat /\ (i - 1) + 1 = i
      OBVIOUS
  <2>. QED  BY <1>3, <2>1 DEF S
<1>. QED  BY <1>4 DEF Agree

Pieces(t, k) == Len(t) = k /\ \A i \in 1 .. k : t[i] \in Seq(Int)

LEMMA Flattened ==
    ASSUME NEW k \in Nat \ {0}, NEW t, Pieces(t, k)
    PROVE  \E g : Flat(g, t, k) /\ FlattenSeq(t) = g[k]
<1>. DEFINE flat == CHOOSE g : Flat(g, t, k)
<1>1. Flat(flat, t, k)
  <2>1. \E g : Flat(g, t, k)
      BY FlatExists DEF Pieces
  <2>. QED  BY <2>1
<1>2. FlattenSeq(t) = flat[k]
    BY DEF FlattenSeq, Flat, Join, Pieces
<1>. QED  BY <1>1, <1>2

(* Requests in the order they are sent.                                    *)
Requested(u) == u \in Seq(Packet)

(* The first frames of a stream are those of its first requests.           *)
LEMMA Streams ==
    ASSUME NEW u, Requested(u)
    PROVE  \E f, s : /\ Flat(f, s, Len(u))
                     /\ \A k \in 1 .. Len(u) :
                          /\ s[k] = Frame(u[k]) /\ f[k] \in Seq(Int)
                          /\ Stream(SubSeq(u, 1, k)) = f[k]
<1>. PICK n \in Nat : n = Len(u)
    BY DEF Requested
<1>. DEFINE s == [i \in 1 .. n |-> Frame(u[i])]
<1>1. \A i \in 1 .. n : u[i] \in Packet
    BY DEF Requested
<1>2. \A i \in 1 .. n : s[i] = Frame(u[i]) /\ s[i] \in Seq(Int)
    BY <1>1, FrameLength
<1>. HIDE DEF s
<1>3. PICK f \in [1 .. n -> Seq(Int)] : Flat(f, s, n)
    BY <1>2, FlatExists
<1>4. ASSUME NEW k \in 1 .. n
      PROVE  Stream(SubSeq(u, 1, k)) = f[k]
  <2>. DEFINE w == SubSeq(u, 1, k)
              t == [i \in DOMAIN w |-> Frames[w[i]]]
  <2>1. DOMAIN w = 1 .. k /\ \A i \in 1 .. k : w[i] = u[i]
      BY DEF Requested
  <2>. HIDE DEF w
  <2>0. k \in Nat \ {0} /\ k <= n /\ \A i \in 1 .. k : i \in 1 .. n
      OBVIOUS
  <2>2. \A i \in 1 .. k : t[i] = Frame(u[i])
      BY <1>1, <2>0, <2>1 DEF Frames
  <2>3. \A i \in 1 .. k : t[i] = s[i] /\ t[i] \in Seq(Int)
    <3>. HIDE DEF t
    <3>. QED  BY <1>2, <2>0, <2>2
  <2>4. Len(t) = k
    <3>1. t \in [1 .. k -> Seq(Int)]
        BY <2>1, <2>3
    <3>. HIDE DEF t
    <3>. QED  BY <3>1
  <2>5. Stream(w) = FlattenSeq(t)
      BY DEF Stream
  <2>. HIDE DEF t
  <2>6. PICK g : Flat(g, t, k) /\ FlattenSeq(t) = g[k]
    <3>1. Pieces(t, k)
        BY <2>3, <2>4 DEF Pieces
    <3>. QED  BY <2>0, <3>1, Flattened
  <2>7. g[k] = f[k]
    <3>1. Agree(g, f, k)
      <4>1. k \in Nat /\ n \in Nat /\ k <= n /\ Flat(g, t, k) /\ Flat(f, s, n)
          BY <1>3, <2>0, <2>6
      <4>2. Agree(t, s, k)
          BY <2>3 DEF Agree
      <4>. QED  BY <4>1, <4>2, FlatSame
    <3>. QED  BY <2>0, <3>1 DEF Agree
  <2>8. Stream(w) = f[k]
      BY <2>5, <2>6, <2>7
  <2>. QED  BY <2>8 DEF w
<1>. QED  BY <1>2, <1>3, <1>4

(* The bytes of the first k requests.                                      *)
Ahead(u, k) == Len(Stream(SubSeq(u, 1, k)))

LEMMA Aheads ==
    ASSUME NEW u, Requested(u)
    PROVE  /\ Ahead(u, 0) = 0
           /\ \A k \in 1 .. Len(u) :
                /\ Ahead(u, k) \in Nat /\ Ahead(u, k - 1) \in Nat
                /\ Ahead(u, k) = Ahead(u, k - 1) + Len(Frame(u[k]))
           /\ Len(Stream(u)) = Ahead(u, Len(u))
<1>1. PICK n \in Nat : n = Len(u)
    BY DEF Requested
<1>2. PICK f, s : /\ Flat(f, s, n)
                  /\ \A k \in 1 .. n : /\ s[k] = Frame(u[k]) /\ f[k] \in Seq(Int)
                                       /\ Stream(SubSeq(u, 1, k)) = f[k]
    BY <1>1, Streams
<1>3. Ahead(u, 0) = 0
  <2>. DEFINE w == SubSeq(u, 1, 0)
              t == [i \in DOMAIN w |-> Frames[w[i]]]
  <2>1. DOMAIN w = {}
      BY DEF Requested
  <2>. HIDE DEF w
  <2>2. Len(t) = 0
    <3>1. t \in [1 .. 0 -> Seq(Int)]
        BY <2>1
    <3>. HIDE DEF t
    <3>. QED  BY <3>1
  <2>3. Stream(w) = FlattenSeq(t)
      BY DEF Stream
  <2>. HIDE DEF t
  <2>4. FlattenSeq(t) = t
      BY <2>2 DEF FlattenSeq
  <2>. QED  BY <2>2, <2>3, <2>4 DEF Ahead, w
<1>4. ASSUME NEW k \in 1 .. n
      PROVE  Ahead(u, k) \in Nat
  <2>1. Ahead(u, k) = Len(f[k]) /\ f[k] \in Seq(Int)
      BY <1>2 DEF Ahead
  <2>. QED  BY <2>1
<1>5. ASSUME NEW k \in 1 .. n
      PROVE  Ahead(u, k) = Ahead(u, k - 1) + Len(Frame(u[k]))
  <2>1. s[k] = Frame(u[k]) /\ s[k] \in Seq(Int)
    <3>1. u[k] \in Packet
        BY <1>1 DEF Requested
    <3>. QED  BY <1>2, <3>1, FrameLength
  <2>2. Ahead(u, k) = Len(f[k])
      BY <1>2 DEF Ahead
  <2>3. CASE k = 1
    <3>1. f[k] = s[k]
        BY <1>2, <2>3, FlatSteps
    <3>2. k - 1 = 0
        BY <2>3
    <3>. QED  BY <1>3, <2>1, <2>2, <3>1, <3>2
  <2>4. CASE k # 1
    <3>1. k - 1 \in 1 .. n
        BY <2>4
    <3>2. f[k] = Join(f[k - 1], s[k])
        BY <1>2, <2>4, FlatSteps
    <3>3. f[k - 1] \in Seq(Int) /\ Ahead(u, k - 1) = Len(f[k - 1])
        BY <1>2, <3>1 DEF Ahead
    <3>4. Len(Join(f[k - 1], s[k])) = Len(f[k - 1]) + Len(s[k])
        BY <2>1, <3>3, Joined, Zenon
    <3>. QED  BY <2>1, <2>2, <3>2, <3>3, <3>4
  <2>. QED  BY <2>3, <2>4
<1>6. ASSUME NEW k \in 1 .. n
      PROVE  Ahead(u, k - 1) \in Nat
  <2>1. k - 1 = 0 \/ k - 1 \in 1 .. n
      OBVIOUS
  <2>. QED  BY <1>3, <1>4, <2>1
<1>7. Len(Stream(u)) = Ahead(u, n)
  <2>1. SubSeq(u, 1, n) = u
      BY <1>1 DEF Requested
  <2>. QED  BY <2>1 DEF Ahead
<1>. QED  BY <1>1, <1>3, <1>4, <1>5, <1>6, <1>7

LEMMA StartsOn ==
    ASSUME NEW a, NEW b, NEW c, Starts(a, b), Starts(b, c)
    PROVE  Starts(a, c)
<1>1. \A i \in 1 .. Len(c) : i \in 1 .. Len(b)
    BY DEF Starts
<1>2. \A i \in 1 .. Len(c) : a[i] = c[i]
    BY <1>1 DEF Starts
<1>. QED  BY <1>2 DEF Starts

(* Every stream starts with the frame of its first request.                *)
LEMMA FirstFrame ==
    ASSUME NEW u, Requested(u), NEW k \in 1 .. Len(u)
    PROVE  Starts(Stream(SubSeq(u, 1, k)), Frame(u[1]))
<1>1. PICK n \in Nat : n = Len(u) /\ k \in 1 .. n
    BY DEF Requested
<1>2. PICK f, s : /\ Flat(f, s, n)
                  /\ \A i \in 1 .. n : /\ s[i] = Frame(u[i]) /\ f[i] \in Seq(Int)
                                       /\ Stream(SubSeq(u, 1, i)) = f[i]
    BY <1>1, Streams
<1>3. \A i \in 1 .. n : s[i] \in Seq(Int)
  <2>1. \A i \in 1 .. n : u[i] \in Packet
      BY <1>1 DEF Requested
  <2>. QED  BY <1>2, <2>1, FrameLength
<1>. DEFINE S == {j \in Nat : j + 1 <= n => Starts(f[j + 1], s[1])}
<1>4. 0 \in S
  <2>1. SUFFICES ASSUME 1 <= n PROVE Starts(f[1], s[1])
      OBVIOUS
  <2>2. f[1] = s[1] /\ s[1] \in Seq(Int)
      BY <1>2, <1>3, <2>1, FlatSteps
  <2>. QED  BY <2>2 DEF Starts
<1>5. ASSUME NEW j \in Nat, j \in S
      PROVE  j + 1 \in S
  <2>1. SUFFICES ASSUME j + 2 <= n PROVE Starts(f[j + 2], s[1])
    <3>1. (j + 1) + 1 = j + 2
        OBVIOUS
    <3>. QED  BY <3>1
  <2>2. Starts(f[j + 1], s[1])
      BY <1>5, <2>1
  <2>3. j + 2 \in 1 .. n /\ j + 2 # 1 /\ (j + 2) - 1 = j + 1
      BY <2>1
  <2>4. f[j + 2] = Join(f[j + 1], s[j + 2])
      BY <1>2, <2>3, FlatSteps
  <2>5. f[j + 1] \in Seq(Int) /\ s[j + 2] \in Seq(Int)
      BY <1>3, <2>2, <2>3 DEF Starts
  <2>6. Starts(f[j + 2], f[j + 1])
    <3>1. PICK a, b, c : a = f[j + 1] /\ b = s[j + 2] /\ c = f[j + 2]
        OBVIOUS
    <3>2. a \in Seq(Int) /\ b \in Seq(Int) /\ c = Join(a, b)
        BY <2>4, <2>5, <3>1
    <3>3. /\ Join(a, b) \in Seq(Int) /\ Len(Join(a, b)) = Len(a) + Len(b)
          /\ \A i \in 1 .. Len(a) : Join(a, b)[i] = a[i]
        BY <3>2, Joined, Zenon
    <3>4. Starts(c, a)
        BY <3>2, <3>3 DEF Starts
    <3>. QED  BY <3>1, <3>4
  <2>. QED  BY <2>2, <2>6, StartsOn
<1>. HIDE DEF S
<1>6. \A j \in Nat : j \in S
    BY <1>4, <1>5, Everywhere
<1>7. Starts(f[k], s[1])
  <2>1. k - 1 \in Nat /\ (k - 1) + 1 = k /\ k <= n
      BY <1>1
  <2>. QED  BY <1>6, <2>1 DEF S
<1>8. f[k] = Stream(SubSeq(u, 1, k)) /\ s[1] = Frame(u[1])
    BY <1>1, <1>2
<1>. QED  BY <1>7, <1>8

-----------------------------------------------------------------------------
(* The place of the server in the stream.                                  *)

LEMMA StreamBytes ==
    ASSUME NEW u, Requested(u)
    PROVE  /\ Stream(u) \in Seq(Int)
           /\ u # << >> => /\ Starts(Stream(u), Frame(Head(u)))
                           /\ Head(u) \in Packet
           /\ u = << >> => Len(Stream(u)) = 0
<1>1. PICK n \in Nat : n = Len(u)
    BY DEF Requested
<1>2. SubSeq(u, 1, n) = u
    BY <1>1 DEF Requested
<1>3. CASE u # << >>
  <2>1. n \in 1 .. Len(u) /\ Head(u) = u[1] /\ Head(u) \in Packet
      BY <1>1, <1>3 DEF Requested
  <2>2. Starts(Stream(SubSeq(u, 1, n)), Frame(u[1]))
      BY <2>1, FirstFrame
  <2>3. Starts(Stream(u), Frame(Head(u)))
      BY <1>2, <2>1, <2>2
  <2>. QED  BY <1>3, <2>1, <2>3 DEF Starts
<1>4. CASE u = << >>
  <2>. DEFINE t == [i \in DOMAIN u |-> Frames[u[i]]]
  <2>1. t = << >>
      BY <1>4
  <2>2. Stream(u) = FlattenSeq(t)
      BY DEF Stream
  <2>. HIDE DEF t
  <2>3. Stream(u) = << >>
      BY <2>1, <2>2 DEF FlattenSeq
  <2>4. << >> \in Seq(Int) /\ Len(<< >>) = 0
      OBVIOUS
  <2>. QED  BY <1>4, <2>3, <2>4
<1>. QED  BY <1>3, <1>4

(* o bytes of the first of the requests u are received.                    *)
Position(u, o) ==
    /\ Requested(u) /\ o \in Nat
    /\ o # 0 => u # << >> /\ o < Len(Frame(Head(u)))

LEMMA RestOfStream ==
    ASSUME Position(unread, offset)
    PROVE  /\ Rest \in Seq(Int) /\ Len(Rest) \in Nat
           /\ Len(Stream(unread)) \in Nat
           /\ Len(Rest) = Len(Stream(unread)) - offset
           /\ Len(Rest) > 0 => unread # << >>
           /\ offset = 0 => Rest = Stream(unread)
<1>1. PICK s \in Seq(Int) : s = Stream(unread)
    BY StreamBytes DEF Position
<1>2. PICK o \in Nat : o = offset
    BY DEF Position
<1>3. o <= Len(s)
  <2>1. CASE o = 0
      BY <2>1
  <2>2. CASE o # 0
    <3>1. unread # << >> /\ o < Len(Frame(Head(unread)))
        BY <1>2, <2>2 DEF Position
    <3>2. Starts(s, Frame(Head(unread)))
        BY <1>1, <3>1, StreamBytes DEF Position
    <3>3. Len(Frame(Head(unread))) <= Len(s) /\ Len(Frame(Head(unread))) \in Nat
        BY <3>2 DEF Starts
    <3>. QED  BY <3>1, <3>3
  <2>. QED  BY <2>1, <2>2
<1>4. Rest = SubSeq(s, o + 1, Len(s))
    BY <1>1, <1>2 DEF Rest
<1>5. Rest \in Seq(Int) /\ Len(Rest) = Len(s) - o
    BY <1>3, <1>4
<1>6. o = 0 => Rest = s
    BY <1>4
<1>7. unread = << >> => Len(s) = 0
    BY <1>1, StreamBytes DEF Position
<1>. QED  BY <1>1, <1>2, <1>3, <1>5, <1>6, <1>7

(* The frames that have ended, and the first one that has not.             *)
LEMMA EndedFrames ==
    ASSUME Position(unread, offset), NEW n \in 1 .. Len(Rest)
    PROVE  /\ Ended(n) \in 0 .. Len(unread)
           /\ Ahead(unread, Ended(n)) \in Nat
           /\ Ahead(unread, Ended(n)) <= offset + n
           /\ Ended(n) < Len(unread) =>
                /\ Ahead(unread, Ended(n) + 1) \in Nat
                /\ Ahead(unread, Ended(n) + 1) > offset + n
           /\ Ended(n) = Len(unread) => Ahead(unread, Ended(n)) = offset + n
<1>1. PICK m \in Nat, o \in Nat : m = Len(unread) /\ o = offset
    BY DEF Position, Requested
<1>. DEFINE T == {i \in 0 .. m : Ahead(unread, i) <= o + n}
<1>2. /\ Ahead(unread, 0) = 0
      /\ \A k \in 1 .. m : Ahead(unread, k) \in Nat
      /\ Len(Stream(unread)) = Ahead(unread, m)
    BY <1>1, Aheads DEF Position
<1>3. \A k \in 0 .. m : Ahead(unread, k) \in Nat
  <2>1. \A k \in 0 .. m : k = 0 \/ k \in 1 .. m
      OBVIOUS
  <2>. QED  BY <1>2, <2>1
<1>4. n \in Nat /\ o + n <= Ahead(unread, m)
    BY <1>1, <1>2, RestOfStream
<1>5. Ended(n) = Max(T)
    BY <1>1 DEF Ended, Ahead
<1>6. T \in SUBSET (0 .. m) /\ T # {}
  <2>1. 0 \in T
      BY <1>2, <1>4
  <2>. QED  BY <2>1
<1>7. Max(T) \in T /\ \A y \in T : Max(T) >= y
    BY <1>6, Greatest
<1>8. PICK e \in 0 .. m : /\ e = Ended(n) /\ Ahead(unread, e) <= o + n
                          /\ \A y \in 0 .. m : Ahead(unread, y) <= o + n => e >= y
    BY <1>5, <1>7
<1>9. e < m => /\ Ahead(unread, e + 1) \in Nat
               /\ Ahead(unread, e + 1) > o + n
  <2>1. SUFFICES ASSUME e < m
                 PROVE  /\ Ahead(unread, e + 1) \in Nat
                        /\ ~(Ahead(unread, e + 1) <= o + n)
      BY <1>4
  <2>2. e + 1 \in 0 .. m /\ ~(e >= e + 1)
      BY <2>1
  <2>. QED  BY <1>3, <1>8, <2>2
<1>10. e = m => Ahead(unread, e) = o + n
    BY <1>3, <1>4, <1>8
<1>. QED  BY <1>1, <1>3, <1>8, <1>9, <1>10

(* The server is in the middle of a request, or at the beginning of one,   *)
(* after every chunk.                                                      *)
LEMMA PlaceKept ==
    ASSUME Position(unread, offset), NEW n \in 1 .. Len(Rest), Consume(n)
    PROVE  Position(unread', offset') /\ Len(unread') <= Len(unread)
<1>0. PICK m \in Nat, o \in Nat : m = Len(unread) /\ o = offset
    BY DEF Position, Requested
<1>1. PICK e \in 0 .. m : e = Ended(n) /\ m = Len(unread) /\ o = offset
    BY <1>0, EndedFrames
<1>2. n \in Nat
    OBVIOUS
<1>3. PICK a \in Nat : a = Ahead(unread, e) /\ a <= o + n
    BY <1>1, EndedFrames
<1>4. unread' = SubSeq(unread, e + 1, m) /\ offset' = (o + n) - a
    BY <1>1, <1>3 DEF Consume, Ahead
<1>5. Requested(unread') /\ Len(unread') = m - e
    BY <1>1, <1>4 DEF Position, Requested
<1>6. offset' \in Nat
    BY <1>2, <1>3, <1>4
<1>7. CASE e = m
  <2>1. a = o + n
      BY <1>1, <1>3, <1>7, EndedFrames
  <2>2. offset' = 0
      BY <1>2, <1>4, <2>1
  <2>. QED  BY <1>1, <1>5, <1>6, <2>2 DEF Position
<1>8. CASE e < m
  <2>1. Head(unread') = unread[e + 1] /\ unread' # << >>
      BY <1>1, <1>4, <1>5, <1>8 DEF Position, Requested
  <2>2. e + 1 \in 1 .. m /\ (e + 1) - 1 = e
      BY <1>8
  <2>3. Ahead(unread, e + 1) = a + Len(Frame(unread[e + 1]))
      BY <1>1, <1>3, <2>2, Aheads DEF Position
  <2>4. Ahead(unread, e + 1) \in Nat /\ Ahead(unread, e + 1) > o + n
      BY <1>1, <1>8, EndedFrames
  <2>5. Len(Frame(unread[e + 1])) \in Nat
    <3>1. unread[e + 1] \in Packet
        BY <1>1, <2>2 DEF Position, Requested
    <3>2. Frame(unread[e + 1]) \in Seq(Int)
        BY <3>1, FrameLength
    <3>. QED  BY <3>2
  <2>6. offset' < Len(Frame(unread[e + 1]))
      BY <1>2, <1>3, <1>4, <2>3, <2>4, <2>5
  <2>. QED  BY <1>1, <1>5, <1>6, <2>1, <2>6 DEF Position
<1>. QED  BY <1>7, <1>8

(* A chunk at the beginning of a request.                                  *)
LEMMA ChunkAtFrame ==
    ASSUME Position(unread, offset), offset = 0, NEW n \in 1 .. Len(Rest)
    PROVE  /\ SubSeq(Rest, 1, n) \in Seq(Int)
           /\ Head(unread) \in Packet
           /\ n > header_length => SubSeq(Rest, 1, n)[8] = Head(unread).fn
           /\ Ended(n) > 0 => /\ n > header_length
                              /\ Starts(SubSeq(Rest, 1, n), Frame(Head(unread)))
<1>1. PICK s \in Seq(Int) : s = Stream(unread) /\ Rest = s /\ n \in 1 .. Len(s)
    BY RestOfStream
<1>2. unread # << >>
    BY RestOfStream
<1>3. PICK f \in Seq(Int) : f = Frame(Head(unread)) /\ Len(f) >= 12 /\ Starts(s, f)
                            /\ f[8] = Head(unread).fn
  <2>1. Head(unread) \in Packet /\ Starts(s, Frame(Head(unread)))
      BY <1>1, <1>2, StreamBytes DEF Position
  <2>. QED  BY <2>1, FrameLength
<1>4. PICK c \in Seq(Int) : /\ c = SubSeq(Rest, 1, n) /\ Len(c) = n
                            /\ \A i \in 1 .. n : c[i] = s[i]
  <2>1. n \in Nat /\ n <= Len(s)
      BY <1>1
  <2>2. /\ SubSeq(s, 1, n) \in Seq(Int) /\ Len(SubSeq(s, 1, n)) = n
        /\ \A i \in 1 .. n : SubSeq(s, 1, n)[i] = s[i]
      BY <2>1
  <2>. QED  BY <1>1, <2>2
<1>5. Head(unread) \in Packet
    BY <1>2, StreamBytes DEF Position
<1>6. n > header_length => c[8] = Head(unread).fn
  <2>1. SUFFICES ASSUME n > 7 PROVE c[8] = s[8] /\ s[8] = f[8]
      BY <1>3 DEF header_length
  <2>2. 8 \in 1 .. n /\ 8 \in 1 .. Len(f)
      BY <1>3, <2>1
  <2>. QED  BY <1>3, <1>4, <2>2 DEF Starts
<1>7. Ended(n) > 0 => n >= Len(f)
  <2>1. SUFFICES ASSUME Ended(n) > 0 PROVE n >= Len(f)
      OBVIOUS
  <2>2. PICK e \in Nat : e = Ended(n) /\ e \in 1 .. Len(unread)
                         /\ Len(Stream(SubSeq(unread, 1, e))) <= n
    <3>1. PICK m \in Nat : m = Len(unread)
        BY DEF Position, Requested
    <3>2. Ended(n) \in 0 .. m /\ Ahead(unread, Ended(n)) <= n
        BY <3>1, EndedFrames
    <3>. QED  BY <2>1, <3>1, <3>2 DEF Ahead
  <2>3. unread[1] = Head(unread)
      BY <1>2 DEF Position, Requested
  <2>4. Starts(Stream(SubSeq(unread, 1, e)), f)
      BY <1>3, <2>2, <2>3, FirstFrame DEF Position
  <2>5. Len(f) <= Len(Stream(SubSeq(unread, 1, e))) /\ Len(f) \in Nat
        /\ Len(Stream(SubSeq(unread, 1, e))) \in Nat
      BY <2>4 DEF Starts
  <2>. QED  BY <2>2, <2>5
<1>8. n >= Len(f) => Starts(c, f)
  <2>1. \A i \in 1 .. Len(f) : n >= Len(f) => c[i] = f[i]
    <3>1. \A i \in 1 .. Len(f) : n >= Len(f) => i \in 1 .. n
        OBVIOUS
    <3>2. \A i \in 1 .. Len(f) : s[i] = f[i]
        BY <1>3 DEF Starts
    <3>. QED  BY <1>4, <3>1, <3>2
  <2>. QED  BY <1>4, <2>1 DEF Starts
<1>. QED  BY <1>3, <1>4, <1>5, <1>6, <1>7, <1>8 DEF header_length

-----------------------------------------------------------------------------
(* A request that is carried out twice.                                    *)
LEMMA NewWordTwice ==
    ASSUME NEW p, NEW c, NEW word
    PROVE  NewWord(p, c, NewWord(p, c, word)) = NewWord(p, c, word)
<1>1. Masked(Masked(word, p), p) = Masked(word, p)
    BY DEF Masked
<1>. QED  BY <1>1 DEF NewWord

(* A request that the client sends again because its connection broke, and *)
(* that is carried out a second time, leaves the table as the first time   *)
(* left it: true of all ten functions, the mask included.                  *)
THEOREM RepeatedRequest ==
    ASSUME NEW t, NEW p
    PROVE  TableAfter(TableAfter(t, p), p) = TableAfter(t, p)
<1>. DEFINE u == Effect(t, p)
<1>1. ASSUME NEW b \in Block, NEW c \in Cell(b)
      PROVE  u[b][c] = IF b = BlockOf(p.fn) /\ c \in WriteSpan(p)
                       THEN NewWord(p, c, t[b][c]) ELSE t[b][c]
    BY DEF Effect
<1>2. ASSUME NEW b \in Block, NEW c \in Cell(b)
      PROVE  (IF b = BlockOf(p.fn) /\ c \in WriteSpan(p)
              THEN NewWord(p, c, u[b][c]) ELSE u[b][c]) = u[b][c]
  <2>. HIDE DEF u
  <2>. QED  BY <1>1, NewWordTwice
<1>3. Effect(u, p) = Effect(t, p)
  <2>1. Effect(u, p) =
          [b \in Block |-> [c \in Cell(b) |->
              IF b = BlockOf(p.fn) /\ c \in WriteSpan(p)
              THEN NewWord(p, c, u[b][c]) ELSE u[b][c]]]
    BY DEF Effect
  <2>2. u = [b \in Block |-> [c \in Cell(b) |-> u[b][c]]]
    BY DEF Effect
  <2>. HIDE DEF u
  <2>3. Effect(u, p) = u
    BY <1>2, <2>1, <2>2
  <2>. QED  BY <2>3 DEF u
<1>. QED  BY <1>3 DEF TableAfter

-----------------------------------------------------------------------------
(* The inductive invariant.                                                *)

LEMMA PositionParts ==
    ASSUME NEW u, NEW o
    PROVE  Position(u, o) <=> /\ u \in Seq(Packet) /\ o \in Nat
                              /\ o = 0 \/ o < Len(Frames[Head(u)])
                              /\ u = << >> => o = 0
<1>1. u \in Seq(Packet) /\ u # << >> => Frames[Head(u)] = Frame(Head(u))
    BY DEF Frames
<1>. QED  BY <1>1 DEF Position, Requested

LEMMA Parts ==
    IInv <=> /\ TableOK(table) /\ Position(unread, offset)
             /\ Len(unread) <= MaxUnread
             /\ current \in Packet \cup {NoRequest}
             /\ done # NoRequest => TableAfter(table, done) = table
    BY PositionParts DEF IInv, TypeOK, TableOK

LEMMA InitIInv == Init => IInv
<1>. SUFFICES ASSUME Init PROVE IInv
    OBVIOUS
<1>1. TableOK(table)
  <2>1. \A b \in Block : table[b] \in [Cell(b) -> Value[b]]
      BY DataBlockAssumption DEF Init, InitialTable, Initial
  <2>. QED  BY <2>1 DEF TableOK, Init, InitialTable
<1>2. unread = << >> /\ << >> \in Seq(Packet) /\ Len(<< >>) = 0 /\ offset = 0
    BY DEF Init
<1>3. Position(unread, offset)
    BY <1>2 DEF Position, Requested
<1>4. Len(unread) <= MaxUnread
    BY <1>2, FramingAssumption
<1>. QED  BY <1>1, <1>3, <1>4, Parts DEF Init

LEMMA SendStep ==
    ASSUME IInv, NEW p \in Packet, Send(p)
    PROVE  IInv'
<1>1. PICK m \in Nat : m = Len(unread) /\ MaxUnread \in Nat
    BY FramingAssumption, Parts DEF Position, Requested
<1>2. /\ unread' = Append(unread, p) /\ unread \in Seq(Packet)
      /\ Len(unread) < MaxUnread /\ offset' = offset /\ offset \in Nat
      /\ offset # 0 => unread # << >> /\ offset < Len(Frame(Head(unread)))
    BY Parts DEF Send, Position, Requested
<1>3. unread' \in Seq(Packet) /\ Len(unread') = m + 1
    BY <1>1, <1>2
<1>4. Len(unread') <= MaxUnread
    BY <1>1, <1>2, <1>3
<1>5. unread' # << >> /\ (unread # << >> => Head(unread') = Head(unread))
    BY <1>2
<1>6. Position(unread', offset')
    BY <1>2, <1>3, <1>5 DEF Position, Requested
<1>7. /\ TableOK(table') /\ current' \in Packet
      /\ done' # NoRequest => TableAfter(table', done') = table'
    BY Parts DEF Send
<1>. QED  BY <1>4, <1>6, <1>7, PositionParts DEF IInv, TypeOK, TableOK

LEMMA ReconnectStep ==
    ASSUME IInv, Reconnect
    PROVE  IInv'
<1>1. current \in Packet /\ unread' = << current >> /\ offset' = 0
    BY Parts DEF Reconnect
<1>2. unread' \in Seq(Packet) /\ Len(unread') = 1
    BY <1>1
<1>3. Len(unread') <= MaxUnread
    BY <1>2, FramingAssumption
<1>4. Position(unread', offset')
    BY <1>1, <1>2 DEF Position, Requested
<1>5. /\ TableOK(table') /\ current' \in Packet \cup {NoRequest}
      /\ done' # NoRequest => TableAfter(table', done') = table'
    BY Parts DEF Reconnect
<1>. QED  BY <1>3, <1>4, <1>5, PositionParts DEF IInv, TypeOK, TableOK

(* A chunk that is handled: what it may be taken for leaves good cells,    *)
(* and with a whole frame it is taken for the request that was sent.       *)
LEMMA Handled ==
    ASSUME IInv, NEW n \in 1 .. Len(Rest), Receive(n)
    PROVE  /\ TableOK(table')
           /\ Whole(n) => /\ table' = TableAfter(table, Head(unread))
                          /\ done' = Head(unread)
           /\ ~Whole(n) => done' = NoRequest \/ (done' = done /\ table' = table)
<1>1. Position(unread, offset) /\ TableOK(table)
    BY Parts
<1>2. CASE n <= header_length
  <2>1. table' = table /\ done' = done
      BY <1>2 DEF Receive
  <2>2. ~Whole(n)
    <3>1. SUFFICES ASSUME Whole(n) PROVE n > header_length
        BY <1>2 DEF header_length
    <3>2. offset = 0 /\ Ended(n) > 0
        BY <3>1 DEF Whole
    <3>. QED  BY <1>1, <3>2, ChunkAtFrame
  <2>. QED  BY <1>1, <2>1, <2>2
<1>3. CASE ~(n <= header_length)
  <2>1. PICK p \in Readings(SubSeq(Rest, 1, n)) :
          /\ table' = TableAfter(table, p)
          /\ done' = IF Whole(n) THEN Head(unread) ELSE NoRequest
      BY <1>3 DEF Receive
  <2>2. PICK junk \in [0 .. 1 -> Junk] : p = Decoded(SubSeq(Rest, 1, n), junk)
      BY <2>1 DEF Readings
  <2>3. SubSeq(Rest, 1, n) \in Seq(Int)
    <3>1. Rest \in Seq(Int)
        BY <1>1, RestOfStream
    <3>. QED  BY <3>1
  <2>4. TableOK(table')
      BY <1>1, <2>1, <2>2, <2>3, TableKept
  <2>5. Whole(n) => table' = TableAfter(table, Head(unread))
    <3>1. SUFFICES ASSUME Whole(n)
                   PROVE  TableAfter(table, p) = TableAfter(table, Head(unread))
        BY <2>1
    <3>2. offset = 0 /\ Ended(n) > 0
        BY <3>1 DEF Whole
    <3>3. /\ Head(unread) \in Packet
          /\ Starts(SubSeq(Rest, 1, n), Frame(Head(unread)))
        BY <1>1, <3>2, ChunkAtFrame
    <3>. QED  BY <2>2, <3>3, FrameUnderstood
  <2>. QED  BY <2>1, <2>4, <2>5
<1>. QED  BY <1>2, <1>3

LEMMA ReceiveStep ==
    ASSUME IInv, NEW n \in 1 .. Len(Rest), Receive(n)
    PROVE  IInv'
<1>1. Position(unread, offset)
    BY Parts
<1>2. Position(unread', offset') /\ Len(unread') <= Len(unread)
  <2>1. Consume(n)
      BY DEF Receive
  <2>. QED  BY <1>1, <2>1, PlaceKept
<1>3. Len(unread') <= MaxUnread
  <2>1. PICK m \in Nat, k \in Nat, x \in Nat :
          m = Len(unread) /\ k = Len(unread') /\ x = MaxUnread
      BY <1>1, <1>2, FramingAssumption DEF Position, Requested
  <2>2. m <= x /\ k <= m
      BY <1>2, <2>1, Parts
  <2>. QED  BY <2>1, <2>2
<1>4. TableOK(table') /\ current' \in Packet \cup {NoRequest}
    BY Handled, Parts DEF Receive
<1>5. done' # NoRequest => TableAfter(table', done') = table'
  <2>1. CASE Whole(n)
      BY <2>1, Handled, RepeatedRequest
  <2>2. CASE ~Whole(n)
    <3>1. done' = NoRequest \/ (done' = done /\ table' = table)
        BY <2>2, Handled
    <3>2. done # NoRequest => TableAfter(table, done) = table
        BY Parts
    <3>. QED  BY <3>1, <3>2
  <2>. QED  BY <2>1, <2>2
<1>. QED  BY <1>2, <1>3, <1>4, <1>5, PositionParts DEF IInv, TypeOK, TableOK

LEMMA InductiveStep == IInv /\ [Next]_vars => IInv'
<1>. SUFFICES ASSUME IInv, [Next]_vars
              PROVE  IInv'
    OBVIOUS
<1>1. ASSUME NEW p \in Packet, Send(p)
      PROVE  IInv'
    BY <1>1, SendStep
<1>2. ASSUME NEW n \in 1 .. Len(Rest), Receive(n)
      PROVE  IInv'
    BY <1>2, ReceiveStep
<1>3. ASSUME Reconnect
      PROVE  IInv'
    BY <1>3, ReconnectStep
<1>4. ASSUME UNCHANGED vars
      PROVE  IInv'
  <2>1. /\ table' = table /\ unread' = unread /\ offset' = offset
        /\ current' = current /\ done' = done
      BY <1>4 DEF vars
  <2>. QED  BY <2>1 DEF IInv, TypeOK
<1>. QED  BY <1>1, <1>2, <1>3, <1>4 DEF Next

-----------------------------------------------------------------------------
(* The theorems.                                                           *)

(* What is unread are requests of which a part of the first is received;   *)
(* the request handled last would change nothing.                          *)
THEOREM FramingInvariant == Spec => []IInv
<1>. QED  BY InitIInv, InductiveStep, PTL DEF Spec

(* Whatever bytes arrive, cut wherever, and whatever lies behind them: the *)
(* cells of the table keep the types that the code gives them.             *)
THEOREM TableKeepsItsTypes == Spec => []TypeOK
<1>1. IInv => TypeOK
    BY DEF IInv
<1>. QED  BY <1>1, FramingInvariant, PTL

(* The bytes a step takes are bytes of the stream.                         *)
LEMMA TakenFits ==
    ASSUME IInv, IInv', Taken > 0
    PROVE  Taken \in 1 .. Len(Rest)
<1>1. PICK r \in Nat : r = Len(Rest)
    BY Parts, RestOfStream
<1>2. Len(Rest') \in Nat
  <2>1. PICK s \in Seq(Int), o \in Nat : s = Stream(unread') /\ o = offset'
    <3>1. Requested(unread') /\ offset' \in Nat
        BY DEF IInv, Requested
    <3>. QED  BY <3>1, StreamBytes
  <2>2. Rest' = SubSeq(s, o + 1, Len(s))
      BY <2>1 DEF Rest, Stream, Frames
  <2>. QED  BY <2>2
<1>. QED  BY <1>1, <1>2 DEF Taken

(* A chunk that begins with a whole frame is handled as the request its    *)
(* sender meant, whatever follows the frame, whatever is read past its end *)
(* and whatever came before: the decoders give back what encode was given, *)
(* for all ten functions and every number of values.                       *)
THEOREM WholeFramesAreHandled == Spec => WholeFrameHandled
<1>1. IInv /\ IInv' /\ [Next]_vars =>
        [AtFrame /\ Whole(Taken) => table' = TableAfter(table, Head(unread))]_vars
  <2>. SUFFICES ASSUME IInv, IInv', AtFrame, Whole(Taken)
                PROVE  table' = TableAfter(table, Head(unread))
      OBVIOUS
  <2>1. Taken \in 1 .. Len(Rest) /\ Receive(Taken)
      BY TakenFits DEF AtFrame
  <2>. QED  BY <2>1, Handled
<1>. QED  BY <1>1, FramingInvariant, PTL DEF Spec, WholeFrameHandled

(* A request that is sent again after a reconnect, and is handled twice    *)
(* with nothing in between, changes nothing the second time.               *)
THEOREM DuplicatesAreHarmless == Spec => DuplicateHarmless
<1>1. IInv /\ IInv' /\ [Next]_vars =>
        [AtFrame /\ Whole(Taken) /\ done = Head(unread) => table' = table]_vars
  <2>. SUFFICES ASSUME IInv, IInv', AtFrame, Whole(Taken), done = Head(unread)
                PROVE  table' = table
      OBVIOUS
  <2>1. Taken \in 1 .. Len(Rest) /\ Receive(Taken)
      BY TakenFits DEF AtFrame
  <2>2. table' = TableAfter(table, done)
      BY <2>1, Handled
  <2>3. done # NoRequest
    <3>1. offset = 0
        BY DEF AtFrame
    <3>2. Head(unread) \in Packet
        BY <2>1, <3>1, ChunkAtFrame, Parts
    <3>3. done.fn \in Int /\ done.fn > 0
        BY <3>2, Fields DEF Supported, ReadFunction, WriteFunction, read_coils,
           read_discrete_inputs, read_holding_registers, read_input_registers,
           write_single_coil, write_single_register, write_multiple_coils,
           write_multiple_registers, mask_write_register,
           read_write_multiple_registers
    <3>. QED  BY <3>3 DEF NoRequest
  <2>. QED  BY <2>2, <2>3, Parts
<1>. QED  BY <1>1, FramingInvariant, PTL DEF Spec, DuplicateHarmless

(* The first piece of a split frame may be carried out with fields nobody  *)
(* sent, but only on the block its function writes, and never on a read.   *)
THEOREM FragmentsStayInTheirBlock == Spec => FragmentStaysInBlock
<1>1. ASSUME IInv, IInv', AtFrame, NEW b \in Block, table'[b] # table[b]
      PROVE  /\ Head(unread).fn \in WriteFunction
             /\ b = IF Head(unread).fn \in {write_single_coil, write_multiple_coils}
                    THEN coils ELSE holding_registers
  <2>1. PICK n \in 1 .. Len(Rest) : n = Taken /\ Receive(n)
      BY <1>1, TakenFits DEF AtFrame
  <2>2. Position(unread, offset) /\ TableOK(table) /\ offset = 0
      BY <1>1, Parts DEF AtFrame
  <2>3. n > header_length
      BY <1>1, <2>1 DEF Receive, header_length
  <2>4. PICK p \in Readings(SubSeq(Rest, 1, n)) : table' = TableAfter(table, p)
      BY <2>1, <2>3 DEF Receive, header_length
  <2>5. PICK junk \in [0 .. 1 -> Junk] : p = Decoded(SubSeq(Rest, 1, n), junk)
      BY <2>4 DEF Readings
  <2>6. /\ SubSeq(Rest, 1, n) \in Seq(Int)
        /\ SubSeq(Rest, 1, n)[8] = Head(unread).fn
      BY <2>2, <2>3, ChunkAtFrame
  <2>7. /\ Head(unread).fn \in WriteFunction
        /\ b = BlockOf(Head(unread).fn)
      BY <1>1, <2>2, <2>4, <2>5, <2>6, OtherBlocksKept
  <2>. QED  BY <2>7 DEF BlockOf, WriteFunction, read_coils, read_discrete_inputs,
       read_input_registers, write_single_coil, write_single_register,
       write_multiple_coils, write_multiple_registers, mask_write_register,
       read_write_multiple_registers
<1>2. IInv /\ IInv' /\ [Next]_vars =>
        [AtFrame =>
           \A b \in Block :
             table'[b] # table[b] =>
               /\ Head(unread).fn \in WriteFunction
               /\ b = IF Head(unread).fn \in {write_single_coil, write_multiple_coils}
                      THEN coils ELSE holding_registers]_vars
    BY <1>1
<1>. QED  BY <1>2, FramingInvariant, PTL DEF Spec, FragmentStaysInBlock
=============================================================================
