---------------------------- MODULE ClientProofs ----------------------------
(***************************************************************************)
(* Proofs about ClientExchange, for any requests the types let a user      *)
(* build, any number of replies under way and either signedness of char:   *)
(* which replies a client takes, which it takes for exceptions, and which  *)
(* frames are too long.                                                    *)
(***************************************************************************)
EXTENDS ClientExchange, SequenceTheorems, WellFoundedInduction, TLAPS

-----------------------------------------------------------------------------
(* The numbers of the protocol.                                            *)
LEMMA Codes ==
    /\ read_coils = 1 /\ read_discrete_inputs = 2 /\ read_holding_registers = 3
    /\ read_input_registers = 4 /\ write_single_coil = 5 /\ write_single_register = 6
    /\ write_multiple_coils = 15 /\ write_multiple_registers = 16
    /\ mask_write_register = 22 /\ read_write_multiple_registers = 23
    /\ ReadFunction = {1, 2, 3, 4, 23} /\ WriteFunction = {5, 6, 15, 16, 22, 23}
    /\ Supported = {1, 2, 3, 4, 5, 6, 15, 16, 22, 23}
    /\ ReadBits = {1, 2} /\ ReadRegisters = {3, 4}
    /\ illegal_data_address = 2 /\ bits_off = 0 /\ bits_on = 65280
    BY DEF read_coils, read_discrete_inputs, read_holding_registers,
           read_input_registers, write_single_coil, write_single_register,
           write_multiple_coils, write_multiple_registers, mask_write_register,
           read_write_multiple_registers, ReadFunction, WriteFunction, Supported,
           ReadBits, ReadRegisters, illegal_data_address, bits_off, bits_on

LEMMA FieldFacts ==
    ASSUME NEW q, WellFormed(q)
    PROVE  /\ q.fn \in Supported /\ q.tr \in Word /\ q.addr \in Word /\ q.cnt \in Word
           /\ q.wcnt \in Word /\ q.n \in Nat /\ q.word \in Word
           /\ q.fn = write_single_coil => q.word \in {bits_off, bits_on}
    BY DEF WellFormed

LEMMA Words == \A w \in Word : w \in Nat /\ w < 65536
    BY DEF Word

(* A count the server accepts is counted in one byte, by both ends.        *)
LEMMA PackedCounts ==
    /\ \A n \in Nat : Packed(n) \in Nat /\ 8 * Packed(n) >= n /\ 8 * Packed(n) <= n + 7
    /\ \A n \in 0 .. 255 : uint8(n) = n
    /\ \A n \in 0 .. 65535 : uint16(n) = n
    /\ \A n \in Nat : uint8(n) \in 0 .. 255
    BY DEF Packed, uint8, uint16

(* What the server accepts, number by number.                              *)
LEMMA AcceptedCounts ==
    ASSUME NEW q, WellFormed(q), Accepts(q)
    PROVE  /\ q.fn \in ReadBits => q.cnt \in 1 .. 2000
           /\ q.fn \in ReadFunction \ ReadBits => q.cnt \in 1 .. 125
           /\ q.fn = write_multiple_coils => q.wcnt \in 1 .. 1968
           /\ q.fn \in WriteFunction \ {write_multiple_coils} => q.wcnt \in 1 .. 123
<1>1. q.cnt \in Nat /\ q.wcnt \in Nat
    BY FieldFacts, Words
<1>2. ASSUME q.fn \in ReadBits
      PROVE  q.cnt \in 1 .. 2000
  <2>1. q.fn \in ReadFunction
      BY <1>2, Codes
  <2>2. InTable(q.addr, q.cnt, 2000)
      BY <1>2, <2>1 DEF Accepts, ReadOK, max_num_bits_read
  <2>3. 0 < q.cnt /\ q.cnt <= 2000
      BY <2>2 DEF InTable
  <2>4. PICK n \in Nat : n = q.cnt
      BY <1>1
  <2>5. 0 < n /\ n <= 2000
      BY <2>3, <2>4
  <2>6. n \in 1 .. 2000
      BY <2>5
  <2>. QED  BY <2>4, <2>6
<1>3. ASSUME q.fn \in ReadFunction \ ReadBits
      PROVE  q.cnt \in 1 .. 125
  <2>1. InTable(q.addr, q.cnt, 125)
      BY <1>3 DEF Accepts, ReadOK, max_num_regs_read
  <2>. QED  BY <1>1, <2>1 DEF InTable
<1>4. ASSUME q.fn = write_multiple_coils
      PROVE  q.wcnt \in 1 .. 1968
  <2>1. q.fn \in WriteFunction
      BY <1>4, Codes
  <2>2. InTable(q.addr, q.wcnt, 1968)
      BY <1>4, <2>1 DEF Accepts, WriteOK, max_num_bits_write
  <2>3. 0 < q.wcnt /\ q.wcnt <= 1968
      BY <2>2 DEF InTable
  <2>4. PICK n \in Nat : n = q.wcnt
      BY <1>1
  <2>5. 0 < n /\ n <= 1968
      BY <2>3, <2>4
  <2>6. n \in 1 .. 1968
      BY <2>5
  <2>. QED  BY <2>4, <2>6
<1>5. ASSUME q.fn \in WriteFunction \ {write_multiple_coils}
      PROVE  q.wcnt \in 1 .. 123
  <2>1. InTable(q.addr, q.wcnt, 123)
      BY <1>5 DEF Accepts, WriteOK, max_num_regs_write
  <2>. QED  BY <1>1, <2>1 DEF InTable
<1>. QED  BY <1>2, <1>3, <1>4, <1>5

(* The byte count of a read the server accepts.                            *)
LEMMA ReadSizes ==
    ASSUME NEW q, WellFormed(q), Accepts(q)
    PROVE  /\ q.fn \in ReadBits =>
                /\ ByteCount(q) = Packed(q.cnt) /\ Packed(q.cnt) \in 1 .. 250
                /\ ResponseSize(q) = 9 + Packed(q.cnt)
           /\ q.fn \in ReadRegisters =>
                ByteCount(q) = 2 * q.cnt /\ ResponseSize(q) = 9 + 2 * q.cnt
           /\ q.fn = read_write_multiple_registers =>
                uint8(q.cnt * 2) = 2 * q.cnt /\ ResponseSize(q) = 9 + 2 * q.cnt
           /\ q.fn \in ReadFunction => uint8(ResponseSize(q) - 9) = ResponseSize(q) - 9
           /\ ResponseSize(q) \in 9 .. 259
<1>1. CASE q.fn \in ReadBits
  <2>1. PICK n \in 1 .. 2000 : n = q.cnt
      BY <1>1, AcceptedCounts
  <2>2. Packed(q.cnt) \in 1 .. 250
    <3>1. Packed(n) \in 1 .. 250
        BY DEF Packed
    <3>. QED  BY <2>1, <3>1
  <2>3. ByteCount(q) = Packed(q.cnt)
      BY <1>1, <2>2, Codes DEF ByteCount, uint16
  <2>4. ResponseSize(q) = 9 + Packed(q.cnt)
      BY <1>1, <2>3, Codes DEF ResponseSize
  <2>5. uint8(ResponseSize(q) - 9) = ResponseSize(q) - 9
      BY <2>2, <2>4 DEF uint8
  <2>6. q.fn \notin ReadRegisters /\ q.fn # read_write_multiple_registers
      BY <1>1, Codes
  <2>. QED  BY <1>1, <2>2, <2>3, <2>4, <2>5, <2>6
<1>2. CASE q.fn \in ReadRegisters
  <2>1. q.cnt \in 1 .. 125 /\ q.fn \notin ReadBits /\ q.fn # read_write_multiple_registers
      BY <1>2, AcceptedCounts, Codes
  <2>2. ByteCount(q) = 2 * q.cnt
      BY <1>2, <2>1, Codes DEF ByteCount, uint16
  <2>3. ResponseSize(q) = 9 + 2 * q.cnt
      BY <1>2, <2>1, <2>2, Codes DEF ResponseSize
  <2>4. uint8(ResponseSize(q) - 9) = ResponseSize(q) - 9
      BY <2>1, <2>3 DEF uint8
  <2>. QED  BY <1>2, <2>1, <2>2, <2>3, <2>4
<1>3. CASE q.fn = read_write_multiple_registers
  <2>1. q.cnt \in 1 .. 125 /\ q.fn \notin ReadBits /\ q.fn \notin ReadRegisters
      BY <1>3, AcceptedCounts, Codes
  <2>2. uint8(q.cnt * 2) = 2 * q.cnt
      BY <2>1 DEF uint8
  <2>3. ResponseSize(q) = 9 + 2 * q.cnt
      BY <1>3, <2>1, <2>2, Codes DEF ResponseSize
  <2>4. uint8(ResponseSize(q) - 9) = ResponseSize(q) - 9
      BY <2>1, <2>3 DEF uint8
  <2>. QED  BY <1>3, <2>1, <2>2, <2>3, <2>4
<1>4. CASE q.fn \notin ReadFunction
  <2>1. /\ q.fn \notin ReadBits /\ q.fn \notin ReadRegisters
        /\ q.fn # read_write_multiple_registers
      BY <1>4, Codes
  <2>2. ResponseSize(q) \in {12, 14}
      BY <2>1 DEF ResponseSize
  <2>. QED  BY <1>4, <2>1, <2>2
<1>. QED  BY <1>1, <1>2, <1>3, <1>4, Codes

-----------------------------------------------------------------------------
(* What the server answers.                                                *)
LEMMA FrameIsReply ==
    ASSUME NEW q, WellFormed(q), NEW fn \in Nat, NEW size \in 6 .. 260,
           NEW first \in Nat, NEW word \in Word
    PROVE  Frame(q, fn, size, first, word) \in Reply
<1>1. size - 6 \in Nat /\ size \in Nat
    OBVIOUS
<1>2. q.tr \in Word /\ q.addr \in Word
    BY FieldFacts
<1>. QED  BY <1>1, <1>2 DEF Frame, Reply

(* The exception for a request it does not carry out.                      *)
LEMMA ExceptionReply ==
    ASSUME NEW q, WellFormed(q), ~Accepts(q), NEW c
    PROVE  /\ Response(q, c) \in Reply
           /\ Response(q, c).tr = q.tr /\ Response(q, c).len = 3
           /\ Response(q, c).size = 9 /\ Response(q, c).fn = q.fn + 128
<1>1. Response(q, c) = Frame(q, ErrorFunction(q.fn), 9, illegal_data_address, 0)
    BY DEF Response
<1>2. ErrorFunction(q.fn) = q.fn + 128 /\ q.fn + 128 \in Nat
  <2>1. q.fn \in {1, 2, 3, 4, 5, 6, 15, 16, 22, 23}
      BY FieldFacts, Codes
  <2>. QED  BY <2>1 DEF ErrorFunction, DecodedFunction, CheckFunction
<1>3. illegal_data_address \in Nat /\ 0 \in Word /\ 9 \in 6 .. 260
  <2>1. illegal_data_address \in Nat
      BY DEF illegal_data_address
  <2>2. 0 \in Word
      BY DEF Word
  <2>3. 9 \in 6 .. 260
      OBVIOUS
  <2>. QED  BY <2>1, <2>2, <2>3
<1>4. Response(q, c) \in Reply
    BY <1>1, <1>2, <1>3, FrameIsReply
<1>5. /\ Response(q, c).tr = q.tr /\ Response(q, c).len = 9 - 6
      /\ Response(q, c).size = 9 /\ Response(q, c).fn = ErrorFunction(q.fn)
    BY <1>1 DEF Frame
<1>. QED  BY <1>2, <1>4, <1>5

(* What the second word of a write's answer is.                            *)
Echo(q, c) ==
    CASE q.fn \in ReadFunction -> 0
      [] q.fn = write_single_coil -> c
      [] q.fn \in {write_multiple_coils, write_multiple_registers} -> q.wcnt
      [] OTHER -> q.word
First(q) == IF q.fn \in ReadFunction THEN ResponseSize(q) - 9 ELSE 0

LEMMA ResultReply ==
    ASSUME NEW q, WellFormed(q), Accepts(q), NEW c \in {bits_off, bits_on}
    PROVE  /\ Response(q, c) \in Reply
           /\ Response(q, c).tr = q.tr /\ Response(q, c).fn = q.fn
           /\ Response(q, c).size = ResponseSize(q)
           /\ Response(q, c).len = ResponseSize(q) - 6
           /\ Response(q, c).first = First(q)
           /\ Response(q, c).addr = q.addr
           /\ Response(q, c).word = Echo(q, c)
<1>1. Response(q, c) = Frame(q, q.fn, ResponseSize(q), First(q), Echo(q, c))
  <2>1. CASE q.fn \in ReadFunction
    <3>1. /\ q.fn # write_single_coil
          /\ q.fn \notin {write_multiple_coils, write_multiple_registers}
        BY <2>1, Codes
    <3>2. uint8(ResponseSize(q) - 9) = First(q)
        BY <2>1, ReadSizes DEF First
    <3>. QED  BY <2>1, <3>1, <3>2 DEF Response, Echo
  <2>2. CASE q.fn = write_single_coil
    <3>1. /\ q.fn \notin ReadFunction /\ q.fn \notin ReadBits /\ q.fn \notin ReadRegisters
          /\ q.fn # read_write_multiple_registers /\ q.fn # mask_write_register
          /\ q.fn \notin {write_multiple_coils, write_multiple_registers}
        BY <2>2, Codes
    <3>2. ResponseSize(q) = 12
        BY <3>1 DEF ResponseSize
    <3>. QED  BY <2>2, <3>1, <3>2 DEF Response, Echo, First, CoilEcho
  <2>3. CASE q.fn \in {write_multiple_coils, write_multiple_registers}
    <3>1. /\ q.fn \notin ReadFunction /\ q.fn \notin ReadBits /\ q.fn \notin ReadRegisters
          /\ q.fn # read_write_multiple_registers /\ q.fn # mask_write_register
          /\ q.fn # write_single_coil
        BY <2>3, Codes
    <3>2. ResponseSize(q) = 12
        BY <3>1 DEF ResponseSize
    <3>. QED  BY <2>3, <3>1, <3>2 DEF Response, Echo, First
  <2>4. CASE /\ q.fn \notin ReadFunction /\ q.fn # write_single_coil
             /\ q.fn \notin {write_multiple_coils, write_multiple_registers}
      BY <2>4 DEF Response, Echo, First
  <2>. QED  BY <2>1, <2>2, <2>3, <2>4
<1>2. q.fn \in Nat
    BY FieldFacts, Codes
<1>3. First(q) \in Nat /\ ResponseSize(q) \in 6 .. 260
  <2>1. ResponseSize(q) \in 9 .. 259
      BY ReadSizes
  <2>. QED  BY <2>1 DEF First
<1>4. Echo(q, c) \in Word
  <2>1. bits_off \in Word /\ bits_on \in Word /\ 0 \in Word
      BY Codes DEF Word
  <2>2. q.word \in Word /\ q.wcnt \in Word
      BY FieldFacts
  <2>3. \/ q.fn \in ReadFunction
        \/ q.fn \notin ReadFunction /\ q.fn = write_single_coil
        \/ q.fn \notin ReadFunction /\ q.fn # write_single_coil
      OBVIOUS
  <2>4. write_single_coil \notin ReadFunction
        /\ write_single_coil \notin {write_multiple_coils, write_multiple_registers}
        /\ \A f \in {write_multiple_coils, write_multiple_registers} : f \notin ReadFunction
      BY Codes
  <2>. QED  BY <2>1, <2>2, <2>3, <2>4 DEF Echo
<1>5. Response(q, c) \in Reply
    BY <1>1, <1>2, <1>3, <1>4, FrameIsReply
<1>6. /\ Response(q, c).tr = q.tr /\ Response(q, c).fn = q.fn
      /\ Response(q, c).size = ResponseSize(q)
      /\ Response(q, c).len = ResponseSize(q) - 6
      /\ Response(q, c).first = First(q)
      /\ Response(q, c).addr = q.addr
      /\ Response(q, c).word = Echo(q, c)
    BY <1>1 DEF Frame
<1>. QED  BY <1>5, <1>6

(* Either way it is a reply, with the transaction of its request and the   *)
(* length of its frame; and its function tells a result from an exception. *)
LEMMA EveryReply ==
    ASSUME NEW a \in Answers
    PROVE  /\ a.to \in Sendable /\ WellFormed(a.to) /\ a.reply \in Reply
           /\ a.reply.tr = a.to.tr
           /\ a.reply.size \in 9 .. 259 /\ a.reply.len = a.reply.size - 6
           /\ Accepts(a.to) => a.reply.fn = a.to.fn /\ CheckFunction(a.reply.fn)
           /\ ~Accepts(a.to) => a.reply.fn = a.to.fn + 128 /\ ~CheckFunction(a.reply.fn)
<1>1. a.to \in Sendable /\ a.reply \in Reply
    BY DEF Answers
<1>2. WellFormed(a.to)
    BY <1>1, ClientExchangeAssumption DEF Sendable
<1>3. PICK c \in {bits_off, bits_on} : a.reply = Response(a.to, c)
    BY DEF Answers
<1>4. a.to.fn \in {1, 2, 3, 4, 5, 6, 15, 16, 22, 23}
    BY <1>2, FieldFacts, Codes
<1>5. CASE Accepts(a.to)
  <2>1. /\ a.reply.tr = a.to.tr /\ a.reply.fn = a.to.fn
        /\ a.reply.size = ResponseSize(a.to) /\ a.reply.len = ResponseSize(a.to) - 6
      BY <1>2, <1>3, <1>5, ResultReply
  <2>2. ResponseSize(a.to) \in 9 .. 259
      BY <1>2, <1>5, ReadSizes
  <2>3. CheckFunction(a.reply.fn)
      BY <1>4, <2>1 DEF CheckFunction
  <2>. QED  BY <1>1, <1>2, <1>5, <2>1, <2>2, <2>3
<1>6. CASE ~Accepts(a.to)
  <2>1. /\ a.reply.tr = a.to.tr /\ a.reply.fn = a.to.fn + 128
        /\ a.reply.size = 9 /\ a.reply.len = 3
      BY <1>2, <1>3, <1>6, ExceptionReply
  <2>2. ~CheckFunction(a.reply.fn)
      BY <1>4, <2>1 DEF CheckFunction
  <2>. QED  BY <1>1, <1>2, <1>6, <2>1, <2>2
<1>. QED  BY <1>5, <1>6

-----------------------------------------------------------------------------
(* What the client makes of a reply.                                       *)

(* A reply of another transaction, or whose length is not that of its      *)
(* frame.                                                                  *)
LEMMA Rejected ==
    ASSUME NEW q, NEW r, q.tr # r.tr \/ r.len # r.size - 6
    PROVE  Decoded(q, r) = "bad_data"
<1>1. Stage(q, r) = "bad"
    BY DEF Stage
<1>. QED  BY <1>1 DEF Decoded

LEMMA Outcomes ==
    ASSUME NEW q, NEW r
    PROVE  /\ Decoded(q, r) \in {"passed", "exception", "bad_data"}
           /\ Decoded(q, r) = "exception" <=> Stage(q, r) = "error"
           /\ Decoded(q, r) = "passed" <=> Stage(q, r) = "passed" /\ DecodePassed(q, r)
<1>1. CASE Stage(q, r) = "error"
    BY <1>1 DEF Decoded
<1>2. CASE Stage(q, r) # "error" /\ Stage(q, r) = "passed" /\ DecodePassed(q, r)
    BY <1>2 DEF Decoded
<1>3. CASE Stage(q, r) # "error" /\ ~(Stage(q, r) = "passed" /\ DecodePassed(q, r))
    BY <1>3 DEF Decoded
<1>. QED  BY <1>1, <1>2, <1>3

(* Only an exception is taken for one, only a result for a result.         *)
LEMMA NeverMistaken ==
    ASSUME NEW q, WellFormed(q), NEW a \in Answers
    PROVE  /\ Decoded(q, a.reply) = "exception" => ~Accepts(a.to)
           /\ Decoded(q, a.reply) = "passed" => Accepts(a.to)
<1>1. q.fn \in {1, 2, 3, 4, 5, 6, 15, 16, 22, 23}
    BY FieldFacts, Codes
<1>2. ASSUME Stage(q, a.reply) = "error"
      PROVE  ~Accepts(a.to)
  <2>1. ~CheckFunction(a.reply.fn)
      BY <1>2 DEF Stage
  <2>. QED  BY <2>1, EveryReply
<1>3. ASSUME Stage(q, a.reply) = "passed"
      PROVE  Accepts(a.to)
  <2>1. Expected(q, a.reply) = a.reply.fn \/ CheckFunction(a.reply.fn)
      BY <1>3 DEF Stage
  <2>2. CheckFunction(q.fn)
      BY <1>1 DEF CheckFunction
  <2>3. CheckFunction(a.reply.fn)
      BY <2>1, <2>2 DEF Expected
  <2>. QED  BY <2>3, EveryReply
<1>. QED  BY <1>2, <1>3, Outcomes

(* The exception its own request earned.                                   *)
LEMMA OwnException ==
    ASSUME NEW a \in Answers, ~Accepts(a.to)
    PROVE  Decoded(a.to, a.reply) = "exception"
<1>. DEFINE q == a.to
            r == a.reply
<1>1. /\ WellFormed(q) /\ r.tr = q.tr /\ r.size \in 9 .. 259 /\ r.len = r.size - 6
      /\ r.fn = q.fn + 128 /\ ~CheckFunction(r.fn)
    BY EveryReply
<1>2. q.fn \in {1, 2, 3, 4, 5, 6, 15, 16, 22, 23}
    BY <1>1, FieldFacts, Codes
<1>3. Expected(q, r) = q.fn
    BY <1>1 DEF Expected
<1>4. q.fn # r.fn /\ (r.fn - 128) % 256 = q.fn
    BY <1>1, <1>2
<1>5. ~(r.size <= 7)
    BY <1>1
<1>. HIDE DEF q, r
<1>6. Stage(q, r) = "error"
    BY <1>1, <1>3, <1>4, <1>5 DEF Stage
<1>. QED  BY <1>6, Outcomes DEF q, r

(* The answer to a read the server carried out.                            *)
LEMMA OwnRead ==
    ASSUME NEW q, WellFormed(q), Accepts(q), q.fn \in ReadFunction,
           NEW r, r.size = ResponseSize(q), r.first = First(q)
    PROVE  PassesRead(q, r) <=>
             q.fn \notin ReadBits /\ (q.fn \in ReadRegisters /\ SignedChar => q.cnt < 64)
<1>1. r.first = r.size - 9
    BY DEF First
<1>2. CASE q.fn \in ReadBits
  <2>1. q.cnt \in 1 .. 2000 /\ Packed(q.cnt) \in 1 .. 250 /\ r.size = 9 + Packed(q.cnt)
      BY <1>2, AcceptedCounts, ReadSizes
  <2>2. PICK p \in 1 .. 250 : p = Packed(q.cnt) /\ r.size = 9 + p /\ r.first = p
      BY <1>1, <2>1
  <2>3. Unpacked(r.size - 9) = 8 * p
      BY <2>2 DEF Unpacked
  <2>4. Widened(p) # 8 * p
      BY DEF Widened, uint16
  <2>5. q.fn \notin ReadRegisters
      BY <1>2, Codes
  <2>6. PassesRead(q, r) => Widened(r.first) = q.cnt /\ Unpacked(r.size - 9) = q.cnt
      BY <1>2, <2>5 DEF PassesRead
  <2>7. ~PassesRead(q, r)
      BY <2>2, <2>3, <2>4, <2>6
  <2>. QED  BY <1>2, <2>7
<1>3. CASE q.fn \in ReadRegisters
  <2>1. /\ q.cnt \in 1 .. 125 /\ q.fn \notin ReadBits /\ ByteCount(q) = 2 * q.cnt
        /\ r.size = 9 + 2 * q.cnt
      BY <1>3, Codes, AcceptedCounts, ReadSizes
  <2>2. PICK n \in 1 .. 125 : n = q.cnt
      BY <2>1
  <2>3. r.first = 2 * n /\ ByteCount(q) = 2 * n
      BY <1>1, <2>1, <2>2
  <2>4. Widened(2 * n) = 2 * n <=> (SignedChar => n < 64)
      BY WireAssumption DEF Widened, uint16
  <2>5. PassesRead(q, r) <=> Widened(2 * n) = 2 * n
      BY <1>3, <2>1, <2>3 DEF PassesRead
  <2>. QED  BY <1>3, <2>1, <2>2, <2>4, <2>5
<1>4. CASE q.fn \notin ReadBits /\ q.fn \notin ReadRegisters
  <2>1. q.fn = read_write_multiple_registers /\ q.fn \in ReadFunction \ ReadBits
      BY <1>4, Codes
  <2>2. /\ q.cnt \in 1 .. 125 /\ uint8(q.cnt * 2) = 2 * q.cnt
        /\ r.size = 9 + 2 * q.cnt
      BY <2>1, AcceptedCounts, ReadSizes
  <2>3. r.first = 2 * q.cnt /\ r.first \div 2 = q.cnt
      BY <1>1, <2>2
  <2>4. PassesRead(q, r)
      BY <1>4, <2>2, <2>3 DEF PassesRead
  <2>. QED  BY <1>4, <2>4
<1>. QED  BY <1>2, <1>3, <1>4

(* The answer to a write.                                                  *)
LEMMA OwnWrite ==
    ASSUME NEW q, WellFormed(q), q.fn \notin ReadFunction, NEW c \in {bits_off, bits_on},
           NEW r, r.addr = q.addr, r.word = Echo(q, c)
    PROVE  PassesWrite(q, r) <=> (q.fn = write_single_coil => r.word = q.word)
<1>1. CASE q.fn = write_single_coil
  <2>1. q.fn \notin {write_multiple_coils, write_multiple_registers}
      BY <1>1, Codes
  <2>2. r.word = c
      BY <1>1, <2>1 DEF Echo
  <2>. QED  BY <1>1, <2>1, <2>2 DEF PassesWrite
<1>2. CASE q.fn \in {write_multiple_coils, write_multiple_registers}
  <2>1. q.fn # write_single_coil
      BY <1>2, Codes
  <2>2. r.word = q.wcnt
      BY <1>2, <2>1 DEF Echo
  <2>. QED  BY <1>2, <2>1, <2>2 DEF PassesWrite
<1>3. CASE /\ q.fn # write_single_coil
           /\ q.fn \notin {write_multiple_coils, write_multiple_registers}
    BY <1>3 DEF PassesWrite, Echo
<1>. QED  BY <1>1, <1>2, <1>3

(* The replies to its own requests that a client takes.                    *)
LEMMA OwnResult ==
    ASSUME NEW a \in Answers, Accepts(a.to)
    PROVE  Decoded(a.to, a.reply) = "passed" <=> Understood(a.to, a.reply)
<1>. DEFINE q == a.to
            r == a.reply
<1>1. /\ WellFormed(q) /\ r.tr = q.tr /\ r.size \in 9 .. 259 /\ r.len = r.size - 6
      /\ CheckFunction(r.fn)
    BY EveryReply
<1>2. PICK c \in {bits_off, bits_on} : r = Response(q, c)
    BY DEF Answers
<1>3. /\ r.size = ResponseSize(q) /\ r.first = First(q) /\ r.addr = q.addr
      /\ r.word = Echo(q, c)
    BY <1>1, <1>2, ResultReply
<1>4. ~(r.size <= 7)
    BY <1>1
<1>5. Accepts(q)
    OBVIOUS
<1>. HIDE DEF q, r
<1>6. Stage(q, r) = "passed"
    BY <1>1, <1>4 DEF Stage
<1>7. DecodePassed(q, r) <=> Understood(q, r)
  <2>1. CASE q.fn \in ReadFunction
    <3>1. q.fn # write_single_coil
        BY <2>1, Codes
    <3>. QED  BY <1>1, <1>3, <1>5, <2>1, <3>1, OwnRead DEF DecodePassed, Understood
  <2>2. CASE q.fn \notin ReadFunction
    <3>1. q.fn \notin ReadBits /\ q.fn \notin ReadRegisters
        BY <2>2, Codes
    <3>. QED  BY <1>1, <1>3, <2>2, <3>1, OwnWrite DEF DecodePassed, Understood
  <2>. QED  BY <2>1, <2>2
<1>. QED  BY <1>6, <1>7, Outcomes DEF q, r

-----------------------------------------------------------------------------
(* What the client's encode refuses, and how long the frames it sends are. *)

LEMMA ValuesOfWrites ==
    ASSUME NEW q, WellFormed(q)
    PROVE  /\ q.fn = write_multiple_coils =>
                /\ ValueBytes(q) = Packed(q.n) /\ ByteCount(q) = Packed(uint8(q.wcnt))
                /\ FixedBytes(q) = 13
           /\ q.fn = write_multiple_registers =>
                /\ ValueBytes(q) = 2 * q.n /\ ByteCount(q) = uint8(q.wcnt * 2)
                /\ FixedBytes(q) = 13
           /\ q.fn = read_write_multiple_registers =>
                /\ ValueBytes(q) = 2 * q.n /\ ByteCount(q) = uint8(q.wcnt * 2)
                /\ FixedBytes(q) = 17
           /\ q.fn \notin {write_multiple_coils, write_multiple_registers,
                           read_write_multiple_registers} =>
                RequestSize(q) \in {12, 14}
<1>1. CASE q.fn = write_multiple_coils
  <2>1. /\ q.fn \notin {write_multiple_registers, read_write_multiple_registers}
        /\ q.fn \notin ReadBits /\ q.fn \notin ReadRegisters
        /\ q.fn # mask_write_register
      BY <1>1, Codes
  <2>. QED  BY <1>1, <2>1 DEF ValueBytes, ByteCount, FixedBytes
<1>2. CASE q.fn = write_multiple_registers
  <2>1. /\ q.fn \notin {write_multiple_coils, read_write_multiple_registers}
        /\ q.fn \notin ReadBits /\ q.fn \notin ReadRegisters
        /\ q.fn # mask_write_register
      BY <1>2, Codes
  <2>. QED  BY <1>2, <2>1 DEF ValueBytes, ByteCount, FixedBytes
<1>3. CASE q.fn = read_write_multiple_registers
  <2>1. /\ q.fn \notin {write_multiple_coils, write_multiple_registers}
        /\ q.fn \notin ReadBits /\ q.fn \notin ReadRegisters
        /\ q.fn # mask_write_register
      BY <1>3, Codes
  <2>. QED  BY <1>3, <2>1 DEF ValueBytes, ByteCount, FixedBytes
<1>4. CASE q.fn \notin {write_multiple_coils, write_multiple_registers,
                        read_write_multiple_registers}
  <2>1. ValueBytes(q) = 0
      BY <1>4 DEF ValueBytes
  <2>2. FixedBytes(q) \in {12, 14}
      BY <1>4 DEF FixedBytes
  <2>. QED  BY <1>4, <2>1, <2>2 DEF RequestSize
<1>. QED  BY <1>1, <1>2, <1>3, <1>4

(* A request refused with as many values as it counts.                     *)
LEMMA Refusals ==
    ASSUME NEW q, WellFormed(q), ~Encodes(q), q.n = q.wcnt, Accepts(q)
    PROVE  q.fn = write_multiple_coils /\ q.wcnt > 255
<1>1. /\ q.fn \in {write_multiple_coils, write_multiple_registers,
                   read_write_multiple_registers}
      /\ ValueBytes(q) # ByteCount(q)
    BY DEF Encodes
<1>2. ASSUME q.fn \in {write_multiple_registers, read_write_multiple_registers}
      PROVE  FALSE
  <2>1. q.fn \in WriteFunction \ {write_multiple_coils}
      BY <1>2, Codes
  <2>2. q.wcnt \in 1 .. 123
      BY <2>1, AcceptedCounts
  <2>3. uint8(q.wcnt * 2) = 2 * q.wcnt
      BY <2>2 DEF uint8
  <2>. QED  BY <1>1, <1>2, <2>3, ValuesOfWrites
<1>3. ASSUME q.fn = write_multiple_coils, ~(q.wcnt > 255)
      PROVE  FALSE
  <2>1. q.wcnt \in Nat
      BY FieldFacts, Words
  <2>2. PICK n \in Nat : n = q.wcnt
      BY <2>1
  <2>3. uint8(q.wcnt) = q.wcnt
      BY <1>3, <2>2 DEF uint8
  <2>. QED  BY <1>1, <1>3, <2>3, ValuesOfWrites
<1>. QED  BY <1>1, <1>2, <1>3

(* A request that is sent and carried out.                                 *)
LEMMA SentSizes ==
    ASSUME NEW q, WellFormed(q), Encodes(q), Accepts(q)
    PROVE  \/ RequestSize(q) <= max_adu_length
           \/ q.fn = read_write_multiple_registers /\ q.wcnt > 121
<1>1. CASE q.fn = write_multiple_coils
  <2>1. RequestSize(q) = 13 + Packed(uint8(q.wcnt))
      BY <1>1, ValuesOfWrites DEF Encodes, RequestSize
  <2>2. PICK n \in Nat : n = q.wcnt
      BY FieldFacts, Words
  <2>3. PICK b \in 0 .. 255 : b = uint8(n)
      BY DEF uint8
  <2>4. 13 + Packed(b) <= 260
      BY DEF Packed
  <2>. QED  BY <2>1, <2>2, <2>3, <2>4 DEF max_adu_length
<1>2. CASE q.fn = write_multiple_registers
  <2>1. q.wcnt \in 1 .. 123
      BY <1>2, Codes, AcceptedCounts
  <2>2. uint8(q.wcnt * 2) = 2 * q.wcnt
      BY <2>1 DEF uint8
  <2>3. RequestSize(q) = 13 + 2 * q.wcnt
      BY <1>2, <2>2, ValuesOfWrites DEF Encodes, RequestSize
  <2>. QED  BY <2>1, <2>3 DEF max_adu_length
<1>3. CASE q.fn = read_write_multiple_registers
  <2>1. q.wcnt \in 1 .. 123
      BY <1>3, Codes, AcceptedCounts
  <2>2. uint8(q.wcnt * 2) = 2 * q.wcnt
      BY <2>1 DEF uint8
  <2>3. RequestSize(q) = 17 + 2 * q.wcnt
      BY <1>3, <2>2, ValuesOfWrites DEF Encodes, RequestSize
  <2>. QED  BY <1>3, <2>1, <2>3 DEF max_adu_length
<1>4. CASE q.fn \notin {write_multiple_coils, write_multiple_registers,
                        read_write_multiple_registers}
    BY <1>4, ValuesOfWrites DEF max_adu_length
<1>. QED  BY <1>1, <1>2, <1>3, <1>4

-----------------------------------------------------------------------------
(* A chunk of several replies is longer than the frame its header tells.   *)

(* Induction, on a set of numbers.                                         *)
LEMMA Least ==
    ASSUME NEW T \in SUBSET Nat, T # {}
    PROVE  \E x \in T : \A y \in T : x <= y
<1>1. IsWellFoundedOn(OpToRel(<, Nat), Nat)
    BY NatLessThanWellFounded
<1>2. PICK x \in T : \A y \in T : ~(<< y, x >> \in OpToRel(<, Nat))
    BY <1>1, WFMin
<1>3. \A y \in T : ~(y < x)
    BY <1>2 DEF OpToRel
<1>. QED  BY <1>3

LEMMA Everywhere ==
    ASSUME NEW S, 0 \in S, \A n \in Nat : n \in S => n + 1 \in S
    PROVE  Nat \subseteq S
<1>. DEFINE T == Nat \ S
<1>1. SUFFICES ASSUME T # {} PROVE FALSE
    OBVIOUS
<1>2. PICK x \in T : \A y \in T : x <= y
    BY <1>1, Least
<1>3. x - 1 \in Nat /\ x - 1 \notin T
    BY <1>2
<1>. QED  BY <1>2, <1>3

(* The sums of the first sizes, which Chunk defines by recursion.          *)
Sums(f, k) ==
    f = [i \in 0 .. k |-> IF i = 0 THEN 0 ELSE f[i - 1] + wire[i].reply.size]

LEMMA SumsExist ==
    ASSUME NEW k \in Nat, \A i \in 1 .. k : wire[i].reply.size \in Nat
    PROVE  \E f : Sums(f, k)
<1>. DEFINE S == {m \in Nat : m <= k => \E f \in [0 .. m -> Nat] : Sums(f, m)}
<1>1. 0 \in S
  <2>. DEFINE f == [i \in 0 .. 0 |-> 0]
  <2>1. f \in [0 .. 0 -> Nat] /\ Sums(f, 0)
      BY DEF Sums
  <2>. QED  BY <2>1
<1>2. ASSUME NEW m \in Nat, m \in S
      PROVE  m + 1 \in S
  <2>1. SUFFICES ASSUME m + 1 <= k
                 PROVE  \E g \in [0 .. (m + 1) -> Nat] : Sums(g, m + 1)
      OBVIOUS
  <2>2. PICK f \in [0 .. m -> Nat] : Sums(f, m)
      BY <1>2, <2>1
  <2>3. wire[m + 1].reply.size \in Nat
      BY <2>1
  <2>. DEFINE g == [i \in 0 .. (m + 1) |->
                      IF i = m + 1 THEN f[m] + wire[m + 1].reply.size ELSE f[i]]
  <2>4. g \in [0 .. (m + 1) -> Nat]
      BY <2>2, <2>3
  <2>5. ASSUME NEW i \in 0 .. (m + 1)
        PROVE  g[i] = IF i = 0 THEN 0 ELSE g[i - 1] + wire[i].reply.size
    <3>1. CASE i = m + 1
        BY <3>1
    <3>2. CASE i # m + 1 /\ i # 0
      <4>1. i \in 0 .. m /\ i - 1 \in 0 .. m /\ i - 1 \in 0 .. (m + 1) /\ i - 1 # m + 1
          BY <3>2
      <4>2. f[i] = f[i - 1] + wire[i].reply.size
          BY <2>2, <3>2, <4>1 DEF Sums
      <4>. QED  BY <3>2, <4>1, <4>2
    <3>3. CASE i = 0
      <4>1. 0 \in 0 .. m /\ 0 # m + 1
          OBVIOUS
      <4>2. f[0] = 0
          BY <2>2, <4>1 DEF Sums
      <4>. QED  BY <3>3, <4>1, <4>2
    <3>. QED  BY <3>1, <3>2, <3>3
  <2>. HIDE DEF g
  <2>6. g = [i \in 0 .. (m + 1) |-> g[i]]
      BY <2>4
  <2>7. Sums(g, m + 1)
      BY <2>5, <2>6 DEF Sums
  <2>. QED  BY <2>4, <2>7
<1>. HIDE DEF S
<1>3. k \in S
    BY <1>1, <1>2, Everywhere
<1>. QED  BY <1>3 DEF S

LEMMA SumsGrow ==
    ASSUME NEW k \in Nat, \A i \in 1 .. k : wire[i].reply.size \in Nat \ {0},
           NEW f, Sums(f, k)
    PROVE  /\ k >= 1 => f[1] = wire[1].reply.size
           /\ k >= 2 => f[k] \in Nat /\ f[k] > wire[1].reply.size
<1>. DEFINE size(i) == wire[i].reply.size
<1>1. f[0] = 0 /\ \A i \in 1 .. k : f[i] = f[i - 1] + size(i)
  <2>1. 0 \in 0 .. k /\ \A i \in 1 .. k : i \in 0 .. k /\ i # 0
      OBVIOUS
  <2>. QED  BY <2>1 DEF Sums
<1>2. k >= 1 => f[1] = size(1)
  <2>1. ASSUME k >= 1
        PROVE  f[1] = size(1)
    <3>1. 1 \in 1 .. k
        BY <2>1
    <3>2. f[1] = f[1 - 1] + size(1) /\ size(1) \in Nat
        BY <1>1, <3>1
    <3>. QED  BY <1>1, <3>2
  <2>. QED  BY <2>1
<1>. DEFINE S == {m \in Nat : m + 2 <= k => f[m + 2] \in Nat /\ f[m + 2] > size(1)}
<1>3. 0 \in S
  <2>1. ASSUME 2 <= k
        PROVE  f[2] \in Nat /\ f[2] > size(1)
    <3>1. 1 \in 1 .. k /\ 2 \in 1 .. k
        BY <2>1
    <3>2. size(1) \in Nat \ {0} /\ size(2) \in Nat \ {0}
        BY <3>1
    <3>3. f[2] = f[2 - 1] + size(2)
        BY <1>1, <3>1
    <3>4. f[2] = size(1) + size(2)
        BY <1>2, <2>1, <3>3
    <3>. HIDE DEF size
    <3>. QED  BY <3>2, <3>4
  <2>. QED  BY <2>1
<1>4. ASSUME NEW m \in Nat, m \in S
      PROVE  m + 1 \in S
  <2>1. ASSUME m + 3 <= k
        PROVE  f[m + 3] \in Nat /\ f[m + 3] > size(1)
    <3>1. m + 3 \in 1 .. k /\ 1 \in 1 .. k /\ m + 2 <= k /\ (m + 3) - 1 = m + 2
        BY <2>1
    <3>2. f[m + 3] = f[m + 2] + size(m + 3)
        BY <1>1, <3>1
    <3>3. size(1) \in Nat \ {0} /\ size(m + 3) \in Nat \ {0}
        BY <3>1
    <3>4. f[m + 2] \in Nat /\ f[m + 2] > size(1)
        BY <1>4, <3>1
    <3>. HIDE DEF size
    <3>. QED  BY <3>2, <3>3, <3>4
  <2>2. (m + 1) + 2 = m + 3 /\ m + 1 \in Nat
      OBVIOUS
  <2>. QED  BY <2>1, <2>2
<1>. HIDE DEF S
<1>5. \A m \in Nat : m \in S
    BY <1>3, <1>4, Everywhere
<1>6. ASSUME k >= 2
      PROVE  f[k] \in Nat /\ f[k] > size(1)
  <2>1. k - 2 \in Nat /\ (k - 2) + 2 = k
      BY <1>6
  <2>. QED  BY <1>5, <2>1 DEF S
<1>. QED  BY <1>2, <1>6

LEMMA ChunkSizes ==
    ASSUME NEW k \in Nat \ {0}, \A i \in 1 .. k : wire[i].reply.size \in Nat \ {0},
           wire[1].reply \in Reply
    PROVE  /\ k = 1 => Chunk(k) = wire[1].reply
           /\ k # 1 => /\ Chunk(k).size > wire[1].reply.size
                       /\ Chunk(k).len = wire[1].reply.len
                       /\ Chunk(k).size \in Nat
<1>. DEFINE size == CHOOSE f : Sums(f, k)
<1>1. Sums(size, k)
    BY SumsExist
<1>2. Chunk(k) = [wire[1].reply EXCEPT !.size = size[k]]
    BY DEF Chunk, Sums
<1>. HIDE DEF size
<1>3. /\ k >= 1 => size[1] = wire[1].reply.size
      /\ k >= 2 => size[k] \in Nat /\ size[k] > wire[1].reply.size
    BY <1>1, SumsGrow
<1>4. CASE k = 1
  <2>1. size[k] = wire[1].reply.size
      BY <1>3, <1>4
  <2>. QED  BY <1>2, <1>4, <2>1 DEF Reply
<1>5. CASE k # 1
  <2>1. size[k] \in Nat /\ size[k] > wire[1].reply.size
      BY <1>3, <1>5
  <2>2. Chunk(k).size = size[k] /\ Chunk(k).len = wire[1].reply.len
      BY <1>2 DEF Reply
  <2>. QED  BY <1>5, <2>1, <2>2
<1>. QED  BY <1>4, <1>5

-----------------------------------------------------------------------------
(* The inductive invariant.                                                *)

LEMMA ResponseIsAnswer ==
    ASSUME NEW q \in Sendable, NEW c \in {bits_off, bits_on}
    PROVE  [reply |-> Response(q, c), to |-> q] \in Answers
<1>1. WellFormed(q)
    BY ClientExchangeAssumption DEF Sendable
<1>2. Response(q, c) \in Reply
    BY <1>1, ExceptionReply, ResultReply
<1>. QED  BY <1>2 DEF Answers

LEMMA NextCoil ==
    ASSUME NEW q, WellFormed(q), NEW c \in {bits_off, bits_on}
    PROVE  (IF q.fn = write_single_coil /\ Accepts(q) THEN q.word ELSE c)
                \in {bits_off, bits_on}
    BY FieldFacts

LEMMA WireParts ==
    ASSUME IInv
    PROVE  /\ Len(wire) \in Nat
           /\ \A i \in 1 .. Len(wire) : wire[i] \in Answers
    BY LenProperties, ElementOfSeq DEF IInv

(* The request of the client is one of the user's while a reply is under   *)
(* way.                                                                    *)
LEMMA CurrentIsSent ==
    ASSUME IInv, current # NoRequest
    PROVE  current \in Sendable /\ WellFormed(current)
    BY ClientExchangeAssumption DEF IInv, Sendable

LEMMA IInvInit ==
    Init => IInv
<1>1. SUFFICES ASSUME Init PROVE IInv
    OBVIOUS
<1>2. << >> \in Seq(Answers) /\ Len(<< >>) = 0
    BY EmptySeq
<1>3. 1 .. 0 = {}
    OBVIOUS
<1>. QED  BY <1>1, <1>2, <1>3 DEF Init, IInv

LEMMA IInvSend ==
    ASSUME IInv, NEW q \in Request, Send(q)
    PROVE  IInv'
<1>1. q \in Sendable /\ WellFormed(q)
    BY ClientExchangeAssumption DEF Send, Sendable
<1>. DEFINE a == [reply |-> Response(q, coil), to |-> q]
<1>2. a \in Answers /\ a.to = q
    BY <1>1, ResponseIsAnswer DEF IInv
<1>3. wire' = Append(wire, a) /\ current' = q
    BY DEF Send, Handled
<1>. HIDE DEF a
<1>4. coil' \in {bits_off, bits_on}
    BY <1>1, NextCoil DEF Send, Handled, IInv
<1>5. /\ wire' \in Seq(Answers) /\ Len(wire') = Len(wire) + 1
      /\ \A i \in 1 .. Len(wire) : wire'[i] = wire[i]
      /\ wire'[Len(wire) + 1] = a
    BY <1>2, <1>3, AppendProperties DEF IInv
<1>6. current' # NoRequest
  <2>1. q.fn # 0
      BY <1>1, FieldFacts, Codes
  <2>. QED  BY <1>3, <2>1 DEF NoRequest
<1>7. ASSUME FreshIds', NEW i \in 1 .. Len(wire'), wire'[i].to.tr = current'.tr
      PROVE  wire'[i].to = current'
  <2>1. IsFresh(q)
      BY <1>7 DEF Send
  <2>2. CASE i = Len(wire) + 1
      BY <1>2, <1>3, <1>5, <2>2
  <2>3. CASE i # Len(wire) + 1
    <3>1. i \in 1 .. Len(wire)
        BY <1>5, <2>3, WireParts
    <3>2. wire'[i].to.tr # q.tr
        BY <1>5, <2>1, <3>1 DEF IsFresh
    <3>. QED  BY <1>3, <1>7, <3>2
  <2>. QED  BY <2>2, <2>3
<1>. QED  BY <1>1, <1>3, <1>4, <1>5, <1>6, <1>7 DEF IInv, Sendable, Answers

LEMMA IInvReceive ==
    ASSUME IInv, NEW k \in 1 .. Len(wire), Receive(k)
    PROVE  IInv'
<1>1. Len(wire) \in Nat /\ wire \in Seq(Answers) /\ k \in Nat
    BY WireParts DEF IInv
<1>2. wire' = SubSeq(wire, k + 1, Len(wire)) /\ current' = current /\ coil' = coil
    BY DEF Receive
<1>3. /\ wire' \in Seq(Answers) /\ Len(wire') = Len(wire) - k
      /\ \A i \in 1 .. Len(wire') : i + k \in 1 .. Len(wire) /\ wire'[i] = wire[i + k]
  <2>1. wire' \in Seq(Answers)
      BY <1>1, <1>2, SubSeqProperties
  <2>2. Len(wire') = Len(wire) - k
      BY <1>1, <1>2
  <2>3. ASSUME NEW i \in 1 .. Len(wire')
        PROVE  i + k \in 1 .. Len(wire) /\ wire'[i] = wire[i + k]
      BY <1>1, <1>2, <2>2
  <2>. QED  BY <2>1, <2>2, <2>3
<1>4. current # NoRequest
  <2>1. wire # << >>
      BY <1>1
  <2>. QED  BY <2>1 DEF IInv
<1>. QED  BY <1>2, <1>3, <1>4 DEF IInv, Sendable, Answers

LEMMA IInvReconnect ==
    ASSUME IInv, Reconnect
    PROVE  IInv'
<1>1. current \in Sendable /\ WellFormed(current) /\ current # NoRequest
    BY CurrentIsSent DEF Reconnect
<1>. DEFINE a == [reply |-> Response(current, coil), to |-> current]
<1>2. a \in Answers /\ a.to = current
    BY <1>1, ResponseIsAnswer DEF IInv
<1>3. wire' = Append(<< >>, a) /\ current' = current
    BY DEF Reconnect, Handled
<1>. HIDE DEF a
<1>4. coil' \in {bits_off, bits_on}
    BY <1>1, NextCoil DEF Reconnect, Handled, IInv
<1>5. << >> \in Seq(Answers) /\ Len(<< >>) = 0
    BY EmptySeq
<1>6. wire' \in Seq(Answers) /\ Len(wire') = 1 /\ wire'[1] = a
    BY <1>2, <1>3, <1>5, AppendProperties
<1>7. \A i \in 1 .. Len(wire') : wire'[i].to = current'
    BY <1>2, <1>3, <1>6
<1>. QED  BY <1>1, <1>3, <1>4, <1>6, <1>7 DEF IInv, Sendable, Answers

LEMMA IInvStep ==
    IInv /\ [Next]_vars => IInv'
<1>1. SUFFICES ASSUME IInv, [Next]_vars PROVE IInv'
    OBVIOUS
<1>2. ASSUME NEW q \in Request, Send(q) PROVE IInv'
    BY <1>1, <1>2, IInvSend
<1>3. ASSUME NEW q \in Request, Unsendable(q) PROVE IInv'
    BY <1>1, <1>3 DEF Unsendable, IInv, Sendable, Answers
<1>4. ASSUME NEW k \in 1 .. Len(wire), Receive(k) PROVE IInv'
    BY <1>1, <1>4, IInvReceive
<1>5. CASE Reconnect
    BY <1>1, <1>5, IInvReconnect
<1>6. CASE UNCHANGED vars
    BY <1>1, <1>6 DEF vars, IInv, Sendable, Answers
<1>. QED  BY <1>1, <1>2, <1>3, <1>4, <1>5, <1>6 DEF Next

(* IInv: the client has sent what it waits on, the wire carries the        *)
(* server's answers to requests that were sent, and with transactions of   *)
(* their own only the answer of the request waited on has its transaction. *)
THEOREM ExchangeInvariant == Spec => []IInv
<1>1. Init => IInv
    BY IInvInit
<1>2. IInv /\ [Next]_vars => IInv'
    BY IInvStep
<1>. QED  BY <1>1, <1>2, PTL DEF Spec

-----------------------------------------------------------------------------
(* What a decode may conclude.                                             *)

(* A step that decodes gives the outcome of the chunk, to the request the  *)
(* client waits on.                                                        *)
LEMMA ReceiveOutcome ==
    ASSUME IInv, NEW k \in 1 .. Len(wire), Receive(k)
    PROVE  /\ wire[1] \in Answers /\ current \in Sendable /\ WellFormed(current)
           /\ outcome'.kind = Decoded(current, Chunk(k))
           /\ outcome'.req = current /\ outcome'.to = wire[1].to
           /\ outcome'.reply = Chunk(k) /\ outcome'.alone = (k = 1)
           /\ k = 1 => Chunk(k) = wire[1].reply
           /\ k # 1 => outcome'.kind = "bad_data"
<1>1. Len(wire) \in Nat /\ \A i \in 1 .. Len(wire) : wire[i] \in Answers
    BY WireParts
<1>2. wire \in Seq(Answers) /\ wire # << >> /\ 1 \in 1 .. Len(wire)
    BY <1>1 DEF IInv
<1>3. current \in Sendable /\ WellFormed(current) /\ Head(wire) = wire[1]
    BY <1>2, CurrentIsSent DEF IInv
<1>4. /\ outcome'.kind = Decoded(current, Chunk(k))
      /\ outcome'.req = current /\ outcome'.to = wire[1].to
      /\ outcome'.reply = Chunk(k) /\ outcome'.alone = (k = 1)
    BY <1>3 DEF Receive
<1>5. /\ \A i \in 1 .. k : wire[i].reply.size \in Nat \ {0}
      /\ wire[1].reply \in Reply /\ wire[1].reply.size \in Nat
      /\ wire[1].reply.len = wire[1].reply.size - 6
  <2>1. \A i \in 1 .. k : i \in 1 .. Len(wire)
      BY <1>1
  <2>2. \A i \in 1 .. Len(wire) : wire[i].reply.size \in 9 .. 259
      BY <1>1, EveryReply
  <2>3. \A m \in 9 .. 259 : m \in Nat \ {0}
      OBVIOUS
  <2>. QED  BY <1>1, <1>2, <2>1, <2>2, <2>3, EveryReply
<1>6. k \in Nat \ {0}
    BY <1>1
<1>7. /\ k = 1 => Chunk(k) = wire[1].reply
      /\ k # 1 => /\ Chunk(k).size > wire[1].reply.size
                  /\ Chunk(k).len = wire[1].reply.len
                  /\ Chunk(k).size \in Nat
    BY <1>5, <1>6, ChunkSizes
<1>8. ASSUME k # 1
      PROVE  Decoded(current, Chunk(k)) = "bad_data"
  <2>1. Chunk(k).len # Chunk(k).size - 6
      BY <1>5, <1>7, <1>8
  <2>. QED  BY <2>1, Rejected
<1>. QED  BY <1>1, <1>2, <1>3, <1>4, <1>7, <1>8

LEMMA ReceiveExceptions ==
    ASSUME IInv, NEW k \in 1 .. Len(wire), Receive(k)
    PROVE  ExceptionsRecognised'
<1>1. SUFFICES ASSUME Decoding', outcome'.alone
               PROVE  /\ outcome'.kind = "exception" => ~Accepts(outcome'.to)
                      /\ outcome'.kind = "passed" => Accepts(outcome'.to)
                      /\ outcome'.to = outcome'.req /\ ~Accepts(outcome'.req) =>
                            outcome'.kind = "exception"
    BY DEF ExceptionsRecognised, Own
<1>2. /\ wire[1] \in Answers /\ WellFormed(current)
      /\ outcome'.kind = Decoded(current, wire[1].reply)
      /\ outcome'.req = current /\ outcome'.to = wire[1].to
    BY <1>1, ReceiveOutcome
<1>. QED  BY <1>2, NeverMistaken, OwnException

LEMMA ReceiveLate ==
    ASSUME IInv, NEW k \in 1 .. Len(wire), Receive(k)
    PROVE  LateReplyRejected'
<1>1. SUFFICES ASSUME FreshIds, ~(outcome'.alone /\ outcome'.to = outcome'.req)
               PROVE  outcome'.kind = "bad_data"
    BY DEF LateReplyRejected, Own
<1>2. CASE k # 1
    BY <1>2, ReceiveOutcome
<1>3. CASE k = 1
  <2>1. /\ wire[1] \in Answers /\ wire[1].to # current
        /\ outcome'.kind = Decoded(current, wire[1].reply)
      BY <1>1, <1>3, ReceiveOutcome
  <2>2. 1 \in 1 .. Len(wire)
      BY <1>3
  <2>3. wire[1].to.tr # current.tr
      BY <1>1, <2>1, <2>2 DEF IInv
  <2>4. wire[1].reply.tr # current.tr
      BY <2>1, <2>3, EveryReply
  <2>. QED  BY <2>1, <2>4, Rejected
<1>. QED  BY <1>2, <1>3

LEMMA ReceiveUnderstood ==
    ASSUME IInv, NEW k \in 1 .. Len(wire), Receive(k)
    PROVE  RepliesUnderstood'
<1>1. SUFFICES ASSUME outcome'.alone, outcome'.to = outcome'.req, Accepts(outcome'.req)
               PROVE  outcome'.kind = "passed" <=> Understood(outcome'.req, outcome'.reply)
    BY DEF RepliesUnderstood, Own
<1>2. /\ wire[1] \in Answers /\ wire[1].to = current
      /\ outcome'.kind = Decoded(current, wire[1].reply)
      /\ outcome'.req = current /\ outcome'.reply = wire[1].reply
    BY <1>1, ReceiveOutcome
<1>. QED  BY <1>1, <1>2, OwnResult

LEMMA ReceiveSends ==
    ASSUME IInv, NEW k \in 1 .. Len(wire), Receive(k)
    PROVE  UnsendableWereInvalid'
<1>1. outcome'.kind # "unsendable"
    BY ReceiveOutcome, Outcomes
<1>. QED  BY <1>1 DEF UnsendableWereInvalid

(* Only Receive and Unsendable conclude anything.                          *)
Conclusions ==
    /\ ExceptionsRecognised
    /\ LateReplyRejected
    /\ RepliesUnderstood
    /\ UnsendableWereInvalid

LEMMA NoConclusion ==
    ASSUME outcome.kind = "none"
    PROVE  Conclusions
    BY DEF Conclusions, ExceptionsRecognised, LateReplyRejected, RepliesUnderstood,
           UnsendableWereInvalid, Own, Decoding

LEMMA UnsendableConcludes ==
    ASSUME NEW q \in Request, Unsendable(q)
    PROVE  Conclusions'
<1>1. outcome'.kind = "unsendable" /\ outcome'.req = q /\ ~Encodes(q)
    BY DEF Unsendable
<1>2. ~Decoding'
    BY <1>1 DEF Decoding
<1>3. ExceptionsRecognised' /\ LateReplyRejected' /\ RepliesUnderstood'
    BY <1>2 DEF ExceptionsRecognised, LateReplyRejected, RepliesUnderstood, Own
<1>4. UnsendableWereInvalid'
  <2>1. WellFormed(q)
      BY ClientExchangeAssumption
  <2>. QED  BY <1>1, <2>1, Refusals DEF UnsendableWereInvalid
<1>. QED  BY <1>3, <1>4 DEF Conclusions

LEMMA ConclusionsStep ==
    IInv /\ Conclusions /\ [Next]_vars => Conclusions'
<1>1. SUFFICES ASSUME IInv, Conclusions, [Next]_vars PROVE Conclusions'
    OBVIOUS
<1>2. ASSUME outcome' = NoOutcome PROVE Conclusions'
  <2>1. outcome'.kind = "none"
      BY <1>2 DEF NoOutcome
  <2>. QED  BY <2>1 DEF Conclusions, ExceptionsRecognised, LateReplyRejected,
                RepliesUnderstood, UnsendableWereInvalid, Own, Decoding
<1>3. ASSUME NEW q \in Request, Send(q) PROVE Conclusions'
    BY <1>2, <1>3 DEF Send
<1>4. ASSUME NEW q \in Request, Unsendable(q) PROVE Conclusions'
    BY <1>4, UnsendableConcludes
<1>5. ASSUME NEW k \in 1 .. Len(wire), Receive(k) PROVE Conclusions'
    BY <1>1, <1>5, ReceiveExceptions, ReceiveLate, ReceiveUnderstood, ReceiveSends
       DEF Conclusions
<1>6. CASE Reconnect
    BY <1>2, <1>6 DEF Reconnect
<1>7. CASE UNCHANGED vars
    BY <1>1, <1>7 DEF vars, Conclusions, ExceptionsRecognised, LateReplyRejected,
           RepliesUnderstood, UnsendableWereInvalid, Own, Decoding
<1>. QED  BY <1>1, <1>3, <1>4, <1>5, <1>6, <1>7 DEF Next

LEMMA ConclusionsHold == Spec => []Conclusions
<1>1. Init => Conclusions
    BY NoConclusion DEF Init, NoOutcome
<1>2. IInv /\ Conclusions /\ [Next]_vars => Conclusions'
    BY ConclusionsStep
<1>. QED  BY <1>1, <1>2, ExchangeInvariant, PTL DEF Spec

(* ExceptionsRecognised: check_stage never takes an exception for a result *)
(* or a result for an exception, whichever request the reply answers, and  *)
(* takes the exception its own request earned for one.                     *)
THEOREM ExceptionsAreTold == Spec => []ExceptionsRecognised
<1>1. Conclusions => ExceptionsRecognised
    BY DEF Conclusions
<1>. QED  BY <1>1, ConclusionsHold, PTL

(* LateReplyRejected: given a transaction of its own for every request, a  *)
(* reply to an earlier one, and a chunk of several replies, is bad_data.   *)
THEOREM LateRepliesAreRejected == Spec => []LateReplyRejected
<1>1. Conclusions => LateReplyRejected
    BY DEF Conclusions
<1>. QED  BY <1>1, ConclusionsHold, PTL

(* RepliesUnderstood: exactly which replies to its own requests the        *)
(* client's decode takes, over every count the server accepts.             *)
THEOREM WhichRepliesAreTaken == Spec => []RepliesUnderstood
<1>1. Conclusions => RepliesUnderstood
    BY DEF Conclusions
<1>. QED  BY <1>1, ConclusionsHold, PTL

(* UnsendableWereInvalid: encode refuses no request the server would carry *)
(* out, but a write of more than 255 coils.                                *)
THEOREM RefusalsAreJustified == Spec => []UnsendableWereInvalid
<1>1. Conclusions => UnsendableWereInvalid
    BY DEF Conclusions
<1>. QED  BY <1>1, ConclusionsHold, PTL

(* FramesFit: no reply exceeds the 260 bytes of an ADU, and no request     *)
(* that is carried out does but a read_write_multiple_registers that       *)
(* writes more than 121 registers.                                         *)
THEOREM FramesFitTheADU == Spec => []FramesFit
<1>1. ASSUME IInv PROVE FramesFit
  <2>1. ASSUME NEW i \in 1 .. Len(wire)
        PROVE  /\ wire[i].reply.size <= max_adu_length
               /\ Accepts(wire[i].to) =>
                    \/ RequestSize(wire[i].to) <= max_adu_length
                    \/ /\ wire[i].to.fn = read_write_multiple_registers
                       /\ wire[i].to.wcnt > 121
    <3>1. wire[i] \in Answers
        BY <1>1, WireParts
    <3>2. /\ wire[i].to \in Sendable /\ WellFormed(wire[i].to)
          /\ wire[i].reply.size \in 9 .. 259
        BY <3>1, EveryReply
    <3>3. wire[i].reply.size <= max_adu_length
      <4>1. \A m \in 9 .. 259 : m <= max_adu_length
          BY DEF max_adu_length
      <4>. QED  BY <3>2, <4>1
    <3>4. Encodes(wire[i].to)
        BY <3>2 DEF Sendable
    <3>. QED  BY <3>2, <3>3, <3>4, SentSizes
  <2>. QED  BY <2>1 DEF FramesFit
<1>. QED  BY <1>1, ExchangeInvariant, PTL
=============================================================================
