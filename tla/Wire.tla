-------------------------------- MODULE Wire --------------------------------
(***************************************************************************)
(* The frames of an exchange and the arithmetic both ends do on them: what *)
(* the client's encode refuses, how the server's decode, execute and       *)
(* encode answer, and what the client's decode makes of the answer.  Sizes *)
(* and counts are the real ones, at the widths of the C++ types; words     *)
(* other than a count or a coil are left out.                              *)
(*                                                                         *)
(* A request q: its function fn, transaction tr, the range addr, cnt it    *)
(* reads (or wcnt it writes), n the number of values the user gave, word   *)
(* the value of a single write.                                            *)
(***************************************************************************)
EXTENDS ModbusDefs

CONSTANT SignedChar     \* is char signed, as it is on x86?

ASSUME WireAssumption == SignedChar \in BOOLEAN

max_num_bits_read == 2000
max_num_regs_read == 125
max_num_bits_write == 1968
max_num_regs_write == 123
max_adu_length == 260
bits_off == 0
bits_on == 65280

(* The table of the standalone server: every block has 65535 cells from 0. *)
default_capacity == 65535

ReadBits == {read_coils, read_discrete_inputs}
ReadRegisters == {read_holding_registers, read_input_registers}

uint8(i) == i % 256
uint16(i) == i % 65536

(* What the types of the fields let a user build: any 16-bit word in each, *)
(* one of the two coil words in a write_single_coil, any number of values. *)
Word == 0 .. 65535
WellFormed(q) ==
    /\ q \in [fn : Supported, tr : Word, addr : Word, cnt : Word, wcnt : Word,
              n : Nat, word : Word]
    /\ q.fn = write_single_coil => q.word \in {bits_off, bits_on}

(* The bytes pack_bits makes of n bits, the values unpack_bits makes of    *)
(* them again.                                                             *)
Packed(n) == (n + 7) \div 8
Unpacked(bytes) == 8 * bytes

(* A byte count that counts registers.                                     *)
ByteCountOfWords(q) ==
    CASE q.fn \in ReadBits -> uint16(Packed(q.cnt))
      [] q.fn \in ReadRegisters -> uint16(q.cnt * 2)
      [] q.fn = write_multiple_coils -> Packed(uint8(q.wcnt))
      [] OTHER -> uint8(q.wcnt)

(* byte_count() of each request.  Coils are counted in a byte.             *)
ByteCount(q) ==
    CASE q.fn \in ReadBits -> uint16(Packed(q.cnt))
      [] q.fn \in ReadRegisters -> uint16(q.cnt * 2)
      [] q.fn = write_multiple_coils -> Packed(uint8(q.wcnt))
      [] OTHER -> uint8(q.wcnt * 2)

(* What encode puts after the header and the fixed fields.                 *)
ValueBytes(q) ==
    CASE q.fn = write_multiple_coils -> Packed(q.n)
      [] q.fn \in {write_multiple_registers, read_write_multiple_registers} ->
            2 * q.n
      [] OTHER -> 0

FixedBytes(q) ==
    CASE q.fn \in {write_multiple_coils, write_multiple_registers} -> 13
      [] q.fn = mask_write_register -> 14
      [] q.fn = read_write_multiple_registers -> 17
      [] OTHER -> 12

RequestSize(q) == FixedBytes(q) + ValueBytes(q)

(* encode: only the size of the values is compared with the byte count;    *)
(* address_.validate() and count_.validate() are always true.              *)
Encodes(q) ==
    q.fn \in {write_multiple_coils, write_multiple_registers,
              read_write_multiple_registers} => ValueBytes(q) = ByteCount(q)

-----------------------------------------------------------------------------
(* The server.                                                             *)
InTable(addr, n, limit) == 0 < n /\ n <= limit /\ addr + n <= default_capacity

ReadOK(q) ==
    InTable(q.addr, q.cnt, IF q.fn \in ReadBits THEN max_num_bits_read
                           ELSE max_num_regs_read)
WriteOK(q) ==
    InTable(q.addr, q.wcnt, IF q.fn = write_multiple_coils
                            THEN max_num_bits_write ELSE max_num_regs_write)

(* A write checked against the limit of reads.                             *)
AcceptsAsRead(q) ==
    /\ q.fn \in ReadFunction => ReadOK(q)
    /\ q.fn \in WriteFunction =>
         InTable(q.addr, q.wcnt, IF q.fn = write_multiple_coils
                                 THEN max_num_bits_read ELSE max_num_regs_read)

Accepts(q) ==
    /\ q.fn \in ReadFunction => ReadOK(q)
    /\ q.fn \in WriteFunction => WriteOK(q)

ResponseSize(q) ==
    CASE q.fn \in ReadBits -> 9 + ByteCount(q)
      [] q.fn \in ReadRegisters -> 9 + ByteCount(q)
      [] q.fn = read_write_multiple_registers -> 9 + uint8(q.cnt * 2)
      [] q.fn = mask_write_register -> 14
      [] OTHER -> 12

(* The response: its byte count field first for a read, the address and    *)
(* the second word it echoes for a write.  A single coil is answered with  *)
(* what the table held before the write.                                   *)
Frame(q, fn, size, first, word) ==
    [tr |-> q.tr, len |-> size - 6, fn |-> fn, size |-> size, first |-> first,
     addr |-> q.addr, word |-> word]

CoilEcho(q, coil) == coil

Response(q, coil) ==
    IF ~Accepts(q)
    THEN Frame(q, ErrorFunction(q.fn), 9, illegal_data_address, 0)
    ELSE CASE q.fn \in ReadFunction ->
                Frame(q, q.fn, ResponseSize(q), uint8(ResponseSize(q) - 9), 0)
           [] q.fn = write_single_coil ->
                Frame(q, q.fn, 12, 0, CoilEcho(q, coil))
           [] q.fn \in {write_multiple_coils, write_multiple_registers} ->
                Frame(q, q.fn, 12, 0, q.wcnt)
           [] OTHER -> Frame(q, q.fn, ResponseSize(q), 0, q.word)

-----------------------------------------------------------------------------
(* The client.  check_stage compares the header, then the function: when   *)
(* the packet's function is one decode_header accepts, it has replaced the *)
(* expected one before the comparison.                                     *)
Expected(q, r) == IF CheckFunction(r.fn) THEN r.fn ELSE q.fn

(* The same without the comparison of the transactions.                    *)
StageAnyTransaction(q, r) ==
    IF r.size <= 7 \/ r.len # r.size - 6 THEN "bad"
    ELSE IF Expected(q, r) = r.fn \/ CheckFunction(r.fn) THEN "passed"
    ELSE IF Expected(q, r) = (r.fn - 128) % 256 THEN "error" ELSE "bad"

Stage(q, r) ==
    IF r.size <= 7 \/ q.tr # r.tr \/ r.len # r.size - 6 THEN "bad"
    ELSE IF Expected(q, r) = r.fn \/ CheckFunction(r.fn) THEN "passed"
    ELSE IF Expected(q, r) = (r.fn - 128) % 256 THEN "error" ELSE "bad"

(* static_cast<std::uint16_t>(packet[i]) of a packet of char.              *)
Widened(byte) ==
    IF SignedChar /\ byte >= 128 THEN uint16(byte - 256) ELSE byte

(* A byte count read as a char in every response.                          *)
PassesReadAsChar(q, r) ==
    CASE q.fn \in ReadBits ->
            /\ Widened(r.first) = q.cnt
            /\ Unpacked(r.size - 9) = q.cnt
      [] OTHER -> Widened(r.first) = 2 * q.cnt

(* decode_passed of each response.                                         *)
PassesRead(q, r) ==
    CASE q.fn \in ReadBits ->
            /\ Widened(r.first) = q.cnt
            /\ Unpacked(r.size - 9) = q.cnt
      [] q.fn \in ReadRegisters -> Widened(r.first) = ByteCount(q)
      [] OTHER -> r.first = uint8(q.cnt * 2) /\ r.first \div 2 = q.cnt

PassesWrite(q, r) ==
    /\ r.addr = q.addr
    /\ CASE q.fn = write_single_coil ->
              r.word = q.word \/ r.word \notin {bits_off, bits_on}
         [] q.fn \in {write_multiple_coils, write_multiple_registers} ->
              r.word = q.wcnt
         [] OTHER -> r.word = q.word

DecodePassed(q, r) ==
    /\ r.size = ResponseSize(q)
    /\ IF q.fn \in ReadFunction THEN PassesRead(q, r) ELSE PassesWrite(q, r)

(* response::decode: what the caller learns.                               *)
Decoded(q, r) ==
    CASE Stage(q, r) = "error" -> "exception"
      [] Stage(q, r) = "passed" /\ DecodePassed(q, r) -> "passed"
      [] OTHER -> "bad_data"
=============================================================================
