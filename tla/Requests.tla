------------------------------ MODULE Requests ------------------------------
(***************************************************************************)
(* The ten requests of the server as the request handler sees them: what a *)
(* packet carries, which checks decode and execute make of it, what its    *)
(* response asks of the data table, and what it answers.  Pure: execute    *)
(* looks only at the constants of the table, never at its contents.        *)
(***************************************************************************)
EXTENDS DataBlock, ModbusDefs

CONSTANTS
    coils, discrete_inputs, holding_registers, input_registers,
    WriteLimit,     \* the limit of each block's write_count_t
    Packet          \* the packets a client may send

(* A coil is a word whose only bit is bit 0; a register is the set of its  *)
(* bits that are 1, so that & is \cap and | is \cup.                       *)
off == {}
on == {0}

-----------------------------------------------------------------------------
(* A packet: fn its function byte, addr and cnt the range it reads, waddr  *)
(* and wcnt the range it writes, vals the words it carries (the values, or *)
(* the two masks), bytes its byte count field.  A packet of header_length  *)
(* bytes at most has no function byte: fn is -1.                           *)
ReadPacket(fn, addr, cnt) ==
    [fn |-> fn, addr |-> addr, cnt |-> cnt, waddr |-> 0, wcnt |-> 0,
     vals |-> << >>, bytes |-> 0]
WritePacket(fn, waddr, wcnt, vals, bytes) ==
    [fn |-> fn, addr |-> 0, cnt |-> 0, waddr |-> waddr, wcnt |-> wcnt,
     vals |-> vals, bytes |-> bytes]
ReadWritePacket(addr, cnt, waddr, wcnt, vals, bytes) ==
    [fn |-> read_write_multiple_registers, addr |-> addr, cnt |-> cnt,
     waddr |-> waddr, wcnt |-> wcnt, vals |-> vals, bytes |-> bytes]

(* A single coil looked up among the discrete inputs.                      *)
BlockOfMixedUp(fn) ==
    CASE fn \in {read_coils, write_multiple_coils} -> coils
      [] fn \in {read_discrete_inputs, write_single_coil} -> discrete_inputs
      [] fn = read_input_registers -> input_registers
      [] OTHER -> holding_registers

BlockOf(fn) ==
    CASE fn \in {read_coils, write_single_coil, write_multiple_coils} -> coils
      [] fn = read_discrete_inputs -> discrete_inputs
      [] fn = read_input_registers -> input_registers
      [] OTHER -> holding_registers

(* A single coil whose value is not checked.                               *)
DecodesAnyCoil(p) ==
    p.fn \in {write_multiple_registers, read_write_multiple_registers} =>
        p.bytes = (p.wcnt * 2) % 256

(* The checks of the decode functions.  Everything they throw becomes      *)
(* server_device_failure.  The byte count of write_multiple_coils is read  *)
(* and never compared.                                                     *)
Decodes(p) ==
    /\ p.fn = write_single_coil => p.vals[1] \in {off, on}
    /\ p.fn \in {write_multiple_registers, read_write_multiple_registers} =>
         p.bytes = (p.wcnt * 2) % 256

(* unpack_bits(...) or the value loop, then resize(count).                 *)
Resized(vals, n) ==
    [k \in 1 .. n |-> IF k <= Len(vals) THEN vals[k] ELSE off]

(* The range checks of the execute functions, on constants of the table    *)
(* only.  (The count_.validate() before them never fails: it is the static *)
(* validate of the base class, true of every 16-bit count.)                *)
ReadInRange(p) ==
    ValidateRange(BlockOf(p.fn), p.addr, p.cnt, ReadLimit[BlockOf(p.fn)])
WriteInRange(p) ==
    ValidateRange(BlockOf(p.fn), p.waddr, p.wcnt, WriteLimit[BlockOf(p.fn)])

(* The same without the check of the range that is read.                  *)
ExecutesNoRead(p) == p.fn \in WriteFunction => WriteInRange(p)

Executes(p) ==
    /\ p.fn \in ReadFunction => ReadInRange(p)
    /\ p.fn \in WriteFunction => WriteInRange(p)

(* The exception a packet earns before the table is touched, 0 for none.   *)
Verdict(p) ==
    IF p.fn \notin Supported THEN illegal_function
    ELSE IF ~Decodes(p) THEN server_device_failure
    ELSE IF ~Executes(p) THEN illegal_data_address
    ELSE 0

(* What response::encode asks of the table, call by call; got is what the  *)
(* call before returned.                                                   *)
Calls(p) ==
    IF p.fn \in {write_single_coil, mask_write_register,
                 read_write_multiple_registers}
    THEN 2 ELSE 1

Masked(word, p) == (word \cap p.vals[1]) \cup p.vals[2]

(* A read_write_multiple_registers that stores at the address it reads.   *)
TableCallSwapped(p, k, got) ==
    LET b == BlockOf(p.fn) IN
    IF p.fn \in {write_single_coil, mask_write_register} /\ k = 1
    THEN AtCall(b, p.waddr)
    ELSE IF p.fn = mask_write_register
    THEN SetCall(b, p.waddr, << Masked(got[1], p) >>)
    ELSE IF p.fn = read_write_multiple_registers /\ k = 1
    THEN SetCall(b, p.addr, Resized(p.vals, p.wcnt))
    ELSE IF p.fn \in ReadFunction
    THEN SliceCall(b, p.addr, p.cnt)
    ELSE SetCall(b, p.waddr, Resized(p.vals, p.wcnt))

TableCall(p, k, got) ==
    LET b == BlockOf(p.fn) IN
    IF p.fn \in {write_single_coil, mask_write_register} /\ k = 1
    THEN AtCall(b, p.waddr)
    ELSE IF p.fn = mask_write_register
    THEN SetCall(b, p.waddr, << Masked(got[1], p) >>)
    ELSE IF p.fn \in WriteFunction /\ ~(p.fn \in ReadFunction /\ k = 2)
    THEN SetCall(b, p.waddr, Resized(p.vals, p.wcnt))
    ELSE SliceCall(b, p.addr, p.cnt)

(* What a reply carries beside the ranges it echoes: the words read, the   *)
(* old value of a single coil, the value or the masks of the request.      *)
Answer(p, got) ==
    IF p.fn \in ReadFunction \cup {write_single_coil} THEN got
    ELSE IF p.fn \in {write_single_register, mask_write_register} THEN p.vals
    ELSE << >>

Exception(p, code) ==
    [fn |-> ErrorFunction(p.fn), exc |-> code, data |-> << >>]
Success(p, got) == [fn |-> p.fn, exc |-> 0, data |-> Answer(p, got)]
=============================================================================
