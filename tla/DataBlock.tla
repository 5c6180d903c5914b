----------------------------- MODULE DataBlock -----------------------------
(***************************************************************************)
(* The pure part of the Modbus data table (modbus::block::base and         *)
(* modbus::block::sequential): which addresses a block serves, when a      *)
(* range of them is valid, where a range lands in the container, and what  *)
(* one call on a block asks for.  No state, only the blocks' constants.    *)
(***************************************************************************)
EXTENDS Integers, Sequences

CONSTANTS
    Block,      \* the blocks of a table: coils, discrete inputs, registers
    BitBlock,   \* those whose container is a std::vector<bool>
    Start,      \* starting_address_ of each block
    Capacity,   \* capacity_ of each block
    Value,      \* the values one cell of each block can hold
    Default,    \* default_value_ of each block
    ReadLimit   \* the limit of each block's read_count_t

ASSUME DataBlockAssumption ==
    /\ BitBlock \subseteq Block
    /\ Start \in [Block -> Nat]
    /\ Capacity \in [Block -> Nat]
    /\ ReadLimit \in [Block -> Nat]
    /\ \A b \in Block : Default[b] \in Value[b]

(* The container: capacity_ cells, indexed from 0 as the code indexes it.  *)
Cell(b) == 0 .. Capacity[b] - 1

(* A container one cell longer than its capacity.                          *)
InitialOneMore(b) == [c \in 0 .. Capacity[b] |-> Default[b]]

(* What the constructor leaves in a container.                             *)
Initial(b) == [c \in Cell(b) |-> Default[b]]

(* The static validate of num_bits_t and num_regs_t: a count's own limit.  *)
ValidateCount(n, limit) == 0 < n /\ n <= limit

(* An off-by-one a rewrite of validate_sz could introduce.                 *)
ValidateSzOneMore(b, addr, n) ==
    n > 0 /\ Start[b] <= addr /\ Start[b] + Capacity[b] + 1 >= addr + n

(* base::validate_sz.  An empty range throws out_of_range, which every     *)
(* caller turns into the same refusal as FALSE.  The sums are of size_t:   *)
(* they do not wrap at 16 bits.                                            *)
ValidateSz(b, addr, n) ==
    n > 0 /\ Start[b] <= addr /\ Start[b] + Capacity[b] >= addr + n

(* base::validate with a count: the count's own limit, then the range.     *)
ValidateRange(b, addr, n, limit) ==
    ValidateCount(n, limit) /\ ValidateSz(b, addr, n)

(* address - starting_address(): the first cell of a valid range, and the  *)
(* cells a valid range of n addresses covers.                              *)
Index(b, addr) == addr - Start[b]
Span(b, addr, n) == Index(b, addr) .. Index(b, addr) + n - 1

(* A container after a whole buffer was stored in it from addr on.         *)
Overwrite(content, b, addr, buf) ==
    [c \in Cell(b) |->
        IF c \in Span(b, addr, Len(buf))
        THEN buf[c - Index(b, addr) + 1] ELSE content[c]]

-----------------------------------------------------------------------------
(* The calls of a block.  "set" stores a buffer (or the single value of    *)
(* the other overload), "reset" the default in every cell; "slice" reads   *)
(* cnt cells through a pair of iterators, "at" one cell.                   *)
SetCall(b, addr, buf) ==
    [op |-> "set", blk |-> b, addr |-> addr, cnt |-> Len(buf), buf |-> buf]
ResetCall(b) ==
    [op |-> "reset", blk |-> b, addr |-> Start[b], cnt |-> Capacity[b],
     buf |-> [k \in 1 .. Capacity[b] |-> Default[b]]]
SliceCall(b, addr, n) ==
    [op |-> "slice", blk |-> b, addr |-> addr, cnt |-> n, buf |-> << >>]
AtCall(b, addr) ==
    [op |-> "at", blk |-> b, addr |-> addr, cnt |-> 1, buf |-> << >>]

Writes(r) == r.op \in {"set", "reset"}

(* The check each call makes under the mutex: reset makes none.            *)
Valid(r) ==
    \/ r.op = "reset"
    \/ r.op \in {"set", "at"} /\ ValidateSz(r.blk, r.addr, r.cnt)
    \/ r.op = "slice" /\ ValidateRange(r.blk, r.addr, r.cnt, ReadLimit[r.blk])

(* The container after the whole of a writing call.                        *)
Written(content, r) == Overwrite(content, r.blk, r.addr, r.buf)

(* What the types of the C++ interface make of every call.                 *)
WellFormed(r) ==
    /\ r \in [op : {"set", "reset", "slice", "at"}, blk : Block,
              addr : Nat, cnt : Nat, buf : Seq(Value[r.blk])]
    /\ Writes(r) => r.cnt = Len(r.buf)
    /\ r.op = "reset" => r.addr = Start[r.blk] /\ r.cnt = Capacity[r.blk]
    /\ r.op = "at" => r.cnt = 1
=============================================================================
