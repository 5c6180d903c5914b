-------------------------- MODULE MCClientExchange --------------------------
(* Every function, with the counts at which a byte, a sign bit or a limit  *)
(* is passed.                                                              *)
EXTENDS ClientExchange

CONSTANT Transaction

ReadOf(fn, counts) ==
    [fn : {fn}, tr : Transaction, addr : {0}, cnt : counts, wcnt : {0},
     n : {0}, word : {0}]
WriteOf(fn, counts) ==
    {[fn |-> fn, tr |-> t, addr |-> 0, cnt |-> 0, wcnt |-> c, n |-> c,
      word |-> 0] : t \in Transaction, c \in counts}
SingleOf(fn, addrs, words) ==
    [fn : {fn}, tr : Transaction, addr : addrs, cnt : {0}, wcnt : {1},
     n : {1}, word : words]
ReadWriteOf(reads, writes) ==
    {[fn |-> read_write_multiple_registers, tr |-> t, addr |-> 0, cnt |-> c,
      wcnt |-> w, n |-> w, word |-> 0] :
        t \in Transaction, c \in reads, w \in writes}

Coils == SingleOf(write_single_coil, {0}, {bits_off, bits_on})
CoilReads == ReadOf(read_coils, {1, 8, 2000, 2001})
RegisterReads == ReadOf(read_holding_registers, {1, 63, 64, 125, 126})
InputReads == ReadOf(read_input_registers, {63})
TwoReads == RegisterReads \cup InputReads
CoilBlocks == WriteOf(write_multiple_coils, {0, 9, 255, 256, 1968, 1969})

MCRequest ==
    Coils \cup CoilBlocks \cup CoilReads \cup RegisterReads \cup InputReads
        \cup ReadOf(read_discrete_inputs, {9})
        \cup SingleOf(write_single_register, {0, 65535}, {7})
        \cup SingleOf(mask_write_register, {0}, {7})
        \cup WriteOf(write_multiple_registers, {1, 123, 124, 128})
        \cup ReadWriteOf({1, 125, 126}, {1, 121, 122, 123})
=============================================================================
