--------------------------- MODULE RequestEffect ---------------------------
(***************************************************************************)
(* What each of the ten functions makes of a table, and what it answers:   *)
(* the meaning of a request, as a function of the whole table.  Pure; how  *)
(* the handlers come to it, call by call, is ModbusServer's.               *)
(***************************************************************************)
EXTENDS Requests

InitialTable == [b \in Block |-> Initial(b)]

(* A store of all values that were found, never resized to the count.      *)
ValueSpan(p) ==
    IF p.fn \in WriteFunction THEN Span(BlockOf(p.fn), p.waddr, Len(p.vals)) ELSE {}

(* The cells a request that is carried out may change.                     *)
WriteSpan(p) ==
    IF p.fn \in WriteFunction THEN Span(BlockOf(p.fn), p.waddr, p.wcnt) ELSE {}

(* A mask that toggles the bits it should set.                             *)
ToggledWord(p, c, word) ==
    LET k == c - Index(BlockOf(p.fn), p.waddr) + 1
        kept == word \cap p.vals[1]
    IN IF p.fn = mask_write_register
       THEN (kept \ p.vals[2]) \cup (p.vals[2] \ kept)
       ELSE IF k <= Len(p.vals) THEN p.vals[k] ELSE off

(* What a request makes of the word of one cell it writes.  A value that   *)
(* write_multiple_coils lacks is off.                                      *)
NewWord(p, c, word) ==
    LET k == c - Index(BlockOf(p.fn), p.waddr) + 1
    IN IF p.fn = mask_write_register THEN Masked(word, p)
       ELSE IF k <= Len(p.vals) THEN p.vals[k] ELSE off

(* The table t after the request.                                          *)
Effect(t, p) ==
    [b \in Block |->
        [c \in Cell(b) |->
            IF b = BlockOf(p.fn) /\ c \in WriteSpan(p)
            THEN NewWord(p, c, t[b][c]) ELSE t[b][c]]]

(* Its reply: a read and write reads what it has just written; a single    *)
(* coil answers with its old value.                                        *)
Reply(t, p) ==
    LET b == BlockOf(p.fn)
        words == [k \in 1 .. p.cnt |-> Effect(t, p)[b][Index(b, p.addr) + k - 1]]
    IN Success(p, IF p.fn = write_single_coil
                  THEN << t[b][Index(b, p.waddr)] >>
                  ELSE IF p.fn \in ReadFunction THEN words ELSE << >>)

(* handle: the table after any packet with a function byte.                *)
TableAfter(t, p) == IF Verdict(p) = 0 THEN Effect(t, p) ELSE t
=============================================================================
