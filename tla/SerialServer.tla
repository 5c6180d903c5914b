---------------------------- MODULE SerialServer ----------------------------
(***************************************************************************)
(* ModbusServer with a history variable: pre is the table as it was when   *)
(* the request that is being encoded was admitted.  With it, a server      *)
(* whose sessions all run on one io thread is shown to handle each request *)
(* atomically, as AtomicServer does.                                       *)
(***************************************************************************)
EXTENDS ModbusServer

(* The server runs on one io thread, and only sessions use its table.  A   *)
(* mask is of one register.                                                *)
ASSUME SerialAssumption ==
    /\ \A s, t \in Session : IoThread[s] = IoThread[t]
    /\ App = {}
    /\ \A p \in Packet : p.fn = mask_write_register => p.wcnt = 1

VARIABLE pre

serialvars == << cells, mutex, call, job, reply, pre >>

Busy == \E s \in Session : Encoding(s)

SerialInit == SInit /\ pre = << >>

Remember == pre' = IF ~Busy' THEN << >> ELSE IF Busy THEN pre ELSE cells

SerialSpec == SerialInit /\ [][SNext /\ Remember]_serialvars

(* A request takes effect when its handler is done with the table.         *)
AbsTable == IF Busy THEN pre ELSE cells

AbsClient ==
    [s \in Session |->
        CASE job[s].stage = "idle" -> [stage |-> "idle"]
          [] job[s].stage = "encode" -> [stage |-> "asked", pkt |-> job[s].pkt]
          [] job[s].stage = "answered" ->
               [stage |-> "answered", pkt |-> job[s].pkt, reply |-> reply[s]]]

AS == INSTANCE AtomicServer
        WITH table <- AbsTable, client <- AbsClient, ToldOf <- Supported

(* The whole server is atomic, request by request, when one io thread runs *)
(* it and nobody else writes to the table: every reply and every change of *)
(* the table is what the request alone makes of the table it was admitted  *)
(* on, through locks, loops and half-done reads.                           *)
AtomicRequests == AS!ASpec

-----------------------------------------------------------------------------
(* The table t when the cells of done, of those p writes, are written.     *)
Partly(t, p, done) ==
    [b \in Block |->
        [c \in Cell(b) |->
            IF b = BlockOf(p.fn) /\ c \in done THEN NewWord(p, c, t[b][c]) ELSE t[b][c]]]

(* The cells a handler has stored, from the call it is in.                 *)
StoredBy(p, k, c) ==
    IF c.stage = "store" THEN Span(BlockOf(p.fn), p.waddr, c.pos)
    ELSE IF \/ c.stage = "ok" /\ Writes(c.req)
            \/ p.fn = read_write_multiple_registers /\ k = 2
    THEN WriteSpan(p) ELSE {}

(* What a handler has read so far, and kept from the call before, is in    *)
(* the table.                                                              *)
ReadRight(c, now) ==
    c.stage # "idle" /\ ~Writes(c.req) =>
        \A i \in 1 .. Len(c.got) :
            c.got[i] = now[c.req.blk][Index(c.req.blk, c.req.addr) + i - 1]
KeptRight(j, before) ==
    j.step = 2 /\ j.pkt.fn \in {write_single_coil, mask_write_register} =>
        j.got = << before[BlockOf(j.pkt.fn)][Index(BlockOf(j.pkt.fn), j.pkt.waddr)] >>

IsTable(t) ==
    /\ t = [b \in Block |-> t[b]]
    /\ \A b \in Block : t[b] \in [Cell(b) -> Value[b]]

(* The inductive invariant: one handler runs, and the table is the one it  *)
(* was admitted on but for the cells it has stored, which hold what its    *)
(* request makes of them.                                                  *)
SerialOK ==
    /\ IsTable(cells)
    /\ \A s, t \in Session : Handling(s) /\ Handling(t) => s = t
    /\ \A s \in Session : Encoding(s) =>
         /\ IsTable(pre)
         /\ cells = Partly(pre, job[s].pkt, StoredBy(job[s].pkt, job[s].step, call[s]))
         /\ ReadRight(call[s], cells) /\ KeptRight(job[s], pre)
=============================================================================
