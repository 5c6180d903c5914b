-------------------------- MODULE ConcurrentServer --------------------------
(***************************************************************************)
(* What stays atomic when sessions run on several io threads, beside an    *)
(* application that writes too.  A write takes effect when the mutex of    *)
(* its one storing call is taken, a read when its handler ends.  The words *)
(* a reply reads may come from several instants, so they are hidden.       *)
(***************************************************************************)
EXTENDS ModbusServer

(* No client sends the one request that stores what it computed from an    *)
(* earlier read; a reference or an iterator is to one cell.                *)
ASSUME ConcurrentAssumption ==
    /\ \A p \in Packet : p.fn # mask_write_register
    /\ \A r \in RefAccess : Len(r.buf) = 1

(* The table with the store under way in each block completed: the cells   *)
(* it has still to store count as stored.  (A store through a reference to *)
(* one of these is lost; to any other cell, it is seen.)                   *)
Pending(b, c) ==
    /\ mutex[b] # NoActor
    /\ LET o == call[mutex[b]] IN
         /\ c \in Span(b, o.req.addr, o.req.cnt)
         /\ c >= Index(b, o.req.addr) + o.pos
AbsTable ==
    [b \in Block |->
        [c \in Cell(b) |->
            IF Pending(b, c)
            THEN LET r == call[mutex[b]].req IN r.buf[c - Index(b, r.addr) + 1]
            ELSE cells[b][c]]]

(* Does the response store in its first call, or after a call that reads?  *)
StoringCall(p) == IF p.fn = write_single_coil THEN 2 ELSE 1

Committed(s) ==
    /\ Encoding(s) /\ job[s].pkt.fn \in WriteFunction
    /\ LET k == StoringCall(job[s].pkt) IN
         \/ job[s].step > k
         \/ job[s].step = k /\ call[s].stage \in {"store", "ok"}

(* The words a reply has read.                                             *)
Hidden(p, r) ==
    IF p.fn \in ReadFunction \cup {write_single_coil}
    THEN [r EXCEPT !.data = << >>] ELSE r

AbsClient ==
    [s \in Session |->
        IF job[s].stage = "answered"
        THEN [stage |-> "answered", pkt |-> job[s].pkt, reply |-> Hidden(job[s].pkt, reply[s])]
        ELSE IF Committed(s)
        THEN [stage |-> "answered", pkt |-> job[s].pkt,
              reply |-> Hidden(job[s].pkt, Success(job[s].pkt, << >>))]
        ELSE IF Encoding(s) THEN [stage |-> "asked", pkt |-> job[s].pkt]
        ELSE [stage |-> "idle"]]

AS == INSTANCE AtomicServer
        WITH table <- AbsTable, client <- AbsClient, ToldOf <- {},
             AppAccess <- AppAccess \cup RefAccess

(* On any number of io threads every request that writes without looking   *)
(* (all but mask_write_register) changes the table once, at one instant    *)
(* between its arrival and its answer, to what its function says.          *)
AtomicWrites == AS!ASpec
=============================================================================
