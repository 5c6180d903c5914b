---------------------------- MODULE ModbusServer ----------------------------
(***************************************************************************)
(* The server: sessions whose packets modbus::server::on_receive hands to  *)
(* request_handler::handle, on the data table all of them share.  Sessions *)
(* are spread over io threads; a thread runs one handler at a time, and    *)
(* handlers of different threads interleave at every table access.  The    *)
(* application's own threads write to the same table (it is shared, and    *)
(* the user's callbacks are given it).                                     *)
(***************************************************************************)
EXTENDS DataTable, RequestEffect

CONSTANTS
    Session,        \* the connected clients
    App,            \* application threads that write to the table
    IoThread,       \* the io thread that runs each session's handlers
    AppAccess,      \* the calls an application thread makes
    RefAccess       \* the stores it makes through what ref() gave it

(* What C++ makes sure of: threads are not shared by a session and the     *)
(* application, and the calls both make on the table are its calls.        *)
ASSUME ServerAssumption ==
    /\ {coils, discrete_inputs, holding_registers, input_registers} \subseteq Block
    /\ Session \cup App \subseteq Actor /\ Session \cap App = {}
    /\ AppAccess \subseteq Access
    /\ \A r \in RefAccess : WellFormed(r) /\ Writes(r)
    /\ \A p \in Packet :
         p.fn # -1 /\ Verdict(p) = 0 =>
            /\ {p.addr, p.cnt, p.waddr, p.wcnt} \subseteq Nat
            /\ \A k \in 1 .. Calls(p), w \in Value[BlockOf(p.fn)] :
                 TableCall(p, k, << w >>) \in Access

VARIABLES
    job,            \* the request each session's handler works on
    reply           \* what handle returned, until on_receive has sent it

svars == << cells, mutex, call, job, reply >>

NoJob == [stage |-> "idle"]
NoReply == [fn |-> 0, exc |-> 0, data |-> << >>]

-----------------------------------------------------------------------------
SInit ==
    /\ Init
    /\ job = [s \in Session |-> NoJob]
    /\ reply = [s \in Session |-> NoReply]

Handling(s) == job[s].stage # "idle"

(* A session that does not wait for the other sessions of its thread.      *)
OwnTurn(s) == ~Handling(s)

(* An io thread runs the handlers of its sessions one after the other.     *)
ThreadFree(s) ==
    \A t \in Session : IoThread[t] = IoThread[s] => ~Handling(t)

Answered(s, p, r) ==
    /\ job' = [job EXCEPT ![s] = [stage |-> "answered", pkt |-> p]]
    /\ reply' = [reply EXCEPT ![s] = r]

(* on_receive, a packet without a function byte: handle returns nothing    *)
(* and nothing is sent.                                                    *)
Drop(s, p) ==
    /\ ThreadFree(s) /\ p.fn = -1
    /\ UNCHANGED svars

(* on_receive, a packet that decode or execute refuses.                    *)
Refuse(s, p) ==
    /\ ThreadFree(s) /\ p.fn # -1 /\ Verdict(p) # 0
    /\ Answered(s, p, Exception(p, Verdict(p)))
    /\ UNCHANGED vars

(* on_receive, a packet that passes: encode makes its first table call.    *)
Admit(s, p) ==
    /\ ThreadFree(s) /\ p.fn # -1 /\ Verdict(p) = 0
    /\ Call(s, TableCall(p, 1, << >>))
    /\ job' = [job EXCEPT ![s] =
                 [stage |-> "encode", pkt |-> p, step |-> 1, got |-> << >>]]
    /\ UNCHANGED reply

Encoding(s) == job[s].stage = "encode"

(* What the table calls made so far have read.                             *)
Read(s) == IF Writes(call[s].req) THEN job[s].got ELSE call[s].got

(* A table call returned and another one follows.                          *)
Resume(s) ==
    /\ Encoding(s) /\ In(s, "ok") /\ job[s].step < Calls(job[s].pkt)
    /\ Return(s)
    /\ job' = [job EXCEPT ![s] =
                 [stage |-> "encode", pkt |-> job[s].pkt,
                  step |-> job[s].step + 1, got |-> Read(s)]]
    /\ UNCHANGED reply

Proceed(s) ==
    /\ Encoding(s) /\ In(s, "idle")
    /\ Call(s, TableCall(job[s].pkt, job[s].step, job[s].got))
    /\ UNCHANGED << job, reply >>

(* The last table call returned; or one threw out_of_range, which encode   *)
(* makes illegal_data_address.  (encode also throws when the packet it has *)
(* made is not of response_size.  Both sizes are computed from the counts  *)
(* of the request alone and agree for all that execute admits, so that     *)
(* throw is left out.)                                                     *)
Finish(s) ==
    /\ Encoding(s)
    /\ In(s, "ok") => job[s].step = Calls(job[s].pkt)
    /\ Return(s)
    /\ LET p == job[s].pkt IN
         Answered(s, p, IF In(s, "ok") THEN Success(p, Read(s))
                        ELSE Exception(p, illegal_data_address))

(* on_receive hands the reply to the session and returns.                  *)
Send(s) ==
    /\ job[s].stage = "answered"
    /\ job' = [job EXCEPT ![s] = NoJob]
    /\ reply' = [reply EXCEPT ![s] = NoReply]
    /\ UNCHANGED vars

SessionStep(s) ==
    \/ Step(s) /\ UNCHANGED << job, reply >>
    \/ Resume(s) \/ Proceed(s) \/ Finish(s) \/ Send(s)

AppStep(a) ==
    /\ \/ \E r \in AppAccess : Call(a, r)
       \/ Step(a)
       \/ Return(a)
    /\ UNCHANGED << job, reply >>

(* The application stores one cell through the reference ref() returned,   *)
(* or through its mutable iterators: validated, but with no lock.  (Coils  *)
(* are bits of shared words: a store to one through a reference rewrites   *)
(* its neighbours too, and is left out.)                                   *)
RefStore(a, r) ==
    /\ In(a, "idle") /\ Valid(r) /\ r.blk \notin BitBlock
    /\ cells' = [cells EXCEPT ![r.blk] = Written(@, r)]
    /\ UNCHANGED << mutex, call, job, reply >>

Receive(s) == \E p \in Packet : Drop(s, p) \/ Refuse(s, p) \/ Admit(s, p)

SNext ==
    \/ \E s \in Session : Receive(s) \/ SessionStep(s)
    \/ \E a \in App : AppStep(a) \/ \E r \in RefAccess : RefStore(a, r)

SSpec == SInit /\ [][SNext]_svars

(* Every io thread and every application thread that is inside a table     *)
(* call keeps running; no client has to send.                              *)
SFairSpec ==
    /\ SSpec
    /\ \A s \in Session : WF_svars(SessionStep(s))
    /\ \A a \in App : WF_svars(Step(a) /\ UNCHANGED << job, reply >>)

-----------------------------------------------------------------------------
(* An exception reply means that nothing was written: every range a        *)
(* request will use was checked before its first table call, so no call    *)
(* made half way through a request is ever refused.                        *)
NoRefusalHalfWay == \A s \in Session : ~In(s, "throw")

(* The frame of a request: a session changes only cells of the write range *)
(* of the request it is answering, in that request's block; read-only      *)
(* blocks are changed by the application alone.                            *)
SessionFrame ==
    \A b \in Block : \A c \in Cell(b) :
        cells'[b][c] # cells[b][c] =>
            \/ \E a \in App : mutex[b] = a \/ \E r \in RefAccess : RefStore(a, r)
            \/ \E s \in Session :
                 /\ mutex[b] = s /\ Encoding(s)
                 /\ b = BlockOf(job[s].pkt.fn)
                 /\ c \in WriteSpan(job[s].pkt)
WritesInFrame == [][SessionFrame]_svars

(* A reply of registers or coils has exactly the words that were asked     *)
(* for, each one a value of the block.                                     *)
ReplyOK(p, r) ==
    r.exc = 0 /\ p.fn \in ReadFunction =>
        /\ Len(r.data) = p.cnt
        /\ \A k \in 1 .. p.cnt : r.data[k] \in Value[BlockOf(p.fn)]
ReplyComplete ==
    \A s \in Session : job[s].stage = "answered" => ReplyOK(job[s].pkt, reply[s])

(* The inductive invariant of the sessions: a handler is in the table call *)
(* its response makes next, with what the calls before it have read, and   *)
(* outside a handler a session is in no call at all.                       *)
Admitted(p) == p \in Packet /\ p.fn # -1 /\ Verdict(p) = 0
EncodeOK(j, c) ==
    /\ Admitted(j.pkt) /\ j.step \in 1 .. Calls(j.pkt)
    /\ j.step # 1 /\ j.pkt.fn = mask_write_register =>
         j.got[1] \in Value[holding_registers]
    /\ c.stage # "idle" => c.req = TableCall(j.pkt, j.step, j.got)
SessionOK(j, c, r) ==
    \/ j.stage = "idle" /\ c.stage = "idle"
    \/ j.stage = "answered" /\ c.stage = "idle" /\ ReplyOK(j.pkt, r)
    \/ j.stage = "encode" /\ EncodeOK(j, c)
SessionsOK ==
    /\ DOMAIN job = Session /\ DOMAIN reply = Session
    /\ \A s \in Session : SessionOK(job[s], call[s], reply[s])

(* Every handler comes to an end, with a reply that is sent, whether its   *)
(* request is carried out or refused, if from some time on the threads are *)
(* given nothing new to do.                                                *)
NewWork ==
    \/ \E s \in Session : ~Handling(s) /\ Handling(s)'
    \/ \E a \in App : In(a, "idle") /\ ~In(a, "idle")'
RequestsAnswered ==
    <>[][~NewWork]_svars =>
        \A s \in Session : Handling(s) ~> ~Handling(s)
=============================================================================
