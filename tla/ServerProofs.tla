---------------------------- MODULE ServerProofs ----------------------------
(***************************************************************************)
(* Proofs about ModbusServer, for any sessions, io threads, applications,  *)
(* tables and packets: a handler and the table never disagree, no request  *)
(* is refused after its first access, replies are complete, and a session  *)
(* changes only what its request names.  What DataTableProofs shows of the *)
(* calls is used here for the calls of sessions and applications; that the *)
(* cells a store has passed hold its buffer is not, since references that  *)
(* ref() handed out store without the mutex.                               *)
(***************************************************************************)
EXTENDS ModbusServer, DataTableProofs

-----------------------------------------------------------------------------
(* The calls a response makes.                                             *)

LEMMA PacketFacts ==
    ASSUME NEW p, Admitted(p)
    PROVE  /\ p.addr \in Nat /\ p.cnt \in Nat /\ p.waddr \in Nat /\ p.wcnt \in Nat
           /\ BlockOf(p.fn) \in Block
           /\ Default[BlockOf(p.fn)] \in Value[BlockOf(p.fn)]
           /\ p.fn \in Supported
           /\ p.fn \in ReadFunction =>
                ValidateRange(BlockOf(p.fn), p.addr, p.cnt, ReadLimit[BlockOf(p.fn)])
           /\ p.fn \in WriteFunction =>
                ValidateSz(BlockOf(p.fn), p.waddr, p.wcnt)
<1>1. p.addr \in Nat /\ p.cnt \in Nat /\ p.waddr \in Nat /\ p.wcnt \in Nat
    BY ServerAssumption DEF Admitted
<1>2. BlockOf(p.fn) \in Block
    BY ServerAssumption DEF BlockOf
<1>3. Default[BlockOf(p.fn)] \in Value[BlockOf(p.fn)]
    BY <1>2, DataBlockAssumption
<1>4. p.fn \in Supported /\ Executes(p)
    BY DEF Admitted, Verdict, illegal_function, server_device_failure,
           illegal_data_address
<1>. QED  BY <1>1, <1>2, <1>3, <1>4
          DEF Executes, ReadInRange, WriteInRange, ValidateRange

(* What the call before has read matters to a mask alone.                  *)
LEMMA CallNeedsOneWord ==
    ASSUME NEW p, NEW k, NEW got,
           k # 1 /\ p.fn = mask_write_register => got[1] = got[1],
           NEW w, k # 1 /\ p.fn = mask_write_register => w = got[1]
    PROVE  TableCall(p, k, got) = TableCall(p, k, << w >>)
<1>1. CASE p.fn = mask_write_register /\ k # 1
  <2>1. << w >>[1] = got[1]
      BY <1>1
  <2>. QED  BY <1>1, <2>1 DEF TableCall, Masked
<1>2. CASE ~(p.fn = mask_write_register /\ k # 1)
    BY <1>2 DEF TableCall
<1>. QED  BY <1>1, <1>2

LEMMA CallMade ==
    ASSUME NEW p, Admitted(p), NEW k \in 1 .. Calls(p), NEW got,
           k # 1 /\ p.fn = mask_write_register => got[1] \in Value[holding_registers]
    PROVE  TableCall(p, k, got) \in Access
<1>1. BlockOf(mask_write_register) = holding_registers
    BY DEF BlockOf, mask_write_register, read_coils, write_single_coil,
           write_multiple_coils, read_discrete_inputs, read_input_registers
<1>2. PICK w \in Value[BlockOf(p.fn)] :
         k # 1 /\ p.fn = mask_write_register => w = got[1]
    BY <1>1, PacketFacts
<1>3. TableCall(p, k, << w >>) \in Access
    BY ServerAssumption DEF Admitted
<1>. QED  BY <1>2, <1>3, CallNeedsOneWord

(* Its range was checked by execute, so no call of an admitted request is  *)
(* ever refused; a call that stores covers the write range of the request. *)
LEMMA CallFits ==
    ASSUME NEW p, Admitted(p), NEW k \in 1 .. Calls(p), NEW got
    PROVE  LET r == TableCall(p, k, got) IN
           /\ Valid(r) /\ r.blk = BlockOf(p.fn)
           /\ Writes(r) => /\ p.fn \in WriteFunction
                           /\ Span(r.blk, r.addr, r.cnt) \subseteq WriteSpan(p)
           /\ k = Calls(p) /\ p.fn \in ReadFunction =>
                r = SliceCall(BlockOf(p.fn), p.addr, p.cnt)
           /\ k = 1 /\ p.fn = mask_write_register =>
                r = AtCall(BlockOf(p.fn), p.waddr)
<1>. DEFINE b == BlockOf(p.fn)
            r == TableCall(p, k, got)
<1>1. /\ p.addr \in Nat /\ p.cnt \in Nat /\ p.waddr \in Nat /\ p.wcnt \in Nat
      /\ b \in Block /\ p.fn \in Supported
      /\ p.fn \in ReadFunction => ValidateRange(b, p.addr, p.cnt, ReadLimit[b])
      /\ p.fn \in WriteFunction => ValidateSz(b, p.waddr, p.wcnt)
    BY PacketFacts
<1>2. Start[b] \in Nat /\ Capacity[b] \in Nat
    BY <1>1, DataBlockAssumption
<1>3. Len(Resized(p.vals, p.wcnt)) = p.wcnt
    BY <1>1 DEF Resized
<1>4. k = 1 \/ k = 2
    BY DEF Calls
<1>. HIDE DEF b
<1>5. CASE p.fn \in {write_single_coil, mask_write_register} /\ k = 1
  <2>1. r = AtCall(b, p.waddr)
      BY <1>5 DEF TableCall, b
  <2>2. p.fn \in WriteFunction /\ p.fn \notin ReadFunction /\ Calls(p) = 2
      BY <1>5 DEF WriteFunction, ReadFunction, Calls, read_coils,
         read_discrete_inputs, read_holding_registers, read_input_registers,
         read_write_multiple_registers, write_single_coil, mask_write_register
  <2>3. ValidateSz(b, p.waddr, 1)
      BY <1>1, <1>2, <2>2 DEF ValidateSz
  <2>. QED  BY <1>5, <2>1, <2>2, <2>3 DEF AtCall, Valid, Writes, b
<1>6. CASE p.fn = mask_write_register /\ k # 1
  <2>1. r = SetCall(b, p.waddr, << Masked(got[1], p) >>)
      BY <1>6 DEF TableCall, b
  <2>2. p.fn \in WriteFunction /\ p.fn \notin ReadFunction
      BY <1>6 DEF WriteFunction, ReadFunction, read_coils,
         read_discrete_inputs, read_holding_registers, read_input_registers,
         read_write_multiple_registers, write_single_coil, mask_write_register
  <2>3. ValidateSz(b, p.waddr, 1) /\ 1 <= p.wcnt
      BY <1>1, <1>2, <2>2 DEF ValidateSz
  <2>4. /\ r.op = "set" /\ r.blk = b /\ r.addr = p.waddr /\ r.cnt = 1
      BY <2>1 DEF SetCall
  <2>5. Span(b, p.waddr, 1) \subseteq Span(b, p.waddr, p.wcnt)
      BY <1>1, <1>2, <2>3 DEF Span, Index
  <2>. QED  BY <1>6, <2>2, <2>3, <2>4, <2>5 DEF Valid, Writes, WriteSpan, b
<1>7. CASE /\ ~(p.fn \in {write_single_coil, mask_write_register} /\ k = 1)
           /\ p.fn # mask_write_register
           /\ p.fn \in WriteFunction /\ ~(p.fn \in ReadFunction /\ k = 2)
  <2>1. r = SetCall(b, p.waddr, Resized(p.vals, p.wcnt))
      BY <1>7 DEF TableCall, b
  <2>2. ~(k = Calls(p) /\ p.fn \in ReadFunction)
      BY <1>7 DEF Calls, ReadFunction, WriteFunction, read_coils,
         read_discrete_inputs, read_holding_registers, read_input_registers,
         read_write_multiple_registers, write_single_coil, mask_write_register,
         write_single_register, write_multiple_coils, write_multiple_registers
  <2>3. /\ r.op = "set" /\ r.blk = b /\ r.addr = p.waddr /\ r.cnt = p.wcnt
      BY <1>3, <2>1 DEF SetCall
  <2>. QED  BY <1>1, <1>7, <2>2, <2>3 DEF Valid, Writes, WriteSpan, b
<1>8. CASE /\ ~(p.fn \in {write_single_coil, mask_write_register} /\ k = 1)
           /\ p.fn # mask_write_register
           /\ ~(p.fn \in WriteFunction /\ ~(p.fn \in ReadFunction /\ k = 2))
  <2>1. r = SliceCall(b, p.addr, p.cnt)
      BY <1>8 DEF TableCall, b
  <2>2. p.fn \in ReadFunction
      BY <1>1, <1>8 DEF Supported
  <2>3. /\ r.op = "slice" /\ r.blk = b /\ r.addr = p.addr /\ r.cnt = p.cnt
      BY <2>1 DEF SliceCall
  <2>. QED  BY <1>1, <1>8, <2>1, <2>2, <2>3 DEF Valid, Writes, b
<1>. QED  BY <1>5, <1>6, <1>7, <1>8
-----------------------------------------------------------------------------
(* What the table keeps, whoever steps.                                    *)
TablesOK == CallsOK /\ CellsOK /\ MutexOK /\ MutexOwnership

LEMMA TableStep ==
    ASSUME TablesOK, NEW a \in Actor,
           (\E r \in Access : Call(a, r)) \/ Step(a) \/ Return(a)
    PROVE  TablesOK' /\ \A x \in Actor : x # a => call'[x] = call[x]
<1>1. CallsOK /\ CellsOK /\ MutexOK /\ MutexOwnership
    BY DEF TablesOK
<1>2. Next
    BY DEF Next
<1>3. CallsOK'
    BY <1>1, <1>2, CallsOKStep DEF CellsOK
<1>4. CellsOK' /\ MutexOK' /\ MutexOwnership'
    BY <1>1, CellsOKStep, MutexOKStep, OwnershipStep
<1>5. \A x \in Actor : x # a => call'[x] = call[x]
    BY <1>1, OthersKeep
<1>. QED  BY <1>3, <1>4, <1>5 DEF TablesOK

(* Nothing of the table but one actor's call changes in a call or return.  *)
LEMMA CallEffect ==
    ASSUME TablesOK, NEW a \in Actor, NEW r, Call(a, r)
    PROVE  call'[a] = [stage |-> "lock", req |-> r, got |-> << >>, pos |-> 0]
    BY DEF Call, TablesOK, CallsOK

LEMMA ReturnEffect ==
    ASSUME TablesOK, NEW a \in Actor, Return(a)
    PROVE  call'[a] = NoCall
    BY DEF Return, TablesOK, CallsOK

(* A call that goes on is still the same call.                             *)
LEMMA StepKeepsRequest ==
    ASSUME TablesOK, NEW a \in Actor, Step(a)
    PROVE  /\ ~In(a, "idle")
           /\ call'[a].stage # "idle" /\ call'[a].req = call[a].req
<1>1. ~In(a, "idle")
    BY DEF Step, LockForStore, Store, Unlock, LockForLoad, Load, Throw, In
<1>2. CallsOK
    BY DEF TablesOK
<1>3. DOMAIN call = Actor
    BY <1>2 DEF CallsOK
<1>4. CASE \E st \in Stages \ {"idle"} : call' = At(a, st)
  <2>1. PICK st \in Stages \ {"idle"} : call' = At(a, st)
      BY <1>4
  <2>2. call' = [call EXCEPT ![a] = Staged(a, st)]
      BY <1>1, <1>2, <2>1, AtStage
  <2>. QED  BY <1>1, <1>3, <2>2 DEF Staged
<1>5. CASE \E st \in Stages \ {"idle"} : \E got : call' = Loaded(a, st, got)
  <2>. QED  BY <1>1, <1>3, <1>5 DEF Loaded, Stages
<1>6. CASE Store(a)
  <2>. QED  BY <1>1, <1>2, <1>6, StoreFacts
<1>7. Step(a) => \/ \E st \in Stages \ {"idle"} : call' = At(a, st)
                 \/ \E st \in Stages \ {"idle"} : \E got : call' = Loaded(a, st, got)
                 \/ Store(a)
  <2>1. LockForStore(a) \/ Unlock(a) \/ Throw(a) =>
          \E st \in Stages \ {"idle"} : call' = At(a, st)
      BY DEF LockForStore, Unlock, Throw, Stages
  <2>2. LockForLoad(a) =>
          \/ \E st \in Stages \ {"idle"} : call' = At(a, st)
          \/ \E st \in Stages \ {"idle"} : \E got : call' = Loaded(a, st, got)
      BY DEF LockForLoad, Stages
  <2>3. Load(a) =>
          \E st \in Stages \ {"idle"} : \E got : call' = Loaded(a, st, got)
      BY DEF Load, Stages
  <2>. QED  BY <2>1, <2>2, <2>3 DEF Step
<1>. QED  BY <1>1, <1>4, <1>5, <1>6, <1>7

(* A store through a reference keeps the types, and nothing else changes.  *)
LEMMA RefStoreKeeps ==
    ASSUME TablesOK, NEW a \in Actor, NEW r \in RefAccess, RefStore(a, r)
    PROVE  TablesOK'
<1>1. WellFormed(r) /\ Writes(r)
    BY ServerAssumption
<1>2. /\ r.blk \in Block /\ r.addr \in Nat
      /\ r.buf \in Seq(Value[r.blk])
    BY <1>1 DEF WellFormed
<1>3. Written(cells[r.blk], r) \in [Cell(r.blk) -> Value[r.blk]]
  <2>1. cells[r.blk] \in [Cell(r.blk) -> Value[r.blk]]
      BY <1>2 DEF TablesOK, CellsOK
  <2>2. Start[r.blk] \in Nat /\ Capacity[r.blk] \in Nat /\ Len(r.buf) \in Nat
      BY <1>2, DataBlockAssumption, LenProperties
  <2>3. ASSUME NEW c \in Cell(r.blk), c \in Span(r.blk, r.addr, Len(r.buf))
        PROVE  r.buf[c - Index(r.blk, r.addr) + 1] \in Value[r.blk]
    <3>1. c - Index(r.blk, r.addr) + 1 \in 1 .. Len(r.buf)
        BY <1>2, <2>2, <2>3 DEF Span, Index, Cell
    <3>. QED  BY <1>2, <3>1, ElementOfSeq
  <2>. QED  BY <2>1, <2>3 DEF Written, Overwrite
<1>4. CellsOK'
    BY <1>2, <1>3 DEF RefStore, TablesOK, CellsOK
<1>5. CallsOK' /\ MutexOK' /\ MutexOwnership'
    BY DEF RefStore, TablesOK, CallsOK, MutexOK, MutexOwnership, In
<1>. QED  BY <1>4, <1>5 DEF TablesOK
-----------------------------------------------------------------------------
(* What a session's step may leave of it, and of the others.               *)
Only(s, j, c, r) ==
    /\ DOMAIN job' = Session /\ job'[s] = j
    /\ DOMAIN reply' = Session /\ reply'[s] = r
    /\ call'[s] = c
    /\ \A x \in Session :
         x # s => job'[x] = job[x] /\ reply'[x] = reply[x] /\ call'[x] = call[x]

LEMMA OneSession ==
    ASSUME SessionsOK, NEW s \in Session, NEW j, NEW c, NEW r,
           SessionOK(j, c, r), Only(s, j, c, r)
    PROVE  SessionsOK'
<1>1. SessionOK(job'[s], call'[s], reply'[s])
    BY DEF Only
<1>2. ASSUME NEW x \in Session, x # s
      PROVE  SessionOK(job'[x], call'[x], reply'[x])
  <2>1. job'[x] = job[x] /\ reply'[x] = reply[x] /\ call'[x] = call[x]
      BY <1>2 DEF Only
  <2>2. SessionOK(job[x], call[x], reply[x])
      BY DEF SessionsOK
  <2>. QED  BY <2>1, <2>2
<1>3. DOMAIN job' = Session /\ DOMAIN reply' = Session
    BY DEF Only
<1>. QED  BY <1>1, <1>2, <1>3 DEF SessionsOK

LEMMA SameSessions ==
    ASSUME SessionsOK, UNCHANGED << job, reply >>,
           \A x \in Session : call'[x] = call[x]
    PROVE  SessionsOK'
    BY DEF SessionsOK

LEMMA SessionFacts ==
    ASSUME SessionsOK, NEW s \in Session
    PROVE  /\ SessionOK(job[s], call[s], reply[s])
           /\ Encoding(s) => EncodeOK(job[s], call[s])
           /\ ~Encoding(s) => In(s, "idle")
           /\ s \in Actor /\ s \notin App
<1>1. SessionOK(job[s], call[s], reply[s])
    BY DEF SessionsOK
<1>2. s \in Actor /\ s \notin App
    BY ServerAssumption
<1>. QED  BY <1>1, <1>2 DEF SessionOK, Encoding, In

(* on_receive: refused or admitted.                                        *)
LEMMA RefuseKeeps ==
    ASSUME SessionsOK, NEW s \in Session, NEW p \in Packet, Refuse(s, p)
    PROVE  SessionsOK'
<1>. PICK r : r = Exception(p, Verdict(p))
    OBVIOUS
<1>. PICK j : j = [stage |-> "answered", pkt |-> p]
    OBVIOUS
<1>1. ~Encoding(s)
    BY DEF Refuse, ThreadFree, Handling, Encoding
<1>2. call[s].stage = "idle"
    BY <1>1, SessionFacts DEF In
<1>3. r.exc # 0
    BY DEF Refuse, Exception
<1>4. SessionOK(j, call[s], r)
    BY <1>2, <1>3 DEF SessionOK, ReplyOK
<1>5. job' = [job EXCEPT ![s] = j] /\ reply' = [reply EXCEPT ![s] = r]
    BY DEF Refuse, Answered
<1>6. call'[s] = call[s] /\ \A x \in Session : x # s => call'[x] = call[x]
    BY DEF Refuse, vars
<1>7. Only(s, j, call[s], r)
    BY <1>5, <1>6 DEF Only, SessionsOK
<1>. QED  BY <1>4, <1>7, OneSession

LEMMA AdmitKeeps ==
    ASSUME TablesOK, SessionsOK, NEW s \in Session, NEW p \in Packet, Admit(s, p)
    PROVE  SessionsOK' /\ \E r \in Access : Call(s, r)
<1>. PICK q : q = TableCall(p, 1, << >>)
    OBVIOUS
<1>. PICK j : j = [stage |-> "encode", pkt |-> p, step |-> 1, got |-> << >>]
    OBVIOUS
<1>. PICK c : c = [stage |-> "lock", req |-> q, got |-> << >>, pos |-> 0]
    OBVIOUS
<1>1. Admitted(p) /\ Call(s, q)
    BY DEF Admit, Admitted
<1>2. 1 \in 1 .. Calls(p)
    BY DEF Calls
<1>3. q \in Access
    BY <1>1, <1>2, CallMade
<1>4. call'[s] = c
    BY <1>1, CallEffect, SessionFacts
<1>5. \A x \in Session : x # s => call'[x] = call[x]
    BY <1>1, <1>3, TableStep, ServerAssumption
<1>6. SessionOK(j, c, reply[s])
    BY <1>1, <1>2 DEF SessionOK, EncodeOK
<1>7. job' = [job EXCEPT ![s] = j] /\ reply' = reply
    BY DEF Admit
<1>8. Only(s, j, c, reply[s])
    BY <1>4, <1>5, <1>7 DEF Only, SessionsOK
<1>. QED  BY <1>1, <1>3, <1>6, <1>8, OneSession

(* A step inside the call.                                                 *)
LEMMA StepKeeps ==
    ASSUME TablesOK, SessionsOK, NEW s \in Session, Step(s),
           UNCHANGED << job, reply >>
    PROVE  SessionsOK'
<1>1. s \in Actor /\ Encoding(s) /\ EncodeOK(job[s], call[s])
    BY SessionFacts, StepKeepsRequest
<1>2. call[s].stage # "idle" /\ call'[s].req = call[s].req
    BY <1>1, StepKeepsRequest DEF In
<1>3. EncodeOK(job[s], call'[s])
    BY <1>1, <1>2 DEF EncodeOK
<1>4. SessionOK(job[s], call'[s], reply[s])
    BY <1>1, <1>3 DEF SessionOK, Encoding
<1>5. \A x \in Session : x # s => call'[x] = call[x]
    BY <1>1, TableStep, ServerAssumption
<1>6. Only(s, job[s], call'[s], reply[s])
    BY <1>5 DEF Only, SessionsOK
<1>. QED  BY <1>4, <1>6, OneSession

(* What the calls of a response have read when one of them returns.        *)
LEMMA ReadFacts ==
    ASSUME TablesOK, SessionsOK, NEW s \in Session, Encoding(s), In(s, "ok"),
           NEW p, p = job[s].pkt, NEW k, k = job[s].step
    PROVE  /\ Admitted(p) /\ k \in 1 .. Calls(p)
           /\ k = 1 /\ p.fn = mask_write_register =>
                Read(s)[1] \in Value[holding_registers]
           /\ k = Calls(p) /\ p.fn \in ReadFunction =>
                /\ Len(Read(s)) = p.cnt
                /\ \A i \in 1 .. p.cnt : Read(s)[i] \in Value[BlockOf(p.fn)]
<1>. DEFINE q == call[s].req
<1>1. /\ EncodeOK(job[s], call[s]) /\ s \in Actor /\ ~In(s, "idle")
      /\ CallsOK
    BY SessionFacts DEF In, TablesOK
<1>2. /\ Admitted(p) /\ k \in 1 .. Calls(p)
      /\ q = TableCall(p, k, job[s].got)
    BY <1>1 DEF EncodeOK, In
<1>3. /\ call[s].got \in Seq(Value[q.blk]) /\ q.cnt \in Nat /\ q \in Access
      /\ ~Writes(q) => Len(call[s].got) = q.cnt
    BY <1>1, CallFacts, AccessFacts DEF Checked, In
<1>4. /\ k = Calls(p) /\ p.fn \in ReadFunction =>
           q = SliceCall(BlockOf(p.fn), p.addr, p.cnt)
      /\ k = 1 /\ p.fn = mask_write_register => q = AtCall(BlockOf(p.fn), p.waddr)
    BY <1>2, CallFits
<1>5. ASSUME k = 1, p.fn = mask_write_register
      PROVE  Read(s)[1] \in Value[holding_registers]
  <2>1. q.blk = holding_registers /\ q.cnt = 1 /\ ~Writes(q)
      BY <1>4, <1>5 DEF AtCall, Writes, BlockOf, mask_write_register, read_coils,
         write_single_coil, write_multiple_coils, read_discrete_inputs,
         read_input_registers
  <2>2. Read(s) = call[s].got
      BY <2>1 DEF Read
  <2>. QED  BY <1>3, <2>1, <2>2, ElementOfSeq
<1>6. ASSUME k = Calls(p), p.fn \in ReadFunction
      PROVE  /\ Len(Read(s)) = p.cnt
             /\ \A i \in 1 .. p.cnt : Read(s)[i] \in Value[BlockOf(p.fn)]
  <2>1. q.blk = BlockOf(p.fn) /\ q.cnt = p.cnt /\ ~Writes(q)
      BY <1>4, <1>6 DEF SliceCall, Writes
  <2>2. Read(s) = call[s].got
      BY <2>1 DEF Read
  <2>. QED  BY <1>3, <2>1, <2>2, ElementOfSeq
<1>. QED  BY <1>2, <1>5, <1>6
(* A response between two of its calls, and between the last and the end.  *)
LEMMA ResumeKeeps ==
    ASSUME TablesOK, SessionsOK, NEW s \in Session, Resume(s)
    PROVE  SessionsOK'
<1>. PICK p, k, got : p = job[s].pkt /\ k = job[s].step /\ got = Read(s)
    OBVIOUS
<1>. PICK j : j = [stage |-> "encode", pkt |-> p, step |-> k + 1, got |-> got]
    OBVIOUS
<1>1. Encoding(s) /\ In(s, "ok") /\ k < Calls(p) /\ Return(s) /\ s \in Actor
    BY SessionFacts DEF Resume
<1>2. /\ Admitted(p) /\ k \in 1 .. Calls(p)
      /\ k = 1 /\ p.fn = mask_write_register => got[1] \in Value[holding_registers]
    BY <1>1, ReadFacts
<1>3. k = 1 /\ Calls(p) = 2
    BY <1>1, <1>2 DEF Calls
<1>4. call'[s] = NoCall /\ \A x \in Session : x # s => call'[x] = call[x]
    BY <1>1, TableStep, ReturnEffect, ServerAssumption
<1>5. EncodeOK(j, NoCall)
    BY <1>2, <1>3 DEF EncodeOK, NoCall
<1>6. SessionOK(j, NoCall, reply[s])
    BY <1>5 DEF SessionOK
<1>7. job' = [job EXCEPT ![s] = j] /\ reply' = reply
    BY DEF Resume
<1>8. Only(s, j, NoCall, reply[s])
    BY <1>4, <1>7 DEF Only, SessionsOK
<1>. QED  BY <1>6, <1>8, OneSession

LEMMA ProceedKeeps ==
    ASSUME TablesOK, SessionsOK, NEW s \in Session, Proceed(s)
    PROVE  SessionsOK' /\ \E r \in Access : Call(s, r)
<1>. PICK p, k, got : p = job[s].pkt /\ k = job[s].step /\ got = job[s].got
    OBVIOUS
<1>. PICK q : q = TableCall(p, k, got)
    OBVIOUS
<1>. PICK c : c = [stage |-> "lock", req |-> q, got |-> << >>, pos |-> 0]
    OBVIOUS
<1>1. /\ Encoding(s) /\ Call(s, q) /\ UNCHANGED << job, reply >>
      /\ EncodeOK(job[s], call[s]) /\ s \in Actor
    BY SessionFacts DEF Proceed
<1>2. /\ Admitted(p) /\ k \in 1 .. Calls(p)
      /\ k # 1 /\ p.fn = mask_write_register => got[1] \in Value[holding_registers]
    BY <1>1 DEF EncodeOK
<1>3. q \in Access
    BY <1>2, CallMade
<1>4. call'[s] = c
    BY <1>1, CallEffect
<1>5. \A x \in Session : x # s => call'[x] = call[x]
    BY <1>1, <1>3, TableStep, ServerAssumption
<1>6. EncodeOK(job[s], c)
    BY <1>1 DEF EncodeOK
<1>7. SessionOK(job[s], c, reply[s])
    BY <1>1, <1>6 DEF SessionOK, Encoding
<1>8. Only(s, job[s], c, reply[s])
    BY <1>1, <1>4, <1>5 DEF Only, SessionsOK
<1>. QED  BY <1>1, <1>3, <1>7, <1>8, OneSession

LEMMA FinishKeeps ==
    ASSUME TablesOK, SessionsOK, NEW s \in Session, Finish(s)
    PROVE  SessionsOK'
<1>. PICK p, k, got : p = job[s].pkt /\ k = job[s].step /\ got = Read(s)
    OBVIOUS
<1>. PICK j : j = [stage |-> "answered", pkt |-> p]
    OBVIOUS
<1>. PICK r : r = IF In(s, "ok") THEN Success(p, got)
                  ELSE Exception(p, illegal_data_address)
    OBVIOUS
<1>1. Encoding(s) /\ (In(s, "ok") => k = Calls(p)) /\ Return(s) /\ s \in Actor
    BY SessionFacts DEF Finish
<1>2. ReplyOK(p, r)
  <2>1. CASE ~In(s, "ok")
    <3>1. r.exc # 0
        BY <2>1 DEF Exception, illegal_data_address
    <3>. QED  BY <3>1 DEF ReplyOK
  <2>2. CASE In(s, "ok") /\ p.fn \in ReadFunction
    <3>1. /\ Len(got) = p.cnt
          /\ \A i \in 1 .. p.cnt : got[i] \in Value[BlockOf(p.fn)]
        BY <1>1, <2>2, ReadFacts
    <3>2. r.data = got
        BY <2>2 DEF Success, Answer
    <3>. QED  BY <3>1, <3>2 DEF ReplyOK
  <2>3. CASE p.fn \notin ReadFunction
      BY <2>3 DEF ReplyOK
  <2>. QED  BY <2>1, <2>2, <2>3
<1>3. call'[s] = NoCall /\ \A x \in Session : x # s => call'[x] = call[x]
    BY <1>1, TableStep, ReturnEffect, ServerAssumption
<1>4. SessionOK(j, NoCall, r)
    BY <1>2 DEF SessionOK, NoCall
<1>5. job' = [job EXCEPT ![s] = j] /\ reply' = [reply EXCEPT ![s] = r]
    BY DEF Finish, Answered
<1>6. Only(s, j, NoCall, r)
    BY <1>3, <1>5 DEF Only, SessionsOK
<1>. QED  BY <1>4, <1>6, OneSession

LEMMA SendKeeps ==
    ASSUME SessionsOK, NEW s \in Session, Send(s)
    PROVE  SessionsOK'
<1>1. ~Encoding(s)
    BY DEF Send, Encoding
<1>2. call[s].stage = "idle"
    BY <1>1, SessionFacts DEF In
<1>3. SessionOK(NoJob, call[s], NoReply)
    BY <1>2 DEF SessionOK, NoJob
<1>4. /\ call' = call
      /\ job' = [job EXCEPT ![s] = NoJob] /\ reply' = [reply EXCEPT ![s] = NoReply]
    BY DEF Send, vars
<1>5. Only(s, NoJob, call[s], NoReply)
    BY <1>4 DEF Only, SessionsOK
<1>. QED  BY <1>3, <1>5, OneSession

-----------------------------------------------------------------------------
(* The invariant.                                                          *)
ServerInv == TablesOK /\ SessionsOK

(* Every step of the server is a step of one thread on the table, a store  *)
(* through a reference, or leaves the table alone.                         *)
LEMMA SessionStepKeeps ==
    ASSUME ServerInv, NEW s \in Session, SessionStep(s) \/ Receive(s)
    PROVE  /\ SessionsOK'
           /\ \/ UNCHANGED vars
              \/ (\E r \in Access : Call(s, r)) \/ Step(s) \/ Return(s)
<1>1. TablesOK /\ SessionsOK
    BY DEF ServerInv
<1>2. ASSUME NEW p \in Packet, Drop(s, p)
      PROVE  UNCHANGED vars /\ SessionsOK'
    BY <1>1, <1>2, SameSessions DEF Drop, svars, vars
<1>3. ASSUME NEW p \in Packet, Refuse(s, p)
      PROVE  UNCHANGED vars /\ SessionsOK'
  <2>1. UNCHANGED vars
      BY <1>3 DEF Refuse
  <2>. QED  BY <1>1, <1>3, <2>1, RefuseKeeps
<1>4. ASSUME NEW p \in Packet, Admit(s, p)
      PROVE  SessionsOK' /\ \E r \in Access : Call(s, r)
    BY <1>1, <1>4, AdmitKeeps
<1>5. ASSUME Step(s), UNCHANGED << job, reply >>
      PROVE  SessionsOK'
    BY <1>1, <1>5, StepKeeps
<1>6. ASSUME Resume(s)  PROVE SessionsOK' /\ Return(s)
  <2>1. Return(s)
      BY <1>6 DEF Resume
  <2>. QED  BY <1>1, <1>6, <2>1, ResumeKeeps
<1>7. ASSUME Proceed(s)  PROVE SessionsOK' /\ \E r \in Access : Call(s, r)
    BY <1>1, <1>7, ProceedKeeps
<1>8. ASSUME Finish(s)  PROVE SessionsOK' /\ Return(s)
  <2>1. Return(s)
      BY <1>8 DEF Finish
  <2>. QED  BY <1>1, <1>8, <2>1, FinishKeeps
<1>9. ASSUME Send(s)  PROVE SessionsOK' /\ UNCHANGED vars
  <2>1. UNCHANGED vars
      BY <1>9 DEF Send
  <2>. QED  BY <1>1, <1>9, <2>1, SendKeeps
<1>. QED  BY <1>2, <1>3, <1>4, <1>5, <1>6, <1>7, <1>8, <1>9 DEF SessionStep, Receive

LEMMA ServerInvStep == ServerInv /\ [SNext]_svars => ServerInv'
<1>. SUFFICES ASSUME ServerInv, [SNext]_svars PROVE ServerInv'
    OBVIOUS
<1>1. TablesOK /\ SessionsOK
    BY DEF ServerInv
<1>2. ASSUME UNCHANGED vars  PROVE TablesOK'
    BY <1>1, <1>2 DEF vars, TablesOK, CallsOK, CellsOK, MutexOK, MutexOwnership, In
<1>3. ASSUME NEW s \in Session, Receive(s) \/ SessionStep(s)  PROVE ServerInv'
  <2>1. /\ SessionsOK'
        /\ \/ UNCHANGED vars
           \/ (\E r \in Access : Call(s, r)) \/ Step(s) \/ Return(s)
      BY <1>3, SessionStepKeeps
  <2>2. s \in Actor
      BY ServerAssumption
  <2>3. TablesOK'
      BY <1>1, <1>2, <2>1, <2>2, TableStep
  <2>. QED  BY <2>1, <2>3 DEF ServerInv
<1>4. ASSUME NEW a \in App, AppStep(a)  PROVE ServerInv'
  <2>1. a \in Actor /\ a \notin Session
      BY ServerAssumption
  <2>2. (\E r \in Access : Call(a, r)) \/ Step(a) \/ Return(a)
      BY <1>4, ServerAssumption DEF AppStep
  <2>3. TablesOK' /\ \A x \in Actor : x # a => call'[x] = call[x]
      BY <1>1, <2>1, <2>2, TableStep
  <2>4. \A x \in Session : call'[x] = call[x]
      BY <2>1, <2>3, ServerAssumption
  <2>5. UNCHANGED << job, reply >>
      BY <1>4 DEF AppStep
  <2>. QED  BY <1>1, <2>3, <2>4, <2>5, SameSessions DEF ServerInv
<1>5. ASSUME NEW a \in App, NEW r \in RefAccess, RefStore(a, r)  PROVE ServerInv'
  <2>1. TablesOK'
      BY <1>1, <1>5, RefStoreKeeps, ServerAssumption
  <2>2. call' = call /\ UNCHANGED << job, reply >>
      BY <1>5 DEF RefStore
  <2>. QED  BY <1>1, <2>1, <2>2, SameSessions DEF ServerInv
<1>6. CASE UNCHANGED svars
  <2>1. UNCHANGED vars /\ UNCHANGED << job, reply >> /\ call' = call
      BY <1>6 DEF svars, vars
  <2>. QED  BY <1>1, <1>2, <2>1, SameSessions DEF ServerInv
<1>. QED  BY <1>3, <1>4, <1>5, <1>6 DEF SNext
LEMMA ServerInvInit == SInit => ServerInv
<1>. SUFFICES ASSUME SInit PROVE ServerInv
    OBVIOUS
<1>1. IInv
    BY IInvInit DEF SInit
<1>2. TablesOK
    BY <1>1, TypeParts DEF IInv, TablesOK
<1>3. ASSUME NEW s \in Session  PROVE SessionOK(job[s], call[s], reply[s])
  <2>1. s \in Actor
      BY ServerAssumption
  <2>2. job[s] = NoJob /\ call[s] = NoCall
      BY <2>1 DEF SInit, Init
  <2>. QED  BY <2>2 DEF SessionOK, NoJob, NoCall
<1>4. SessionsOK
    BY <1>3 DEF SInit, SessionsOK
<1>. QED  BY <1>2, <1>4 DEF ServerInv

(* The table stays well typed and its mutexes owned by those who store,    *)
(* and every session is where its handler should be: in the call that its  *)
(* response makes next, or in none.                                        *)
THEOREM ServerInvariant == SSpec => []ServerInv
    BY ServerInvInit, ServerInvStep, PTL DEF SSpec

(* A handler and the table never disagree on what the handler is doing.    *)
THEOREM HandlersInStep == SSpec => []SessionsOK
<1>1. ServerInv => SessionsOK
    BY DEF ServerInv
<1>. QED  BY ServerInvariant, <1>1, PTL

(* No table call of a request that execute has admitted is refused, so an  *)
(* exception reply means that nothing was written.                         *)
THEOREM NeverHalfRefused == SSpec => []NoRefusalHalfWay
<1>1. ServerInv => NoRefusalHalfWay
  <2>. SUFFICES ASSUME ServerInv, NEW s \in Session, In(s, "throw")  PROVE FALSE
      BY DEF NoRefusalHalfWay
  <2>1. SessionsOK /\ CallsOK /\ ~In(s, "idle")
      BY DEF ServerInv, TablesOK, In
  <2>2. EncodeOK(job[s], call[s]) /\ s \in Actor
      BY <2>1, SessionFacts
  <2>3. ~Valid(call[s].req)
      BY <2>1, <2>2, CallFacts DEF Checked, In
  <2>4. Valid(call[s].req)
      BY <2>1, <2>2, CallFits DEF EncodeOK, In
  <2>. QED  BY <2>3, <2>4
<1>. QED  BY ServerInvariant, <1>1, PTL

(* A reply that is not an exception carries as many values as were asked   *)
(* for, each one a value of the block, whatever stored in the meantime.    *)
THEOREM RepliesComplete == SSpec => []ReplyComplete
<1>1. ServerInv => ReplyComplete
    BY DEF ServerInv, SessionsOK, SessionOK, ReplyComplete
<1>. QED  BY ServerInvariant, <1>1, PTL

-----------------------------------------------------------------------------
(* A store of a call changes one cell, of its block and in its range, with *)
(* the block's mutex in hand.                                              *)
LEMMA StoredCell ==
    ASSUME TablesOK, NEW a \in Actor,
           (\E r \in Access : Call(a, r)) \/ Step(a) \/ Return(a),
           NEW b \in Block, NEW c \in Cell(b), cells'[b][c] # cells[b][c]
    PROVE  /\ mutex[b] = a /\ ~In(a, "idle") /\ Writes(call[a].req)
           /\ b = call[a].req.blk
           /\ c \in Span(b, call[a].req.addr, call[a].req.cnt)
<1>. PICK r, n : r = call[a].req /\ n = call[a].pos
    OBVIOUS
<1>1. CallsOK /\ CellsOK /\ MutexOwnership
    BY DEF TablesOK
<1>2. Store(a)
    BY <1>1, CellsOKStep
<1>3. /\ In(a, "store") /\ r \in Access /\ r.blk \in Block /\ Writes(r)
      /\ n \in Nat /\ n < r.cnt /\ r.cnt \in Nat
    BY <1>1, <1>2, StoreFacts
<1>4. cells' = [cells EXCEPT ![r.blk] =
                  [@ EXCEPT ![Index(r.blk, r.addr) + n] = r.buf[n + 1]]]
    BY <1>2 DEF Store
<1>5. b = r.blk
    BY <1>1, <1>3, <1>4 DEF CellsOK
<1>6. cells'[b] = [cells[b] EXCEPT ![Index(b, r.addr) + n] = r.buf[n + 1]]
    BY <1>1, <1>4, <1>5 DEF CellsOK
<1>7. cells[b] \in [Cell(b) -> Value[b]]
    BY <1>1 DEF CellsOK
<1>8. c = Index(b, r.addr) + n
    BY <1>6, <1>7
<1>9. c \in Span(b, r.addr, r.cnt)
  <2>1. Start[b] \in Nat /\ r.addr \in Nat
      BY <1>3, <1>5, DataBlockAssumption, AccessFacts
  <2>. QED  BY <1>3, <1>8, <2>1 DEF Span, Index
<1>10. mutex[b] = a
    BY <1>1, <1>3, <1>5 DEF MutexOwnership
<1>. QED  BY <1>3, <1>5, <1>9, <1>10 DEF In

(* The frame: what a session stores lies in the write range of the request *)
(* it is answering.                                                        *)
LEMMA FrameStep == ServerInv /\ [SNext]_svars => SessionFrame
<1>. SUFFICES ASSUME ServerInv, [SNext]_svars,
                     NEW b \in Block, NEW c \in Cell(b), cells'[b][c] # cells[b][c]
              PROVE  \/ \E a \in App : mutex[b] = a \/ \E r \in RefAccess : RefStore(a, r)
                     \/ \E s \in Session :
                          /\ mutex[b] = s /\ Encoding(s)
                          /\ b = BlockOf(job[s].pkt.fn)
                          /\ c \in WriteSpan(job[s].pkt)
    BY DEF SessionFrame
<1>1. TablesOK /\ SessionsOK /\ cells' # cells
    BY DEF ServerInv
<1>2. ASSUME NEW s \in Session, Receive(s) \/ SessionStep(s)
      PROVE  /\ mutex[b] = s /\ Encoding(s)
             /\ b = BlockOf(job[s].pkt.fn) /\ c \in WriteSpan(job[s].pkt)
  <2>. PICK p, k, q : p = job[s].pkt /\ k = job[s].step /\ q = call[s].req
      OBVIOUS
  <2>1. /\ (\E r \in Access : Call(s, r)) \/ Step(s) \/ Return(s)
        /\ s \in Actor
      BY <1>1, <1>2, SessionStepKeeps, ServerAssumption DEF vars
  <2>2. /\ mutex[b] = s /\ ~In(s, "idle") /\ Writes(q)
        /\ b = q.blk /\ c \in Span(b, q.addr, q.cnt)
      BY <1>1, <2>1, StoredCell
  <2>3. Encoding(s) /\ EncodeOK(job[s], call[s])
      BY <1>1, <2>2, SessionFacts
  <2>4. /\ Admitted(p) /\ k \in 1 .. Calls(p)
        /\ q = TableCall(p, k, job[s].got)
      BY <2>2, <2>3 DEF EncodeOK, In
  <2>5. q.blk = BlockOf(p.fn) /\ Span(q.blk, q.addr, q.cnt) \subseteq WriteSpan(p)
      BY <2>2, <2>4, CallFits
  <2>. QED  BY <2>2, <2>3, <2>5
<1>3. ASSUME NEW a \in App, AppStep(a)  PROVE mutex[b] = a
  <2>1. /\ (\E r \in Access : Call(a, r)) \/ Step(a) \/ Return(a)
        /\ a \in Actor
      BY <1>3, ServerAssumption DEF AppStep
  <2>. QED  BY <1>1, <2>1, StoredCell
<1>4. ~UNCHANGED svars
    BY <1>1 DEF svars
<1>. QED  BY <1>2, <1>3, <1>4 DEF SNext

(* A session changes only cells that the request it is answering writes:   *)
(* everything else is the application's doing.                             *)
THEOREM SessionsWriteInFrame == SSpec => WritesInFrame
<1>1. ServerInv /\ [SNext]_svars => [SessionFrame]_svars
    BY FrameStep
<1>. QED  BY ServerInvariant, <1>1, PTL DEF SSpec, WritesInFrame
-----------------------------------------------------------------------------
(* What the refinements of the whole server take from its invariant.       *)

(* The calls of a handler that is encoding.                                *)
LEMMA HandlerFacts ==
    ASSUME ServerInv, NEW s \in Session, Encoding(s),
           NEW p, p = job[s].pkt, NEW k, k = job[s].step,
           NEW q, q = call[s].req, NEW b, b = BlockOf(p.fn)
    PROVE  /\ Admitted(p) /\ k \in 1 .. Calls(p) /\ s \in Actor
           /\ CallsOK /\ CellsOK
           /\ b \in Block /\ Start[b] \in Nat
           /\ p.waddr \in Nat /\ p.wcnt \in Nat /\ p.addr \in Nat /\ p.cnt \in Nat
           /\ ~In(s, "idle") =>
                /\ q = TableCall(p, k, job[s].got) /\ q \in Access
                /\ Valid(q) /\ q.blk = b /\ q.addr \in Nat /\ q.cnt \in Nat
<1>1. /\ SessionsOK /\ CallsOK /\ CellsOK /\ s \in Actor
    BY ServerAssumption DEF ServerInv, TablesOK
<1>2. EncodeOK(job[s], call[s])
    BY <1>1, SessionFacts
<1>3. Admitted(p) /\ k \in 1 .. Calls(p)
    BY <1>2 DEF EncodeOK
<1>4. /\ b \in Block
      /\ p.waddr \in Nat /\ p.wcnt \in Nat /\ p.addr \in Nat /\ p.cnt \in Nat
    BY <1>3, PacketFacts
<1>5. Start[b] \in Nat
    BY <1>4, DataBlockAssumption
<1>6. ASSUME ~In(s, "idle")
      PROVE  /\ q = TableCall(p, k, job[s].got) /\ q \in Access
             /\ Valid(q) /\ q.blk = b /\ q.addr \in Nat /\ q.cnt \in Nat
  <2>1. q = TableCall(p, k, job[s].got)
      BY <1>2, <1>6 DEF EncodeOK, In
  <2>2. q \in Access
      BY <1>1, <1>6, CallFacts
  <2>. QED  BY <1>3, <2>1, <2>2, CallFits, AccessFacts
<1>. QED  BY <1>1, <1>3, <1>4, <1>5, <1>6

(* Which call stores, and what.                                            *)
LEMMA StoreShape ==
    ASSUME NEW p, Admitted(p), NEW k \in 1 .. Calls(p), NEW got,
           NEW q, q = TableCall(p, k, got), Writes(q)
    PROVE  /\ q.addr = p.waddr /\ p.fn \in WriteFunction
           /\ q.cnt = IF p.fn = mask_write_register THEN 1 ELSE p.wcnt
           /\ ~(p.fn = read_write_multiple_registers /\ k = 2)
           /\ p.fn = mask_write_register => k = 2
           /\ \A n \in Nat : n < q.cnt =>
                q.buf[n + 1] =
                  IF p.fn = mask_write_register THEN Masked(got[1], p)
                  ELSE IF n + 1 <= Len(p.vals) THEN p.vals[n + 1] ELSE off
<1>. PICK b : b = BlockOf(p.fn)
    OBVIOUS
<1>1. p.wcnt \in Nat
    BY PacketFacts
<1>2. ~(p.fn \in {write_single_coil, mask_write_register} /\ k = 1)
    BY DEF TableCall, AtCall, Writes
<1>3. k = 1 \/ k = 2
    BY DEF Calls
<1>4. CASE p.fn = mask_write_register
  <2>1. q = SetCall(b, p.waddr, << Masked(got[1], p) >>)
      BY <1>2, <1>4 DEF TableCall
  <2>2. /\ q.addr = p.waddr /\ q.cnt = 1 /\ q.buf = << Masked(got[1], p) >>
      BY <2>1 DEF SetCall
  <2>3. p.fn \in WriteFunction /\ p.fn # read_write_multiple_registers
      BY <1>4 DEF WriteFunction, mask_write_register, read_write_multiple_registers
  <2>4. \A n \in Nat : n < 1 => n + 1 = 1
      OBVIOUS
  <2>. QED  BY <1>1, <1>2, <1>3, <1>4, <2>2, <2>3, <2>4
<1>5. CASE p.fn # mask_write_register
  <2>1. p.fn \in WriteFunction /\ ~(p.fn \in ReadFunction /\ k = 2)
      BY <1>2, <1>5 DEF TableCall, SliceCall, Writes
  <2>2. q = SetCall(b, p.waddr, Resized(p.vals, p.wcnt))
      BY <1>2, <1>5, <2>1 DEF TableCall
  <2>3. /\ q.addr = p.waddr /\ q.buf = Resized(p.vals, p.wcnt)
        /\ q.cnt = Len(Resized(p.vals, p.wcnt))
      BY <2>2 DEF SetCall
  <2>4. q.cnt = p.wcnt
      BY <1>1, <2>3 DEF Resized
  <2>5. \A n \in Nat : n < p.wcnt =>
           q.buf[n + 1] = IF n + 1 <= Len(p.vals) THEN p.vals[n + 1] ELSE off
      BY <1>1, <2>3 DEF Resized
  <2>6. read_write_multiple_registers \in ReadFunction
      BY DEF ReadFunction
  <2>. QED  BY <1>5, <2>1, <2>3, <2>4, <2>5, <2>6
<1>. QED  BY <1>4, <1>5

(* The first call of a response in two calls, and the last call of any.    *)
LEMMA FirstAndLast ==
    ASSUME NEW p, Admitted(p), NEW k \in 1 .. Calls(p), NEW got,
           NEW q, q = TableCall(p, k, got)
    PROVE  /\ p.fn \in {write_single_coil, mask_write_register} /\ k = 1 =>
                q = AtCall(BlockOf(p.fn), p.waddr) /\ ~Writes(q)
           /\ p.fn = read_write_multiple_registers /\ k = 1 => Writes(q)
           /\ k = Calls(p) /\ p.fn \in WriteFunction =>
                Writes(q) \/ (p.fn = read_write_multiple_registers /\ k = 2)
           /\ Calls(p) = 2 => p.fn \in {write_single_coil, mask_write_register,
                                       read_write_multiple_registers}
           /\ k = 1 \/ k = 2
<1>1. \A b, addr, n, buf : /\ Writes(SetCall(b, addr, buf))
                           /\ ~Writes(AtCall(b, addr))
    BY DEF SetCall, AtCall, Writes
<1>2. p.fn \in {write_single_coil, mask_write_register} /\ k = 1 =>
         q = AtCall(BlockOf(p.fn), p.waddr)
    BY DEF TableCall
<1>3. p.fn = read_write_multiple_registers /\ k = 1 => Writes(q)
    BY <1>1 DEF TableCall, read_write_multiple_registers, write_single_coil,
       mask_write_register, WriteFunction
<1>4. k = 1 \/ k = 2
    BY DEF Calls
<1>5. ASSUME k = Calls(p), p.fn \in WriteFunction
      PROVE  Writes(q) \/ (p.fn = read_write_multiple_registers /\ k = 2)
  <2>1. CASE p.fn = mask_write_register
      BY <1>1, <1>5, <2>1 DEF TableCall, Calls
  <2>2. CASE p.fn = write_single_coil
      BY <1>1, <1>5, <2>2 DEF TableCall, Calls, write_single_coil,
         mask_write_register, ReadFunction, read_coils, read_discrete_inputs,
         read_holding_registers, read_input_registers, read_write_multiple_registers
  <2>3. CASE p.fn = read_write_multiple_registers
      BY <1>3, <1>4, <2>3
  <2>4. CASE p.fn \in {write_single_register, write_multiple_coils, write_multiple_registers}
      BY <1>1, <1>5, <2>4 DEF TableCall, Calls, write_single_coil,
         write_single_register, write_multiple_coils, write_multiple_registers,
         mask_write_register, read_write_multiple_registers
  <2>. QED  BY <1>5, <2>1, <2>2, <2>3, <2>4 DEF WriteFunction
<1>6. Calls(p) = 2 => p.fn \in {write_single_coil, mask_write_register,
                                read_write_multiple_registers}
    BY DEF Calls
<1>. QED  BY <1>1, <1>2, <1>3, <1>4, <1>5, <1>6
(* One session's job changes, and nobody else's.                           *)
LEMMA OneJob ==
    ASSUME SessionsOK, NEW s \in Session, NEW j, job' = [job EXCEPT ![s] = j],
           \A x \in Session : x # s => ~Handling(x)
    PROVE  /\ job'[s] = j
           /\ \A x \in Session : x # s => ~Handling(x) /\ job'[x] = job[x]
    BY DEF SessionsOK

(* What a session's step does to its own reply.                            *)
LEMMA RepliesOfOthers ==
    ASSUME SessionsOK, NEW s \in Session, NEW r, reply' = [reply EXCEPT ![s] = r]
    PROVE  /\ reply'[s] = r
           /\ \A x \in Session : x # s => reply'[x] = reply[x]
    BY DEF SessionsOK
=============================================================================
