---------------------------- MODULE SerialProofs ----------------------------
(***************************************************************************)
(* A server on one io thread is atomic, request by request, for any        *)
(* sessions, table and packets: SerialServer implements AtomicServer.      *)
(* Each request takes effect when its handler is done with the table.      *)
(***************************************************************************)
EXTENDS SerialServer, ServerProofs

-----------------------------------------------------------------------------
(* A table of which nothing is done, and one of which all is done.         *)
LEMMA NothingDone ==
    ASSUME NEW t, IsTable(t), NEW p
    PROVE  Partly(t, p, {}) = t
<1>1. \A b \in Block : [c \in Cell(b) |-> t[b][c]] = t[b]
    BY DEF IsTable
<1>2. Partly(t, p, {}) = [b \in Block |-> t[b]]
    BY <1>1 DEF Partly
<1>. QED  BY <1>2 DEF IsTable

LEMMA AllDone ==
    ASSUME NEW t, NEW p
    PROVE  Partly(t, p, WriteSpan(p)) = Effect(t, p)
    BY DEF Partly, Effect

(* What is known of a handler, its call and the table.                     *)
Progress(j, c, before, now) ==
    /\ IsTable(before)
    /\ now = Partly(before, j.pkt, StoredBy(j.pkt, j.step, c))
    /\ ReadRight(c, now) /\ KeptRight(j, before)

LEMMA ProgressFacts ==
    ASSUME SerialOK, NEW s \in Session, Encoding(s)
    PROVE  Progress(job[s], call[s], pre, cells)
    BY DEF SerialOK, Progress

LEMMA OthersIdle ==
    ASSUME SerialOK, NEW s \in Session, Handling(s), NEW x \in Session, x # s
    PROVE  ~Handling(x)
    BY DEF SerialOK

(* One handler's step, the others being idle.                              *)
LEMMA OneHandler ==
    ASSUME NEW s \in Session, NEW j, job'[s] = j,
           \A x \in Session : x # s => ~Handling(x) /\ job'[x] = job[x],
           IsTable(cells'),
           j.stage = "encode" => Progress(j, call'[s], pre', cells')
    PROVE  SerialOK'
<1>1. \A x \in Session : x # s => job'[x].stage = "idle"
    BY DEF Handling
<1>2. \A x, y \in Session : Handling(x)' /\ Handling(y)' => x = y
    BY <1>1 DEF Handling
<1>3. ASSUME NEW x \in Session, Encoding(x)'
      PROVE  Progress(job'[x], call'[x], pre', cells')
  <2>1. x = s
      BY <1>1, <1>3 DEF Encoding
  <2>. QED  BY <1>3, <2>1 DEF Encoding
<1>. QED  BY <1>2, <1>3 DEF SerialOK, Progress

(* Which call stores, and what, when a mask is of one register.            *)
LEMMA StoringCalls ==
    ASSUME NEW p, Admitted(p), NEW k \in 1 .. Calls(p), NEW got,
           NEW q, q = TableCall(p, k, got), Writes(q)
    PROVE  /\ q.addr = p.waddr /\ q.cnt = p.wcnt /\ p.fn \in WriteFunction
           /\ ~(p.fn = read_write_multiple_registers /\ k = 2)
           /\ p.fn = mask_write_register => k = 2
           /\ \A n \in Nat : n < q.cnt =>
                q.buf[n + 1] =
                  IF p.fn = mask_write_register THEN Masked(got[1], p)
                  ELSE IF n + 1 <= Len(p.vals) THEN p.vals[n + 1] ELSE off
<1>1. p.fn = mask_write_register => p.wcnt = 1
    BY SerialAssumption DEF Admitted
<1>. QED  BY <1>1, StoreShape

-----------------------------------------------------------------------------
(* The table under a handler that steps inside a call.                     *)
LEMMA LockProgress ==
    ASSUME ServerInv, SerialOK, NEW s \in Session, Encoding(s), LockForStore(s)
    PROVE  Progress(job[s], call'[s], pre, cells')
<1>. PICK p, k, q, b : p = job[s].pkt /\ k = job[s].step /\ q = call[s].req
                       /\ b = BlockOf(p.fn)
    OBVIOUS
<1>1. In(s, "lock") /\ ~In(s, "idle") /\ Writes(q) /\ cells' = cells
    BY DEF LockForStore, In
<1>2. /\ Admitted(p) /\ k \in 1 .. Calls(p) /\ CallsOK /\ s \in Actor
      /\ b \in Block /\ Start[b] \in Nat /\ p.waddr \in Nat
      /\ q = TableCall(p, k, job[s].got)
    BY <1>1, HandlerFacts
<1>3. call[s].pos = 0
    BY <1>1, <1>2, CallFacts DEF Checked, In
<1>4. call'[s] = Staged(s, "store")
    BY <1>1, <1>2, AtStage DEF LockForStore, CallsOK, Stages
<1>5. /\ call'[s].stage = "store" /\ call'[s].pos = 0 /\ call'[s].req = q
    BY <1>3, <1>4 DEF Staged
<1>6. ~(p.fn = read_write_multiple_registers /\ k = 2)
    BY <1>1, <1>2, StoringCalls
<1>7. StoredBy(p, k, call[s]) = {}
    BY <1>1, <1>6 DEF StoredBy, In
<1>8. Span(b, p.waddr, 0) = {}
    BY <1>2 DEF Span, Index
<1>9. StoredBy(p, k, call'[s]) = {}
    BY <1>5, <1>8 DEF StoredBy
<1>10. Progress(job[s], call[s], pre, cells)
    BY ProgressFacts
<1>. QED  BY <1>1, <1>5, <1>7, <1>9, <1>10 DEF Progress, ReadRight

LEMMA StoreProgress ==
    ASSUME ServerInv, SerialOK, NEW s \in Session, Encoding(s), Store(s)
    PROVE  Progress(job[s], call'[s], pre, cells') /\ IsTable(cells')
<1>. PICK p, k, q, b : p = job[s].pkt /\ k = job[s].step /\ q = call[s].req
                       /\ b = BlockOf(p.fn)
    OBVIOUS
<1>. PICK n : n = call[s].pos
    OBVIOUS
<1>. PICK i : i = Index(b, p.waddr) + n
    OBVIOUS
<1>1. /\ In(s, "store") /\ ~In(s, "idle") /\ s \in Actor /\ CallsOK /\ CellsOK
      /\ Admitted(p) /\ k \in 1 .. Calls(p)
      /\ b \in Block /\ Start[b] \in Nat /\ p.waddr \in Nat
      /\ q = TableCall(p, k, job[s].got)
      /\ q \in Access /\ Valid(q) /\ q.blk = b
    BY HandlerFacts DEF Store, In
<1>2. /\ Writes(q) /\ n \in Nat /\ n < q.cnt /\ q.cnt \in Nat
      /\ call'[s].stage = "store" /\ call'[s].req = q /\ call'[s].pos = n + 1
    BY <1>1, StoreFacts
<1>3. /\ q.addr = p.waddr /\ q.cnt = p.wcnt
      /\ p.fn = mask_write_register => k = 2
      /\ q.buf[n + 1] = IF p.fn = mask_write_register THEN Masked(job[s].got[1], p)
                        ELSE IF n + 1 <= Len(p.vals) THEN p.vals[n + 1] ELSE off
  <2>. PICK got : got = job[s].got
      OBVIOUS
  <2>1. /\ Admitted(p) /\ k \in 1 .. Calls(p)
        /\ q = TableCall(p, k, got) /\ Writes(q)
      BY <1>1, <1>2
  <2>2. q.addr = p.waddr /\ q.cnt = p.wcnt
      BY <2>1, StoringCalls
  <2>3. p.fn = mask_write_register => k = 2
      BY <2>1, StoringCalls
  <2>4. \A m \in Nat : m < q.cnt =>
           q.buf[m + 1] =
             IF p.fn = mask_write_register THEN Masked(got[1], p)
             ELSE IF m + 1 <= Len(p.vals) THEN p.vals[m + 1] ELSE off
      BY <2>1, StoringCalls
  <2>. QED  BY <1>2, <2>2, <2>3, <2>4
<1>4. i \in Cell(b) /\ q.buf[n + 1] \in Value[b]
    BY <1>1, <1>2, <1>3, StoreTyped
<1>5. /\ Progress(job[s], call[s], pre, cells) /\ IsTable(cells)
    BY ProgressFacts DEF SerialOK
<1>6. q.buf[n + 1] = NewWord(p, i, pre[b][i])
  <2>1. i - Index(b, p.waddr) + 1 = n + 1
      BY <1>1, <1>2 DEF Index
  <2>2. ASSUME p.fn = mask_write_register
        PROVE  job[s].got[1] = pre[b][i]
    <3>1. p.wcnt = 1
        BY <1>1, <2>2, SerialAssumption DEF Admitted
    <3>2. n = 0
        BY <1>2, <1>3, <3>1
    <3>3. i = Index(b, p.waddr)
        BY <1>1, <3>2 DEF Index
    <3>4. job[s].got[1] = pre[b][Index(b, p.waddr)]
        BY <1>3, <1>5, <2>2 DEF Progress, KeptRight
    <3>. QED  BY <3>3, <3>4
  <2>. QED  BY <1>3, <2>1, <2>2 DEF NewWord
<1>7. cells = Partly(pre, p, Span(b, p.waddr, n))
    BY <1>1, <1>5 DEF Progress, StoredBy, In
<1>8. cells' = [cells EXCEPT ![b] = [cells[b] EXCEPT ![i] = q.buf[n + 1]]]
    BY <1>1, <1>3 DEF Store
<1>9. ASSUME NEW c \in Cell(b), c # i
      PROVE  c \in Span(b, p.waddr, n) <=> c \in Span(b, p.waddr, n + 1)
    BY <1>1, <1>2, <1>9 DEF Span, Index, Cell
<1>10. i \in Span(b, p.waddr, n + 1)
    BY <1>1, <1>2 DEF Span, Index
<1>11. cells' = Partly(pre, p, Span(b, p.waddr, n + 1))
  <2>1. [cells[b] EXCEPT ![i] = q.buf[n + 1]] =
          [c \in Cell(b) |-> IF c \in Span(b, p.waddr, n + 1)
                             THEN NewWord(p, c, pre[b][c]) ELSE pre[b][c]]
    <3>1. cells[b] = [c \in Cell(b) |-> IF c \in Span(b, p.waddr, n)
                                        THEN NewWord(p, c, pre[b][c]) ELSE pre[b][c]]
        BY <1>1, <1>7 DEF Partly
    <3>. QED  BY <1>4, <1>6, <1>9, <1>10, <3>1
  <2>2. ASSUME NEW x \in Block, x # b
        PROVE  cells'[x] = [c \in Cell(x) |-> pre[x][c]]
    <3>1. cells[x] = [c \in Cell(x) |-> pre[x][c]]
        BY <1>7, <2>2 DEF Partly
    <3>. QED  BY <1>8, <2>2, <3>1
  <2>3. cells' = [x \in Block |-> cells'[x]]
      BY <1>5, <1>8 DEF IsTable
  <2>4. cells'[b] = [cells[b] EXCEPT ![i] = q.buf[n + 1]]
      BY <1>1, <1>5, <1>8 DEF IsTable
  <2>5. ASSUME NEW x \in Block
        PROVE  cells'[x] =
                 [c \in Cell(x) |-> IF x = b /\ c \in Span(b, p.waddr, n + 1)
                                   THEN NewWord(p, c, pre[x][c]) ELSE pre[x][c]]
    <3>1. CASE x = b
        BY <2>1, <2>4, <3>1
    <3>2. CASE x # b
        BY <2>2, <3>2
    <3>. QED  BY <3>1, <3>2
  <2>6. cells' = [x \in Block |->
                   [c \in Cell(x) |-> IF x = b /\ c \in Span(b, p.waddr, n + 1)
                                     THEN NewWord(p, c, pre[x][c]) ELSE pre[x][c]]]
      BY <2>3, <2>5
  <2>. QED  BY <2>6 DEF Partly
<1>12. IsTable(cells')
  <2>1. [cells[b] EXCEPT ![i] = q.buf[n + 1]] \in [Cell(b) -> Value[b]]
      BY <1>1, <1>4, <1>5 DEF IsTable
  <2>. QED  BY <1>1, <1>5, <1>8, <2>1 DEF IsTable
<1>13. StoredBy(p, k, call'[s]) = Span(b, p.waddr, n + 1)
    BY <1>2 DEF StoredBy
<1>. QED  BY <1>2, <1>5, <1>11, <1>12, <1>13 DEF Progress, ReadRight

LEMMA UnlockProgress ==
    ASSUME ServerInv, SerialOK, NEW s \in Session, Encoding(s), Unlock(s)
    PROVE  Progress(job[s], call'[s], pre, cells')
<1>. PICK p, k, q, b : p = job[s].pkt /\ k = job[s].step /\ q = call[s].req
                       /\ b = BlockOf(p.fn)
    OBVIOUS
<1>1. In(s, "store") /\ ~In(s, "idle") /\ call[s].pos = q.cnt /\ cells' = cells
    BY DEF Unlock, In
<1>2. /\ Admitted(p) /\ k \in 1 .. Calls(p) /\ CallsOK /\ s \in Actor
      /\ q = TableCall(p, k, job[s].got)
    BY <1>1, HandlerFacts
<1>3. Writes(q)
    BY <1>1, <1>2, CallFacts DEF Checked, In
<1>4. call'[s] = Staged(s, "ok")
    BY <1>1, <1>2, AtStage DEF Unlock, CallsOK, Stages
<1>5. call'[s].stage = "ok" /\ call'[s].req = q
    BY <1>4 DEF Staged
<1>6. q.cnt = p.wcnt /\ p.fn \in WriteFunction
    BY <1>2, <1>3, StoringCalls
<1>7. StoredBy(p, k, call[s]) = WriteSpan(p)
    BY <1>1, <1>6 DEF StoredBy, WriteSpan, In
<1>8. StoredBy(p, k, call'[s]) = WriteSpan(p)
    BY <1>3, <1>5 DEF StoredBy
<1>9. Progress(job[s], call[s], pre, cells)
    BY ProgressFacts
<1>. QED  BY <1>1, <1>3, <1>5, <1>7, <1>8, <1>9 DEF Progress, ReadRight

LEMMA ReadProgress ==
    ASSUME ServerInv, SerialOK, NEW s \in Session, Encoding(s),
           LockForLoad(s) \/ Load(s)
    PROVE  Progress(job[s], call'[s], pre, cells')
<1>. PICK p, k, q, b : p = job[s].pkt /\ k = job[s].step /\ q = call[s].req
                       /\ b = BlockOf(p.fn)
    OBVIOUS
<1>. PICK n : n = Len(call[s].got)
    OBVIOUS
<1>. PICK e : e = cells[b][Index(b, q.addr) + n]
    OBVIOUS
<1>1. call[s].stage \in {"lock", "load"} /\ ~In(s, "idle") /\ cells' = cells
    BY DEF LockForLoad, Load, In
<1>2. /\ Admitted(p) /\ k \in 1 .. Calls(p) /\ CallsOK /\ s \in Actor
      /\ q \in Access /\ q.blk = b /\ b \in Block /\ Start[b] \in Nat /\ q.addr \in Nat
    BY <1>1, HandlerFacts
<1>3. /\ ~Writes(q) /\ call[s].got \in Seq(Value[b]) /\ n \in Nat
      /\ call[s].stage = "lock" => n = 0
  <2>1. Checked(call[s]) /\ call[s].got \in Seq(Value[b])
      BY <1>1, <1>2, CallFacts
  <2>2. n \in Nat /\ (call[s].stage = "lock" => n = 0)
      BY <2>1, LenProperties DEF Checked
  <2>3. ~Writes(q)
      BY <1>1, <2>1 DEF Checked, LockForLoad, Load, In
  <2>. QED  BY <2>1, <2>2, <2>3
<1>4. Progress(job[s], call[s], pre, cells)
    BY ProgressFacts
<1>5. /\ call'[s].stage \in {"load", "ok"} /\ call'[s].req = q
      /\ call'[s].got = call[s].got \/ call'[s].got = Append(call[s].got, e)
  <2>1. CASE LockForLoad(s) /\ call' = At(s, "load")
    <3>1. call'[s] = Staged(s, "load")
        BY <1>1, <1>2, <2>1, AtStage DEF CallsOK, Stages
    <3>. QED  BY <3>1 DEF Staged
  <2>2. CASE LockForLoad(s) /\ call' # At(s, "load")
    <3>1. call' = Loaded(s, "ok", << cells[b][Index(b, q.addr)] >>)
        BY <1>2, <2>2 DEF LockForLoad
    <3>2. call'[s] = [stage |-> "ok", req |-> q,
                      got |-> << cells[b][Index(b, q.addr)] >>, pos |-> 0]
        BY <1>2, <3>1 DEF Loaded, CallsOK
    <3>3. call[s].got = << >> /\ e = cells[b][Index(b, q.addr)]
      <4>1. n = 0
          BY <1>3, <2>2 DEF LockForLoad, In
      <4>2. call[s].got = << >>
          BY <1>3, <4>1, EmptySeq
      <4>3. Index(b, q.addr) + n = Index(b, q.addr)
          BY <1>2, <4>1 DEF Index
      <4>. QED  BY <4>2, <4>3
    <3>. QED  BY <3>2, <3>3
  <2>3. CASE Load(s)
    <3>1. PICK st \in {"load", "ok"} : call' = Loaded(s, st, Append(call[s].got, e))
        BY <1>2, <2>3 DEF Load
    <3>. QED  BY <1>2, <3>1 DEF Loaded, CallsOK
  <2>. QED  BY <2>1, <2>2, <2>3
<1>6. StoredBy(p, k, call'[s]) = StoredBy(p, k, call[s])
    BY <1>1, <1>3, <1>5 DEF StoredBy
<1>7. ReadRight(call'[s], cells)
  <2>1. \A i \in 1 .. n : call[s].got[i] = cells[b][Index(b, q.addr) + i - 1]
      BY <1>1, <1>2, <1>3, <1>4 DEF Progress, ReadRight, In
  <2>2. CASE call'[s].got = call[s].got
      BY <1>2, <1>5, <2>1, <2>2 DEF ReadRight
  <2>3. CASE call'[s].got = Append(call[s].got, e)
    <3>1. e = cells[b][Index(b, q.addr) + (n + 1) - 1]
        BY <1>2, <1>3 DEF Index
    <3>2. /\ Len(Append(call[s].got, e)) = n + 1
          /\ \A i \in 1 .. n + 1 : Append(call[s].got, e)[i] =
                                     IF i <= n THEN call[s].got[i] ELSE e
        BY <1>3
    <3>3. \A i \in 1 .. n + 1 :
            Append(call[s].got, e)[i] = cells[b][Index(b, q.addr) + i - 1]
      <4>. SUFFICES ASSUME NEW i \in 1 .. n + 1
                    PROVE  Append(call[s].got, e)[i] = cells[b][Index(b, q.addr) + i - 1]
          OBVIOUS
      <4>1. CASE i <= n
          BY <1>3, <2>1, <3>2, <4>1
      <4>2. CASE i = n + 1
          BY <1>3, <3>1, <3>2, <4>2
      <4>. QED  BY <1>3, <4>1, <4>2
    <3>. QED  BY <1>2, <1>5, <2>3, <3>2, <3>3 DEF ReadRight
  <2>. QED  BY <1>5, <2>2, <2>3
<1>. QED  BY <1>1, <1>4, <1>6, <1>7 DEF Progress
-----------------------------------------------------------------------------
(* The invariant, step by step.                                            *)
SerialInv == ServerInv /\ SerialOK

(* A handler that starts or goes on with one request keeps what it was     *)
(* admitted on.                                                            *)
LEMMA PreKept ==
    ASSUME Remember, NEW s \in Session, Encoding(s), Encoding(s)'
    PROVE  pre' = pre
    BY DEF Remember, Busy

(* A step inside a call: none is refused.                                  *)
LEMMA StepProgress ==
    ASSUME ServerInv, SerialOK, Remember, NEW s \in Session, Step(s),
           UNCHANGED << job, reply >>
    PROVE  /\ SerialOK' /\ Encoding(s) /\ Encoding(s)' /\ pre' = pre
<1>1. SessionsOK /\ CallsOK /\ s \in Actor
    BY ServerAssumption DEF ServerInv, TablesOK
<1>2. ~In(s, "idle")
    BY <1>1, StepKeepsRequest DEF ServerInv
<1>3. Encoding(s)
    BY <1>1, <1>2, SessionFacts
<1>4. Encoding(s)'
    BY <1>3 DEF Encoding
<1>5. pre' = pre
    BY <1>3, <1>4, PreKept
<1>6. ~Throw(s)
    BY <1>2, <1>3, HandlerFacts DEF Throw
<1>7. IsTable(cells)
    BY DEF SerialOK
<1>8. Progress(job[s], call'[s], pre, cells') /\ IsTable(cells')
  <2>1. CASE LockForStore(s)
    <3>1. cells' = cells
        BY <2>1 DEF LockForStore
    <3>. QED  BY <1>3, <1>7, <2>1, <3>1, LockProgress
  <2>2. CASE Store(s)
      BY <1>3, <2>2, StoreProgress
  <2>3. CASE Unlock(s)
    <3>1. cells' = cells
        BY <2>3 DEF Unlock
    <3>. QED  BY <1>3, <1>7, <2>3, <3>1, UnlockProgress
  <2>4. CASE LockForLoad(s) \/ Load(s)
    <3>1. cells' = cells
        BY <2>4 DEF LockForLoad, Load
    <3>. QED  BY <1>3, <1>7, <2>4, <3>1, ReadProgress
  <2>. QED  BY <1>6, <2>1, <2>2, <2>3, <2>4 DEF Step
<1>9. \A x \in Session : x # s => ~Handling(x) /\ job'[x] = job[x]
    BY <1>3, OthersIdle DEF Handling, Encoding
<1>. QED  BY <1>3, <1>4, <1>5, <1>8, <1>9, OneHandler

LEMMA NobodyHandles ==
    ASSUME NEW s \in Session, ThreadFree(s)
    PROVE  ~Busy /\ \A x \in Session : ~Handling(x)
<1>1. \A x \in Session : ~Handling(x)
    BY SerialAssumption DEF ThreadFree
<1>. QED  BY <1>1 DEF Busy, Encoding, Handling

(* The table calls a request is admitted with: nothing is stored yet, and  *)
(* nothing read.                                                           *)
LEMMA CallBegins ==
    ASSUME NEW j, NEW c, NEW q, NEW before, NEW now,
           c = [stage |-> "lock", req |-> q, got |-> << >>, pos |-> 0],
           Progress(j, NoCall, before, now)
    PROVE  Progress(j, c, before, now)
<1>1. StoredBy(j.pkt, j.step, c) = StoredBy(j.pkt, j.step, NoCall)
    BY DEF StoredBy, NoCall
<1>2. ReadRight(c, now)
  <2>1. \A i \in 1 .. Len(c.got) : FALSE
      OBVIOUS
  <2>. QED  BY <2>1 DEF ReadRight
<1>. QED  BY <1>1, <1>2 DEF Progress

LEMMA AdmitProgress ==
    ASSUME ServerInv, SerialOK, Remember, NEW s \in Session, NEW p \in Packet,
           Admit(s, p)
    PROVE  SerialOK' /\ ~Busy /\ Busy' /\ pre' = cells /\ cells' = cells
<1>. PICK q : q = TableCall(p, 1, << >>)
    OBVIOUS
<1>. PICK j : j = [stage |-> "encode", pkt |-> p, step |-> 1, got |-> << >>]
    OBVIOUS
<1>1. SessionsOK /\ TablesOK /\ s \in Actor
    BY ServerAssumption DEF ServerInv
<1>2. ~Busy /\ \A x \in Session : ~Handling(x)
    BY NobodyHandles DEF Admit
<1>3. job' = [job EXCEPT ![s] = j] /\ Call(s, q) /\ cells' = cells
    BY DEF Admit, Call
<1>4. /\ job'[s] = j
      /\ \A x \in Session : x # s => ~Handling(x) /\ job'[x] = job[x]
    BY <1>1, <1>2, <1>3, OneJob
<1>5. Busy'
    BY <1>4 DEF Busy, Encoding
<1>6. pre' = cells
    BY <1>2, <1>5 DEF Remember
<1>7. call'[s] = [stage |-> "lock", req |-> q, got |-> << >>, pos |-> 0]
    BY <1>1, <1>3, CallEffect
<1>8. IsTable(cells)
    BY DEF SerialOK
<1>9. Progress(j, NoCall, cells, cells)
  <2>1. StoredBy(p, 1, NoCall) = {}
      BY DEF StoredBy, NoCall
  <2>2. Partly(cells, p, {}) = cells
      BY <1>8, NothingDone
  <2>3. ReadRight(NoCall, cells) /\ KeptRight(j, cells)
      BY DEF ReadRight, NoCall, KeptRight
  <2>. QED  BY <1>8, <2>1, <2>2, <2>3 DEF Progress
<1>10. Progress(j, call'[s], pre', cells')
    BY <1>3, <1>6, <1>7, <1>9, CallBegins
<1>11. IsTable(cells')
    BY <1>3, <1>8
<1>. QED  BY <1>2, <1>3, <1>4, <1>5, <1>6, <1>10, <1>11, OneHandler

LEMMA ProceedProgress ==
    ASSUME ServerInv, SerialOK, Remember, NEW s \in Session, Proceed(s)
    PROVE  SerialOK' /\ Encoding(s)' /\ pre' = pre
<1>. PICK q : q = TableCall(job[s].pkt, job[s].step, job[s].got)
    OBVIOUS
<1>1. TablesOK /\ s \in Actor
    BY ServerAssumption DEF ServerInv
<1>2. /\ Encoding(s) /\ In(s, "idle") /\ Call(s, q)
      /\ job' = job /\ cells' = cells
    BY DEF Proceed, Call
<1>3. Encoding(s)' /\ pre' = pre
    BY <1>2, PreKept DEF Encoding
<1>4. call'[s] = [stage |-> "lock", req |-> q, got |-> << >>, pos |-> 0]
    BY <1>1, <1>2, CallEffect
<1>5. IsTable(cells) /\ Progress(job[s], call[s], pre, cells)
    BY <1>2, ProgressFacts DEF SerialOK
<1>6. call[s] = NoCall
  <2>1. CallOK(call[s])
      BY <1>1 DEF TablesOK, CallsOK
  <2>. QED  BY <1>2, <2>1 DEF CallOK, In, Stages
<1>7. Progress(job[s], call'[s], pre', cells')
    BY <1>2, <1>3, <1>4, <1>5, <1>6, CallBegins
<1>8. \A x \in Session : x # s => ~Handling(x) /\ job'[x] = job[x]
    BY <1>2, OthersIdle DEF Handling, Encoding
<1>. QED  BY <1>2, <1>3, <1>5, <1>7, <1>8, OneHandler

(* What a call that read one cell returns.                                 *)
LEMMA OneWord ==
    ASSUME NEW S, NEW seq \in Seq(S), Len(seq) = 1, NEW w, seq[1] = w
    PROVE  seq = << w >>
<1>1. seq \in [1 .. 1 -> S]
    BY LenProperties
<1>2. seq = [i \in 1 .. 1 |-> seq[i]]
    BY <1>1
<1>3. \A i \in 1 .. 1 : i = 1
    OBVIOUS
<1>4. << w >> = [i \in 1 .. 1 |-> w]
    OBVIOUS
<1>5. \A i \in 1 .. 1 : seq[i] = w
    BY <1>3
<1>. QED  BY <1>2, <1>4, <1>5

(* Between the two calls of a response.                                    *)
LEMMA ResumeProgress ==
    ASSUME ServerInv, SerialOK, Remember, NEW s \in Session, Resume(s)
    PROVE  SerialOK' /\ Encoding(s) /\ Encoding(s)' /\ pre' = pre
<1>. PICK p, k, q, b : p = job[s].pkt /\ k = job[s].step /\ q = call[s].req
                       /\ b = BlockOf(p.fn)
    OBVIOUS
<1>. PICK got : got = Read(s)
    OBVIOUS
<1>. PICK j : j = [stage |-> "encode", pkt |-> p, step |-> k + 1, got |-> got]
    OBVIOUS
<1>1. /\ Encoding(s) /\ In(s, "ok") /\ k < Calls(p) /\ Return(s)
      /\ SessionsOK /\ TablesOK /\ CallsOK /\ s \in Actor
    BY ServerAssumption DEF Resume, ServerInv, TablesOK
<1>2. /\ Admitted(p) /\ k \in 1 .. Calls(p) /\ ~In(s, "idle")
      /\ q = TableCall(p, k, job[s].got) /\ q.blk = b
    BY <1>1, HandlerFacts DEF In
<1>3. k = 1 /\ Calls(p) = 2
    BY <1>1, <1>2 DEF Calls
<1>4. /\ p.fn \in {write_single_coil, mask_write_register, read_write_multiple_registers}
      /\ p.fn # read_write_multiple_registers => q = AtCall(b, p.waddr) /\ ~Writes(q)
      /\ p.fn = read_write_multiple_registers => Writes(q)
    BY <1>2, <1>3, FirstAndLast
<1>5. /\ call'[s] = NoCall /\ cells' = cells /\ job' = [job EXCEPT ![s] = j]
    BY <1>1, ReturnEffect DEF Return, Resume
<1>6. /\ job'[s] = j
      /\ \A x \in Session : x # s => ~Handling(x) /\ job'[x] = job[x]
    BY <1>1, <1>5, OneJob, OthersIdle DEF Handling, Encoding
<1>7. Encoding(s)' /\ pre' = pre
    BY <1>1, <1>6, PreKept DEF Encoding
<1>8. IsTable(cells) /\ Progress(job[s], call[s], pre, cells)
    BY <1>1, ProgressFacts DEF SerialOK
<1>9. StoredBy(p, 2, NoCall) = StoredBy(p, 1, call[s])
    BY <1>1, <1>4 DEF StoredBy, NoCall, In
<1>10. ReadRight(NoCall, cells)
    BY DEF ReadRight, NoCall
<1>11. KeptRight(j, pre)
  <2>. SUFFICES ASSUME p.fn \in {write_single_coil, mask_write_register}
                PROVE  got = << pre[b][Index(b, p.waddr)] >>
      BY DEF KeptRight
  <2>1. p.fn # read_write_multiple_registers
      BY DEF write_single_coil, mask_write_register, read_write_multiple_registers
  <2>2. q.addr = p.waddr /\ q.cnt = 1 /\ ~Writes(q)
      BY <1>4, <2>1 DEF AtCall
  <2>3. got = call[s].got
      BY <2>2 DEF Read
  <2>4. call[s].got \in Seq(Value[b]) /\ Len(call[s].got) = 1
      BY <1>1, <1>2, <2>2, CallFacts DEF Checked, In
  <2>5. call[s].got[1] = cells[b][Index(b, p.waddr) + 1 - 1]
    <3>1. \A i \in 1 .. Len(call[s].got) :
             call[s].got[i] = cells[b][Index(b, p.waddr) + i - 1]
        BY <1>1, <1>2, <1>8, <2>2 DEF Progress, ReadRight, In
    <3>2. 1 \in 1 .. Len(call[s].got)
        BY <2>4
    <3>. QED  BY <3>1, <3>2
  <2>6. Index(b, p.waddr) + 1 - 1 = Index(b, p.waddr)
    <3>1. p.waddr \in Nat /\ Start[b] \in Nat
        BY <1>1, HandlerFacts
    <3>. QED  BY <3>1 DEF Index
  <2>7. cells = pre
    <3>1. StoredBy(p, k, call[s]) = {}
        BY <1>1, <1>3, <2>2 DEF StoredBy, In
    <3>. QED  BY <1>8, <3>1, NothingDone DEF Progress
  <2>. QED  BY <2>3, <2>4, <2>5, <2>6, <2>7, OneWord
<1>12. Progress(j, NoCall, pre, cells)
  <2>1. j.pkt = p /\ j.step = 2
      BY <1>3
  <2>2. IsTable(pre) /\ cells = Partly(pre, p, StoredBy(p, 1, call[s]))
      BY <1>3, <1>8 DEF Progress
  <2>. QED  BY <1>9, <1>10, <1>11, <2>1, <2>2 DEF Progress
<1>. QED  BY <1>1, <1>5, <1>6, <1>7, <1>8, <1>12, OneHandler

(* The steps after which nobody encodes.                                   *)
LEMMA OutOfTable ==
    ASSUME ServerInv, SerialOK, Remember, NEW s \in Session,
           \/ Finish(s) \/ Send(s)
           \/ \E p \in Packet : Refuse(s, p) \/ Drop(s, p)
    PROVE  /\ SerialOK' /\ ~Busy' /\ cells' = cells
           /\ ~Finish(s) => ~Busy
           /\ \A x \in Session : x # s => ~Handling(x) /\ job'[x] = job[x]
<1>1. SessionsOK
    BY DEF ServerInv
<1>2. \A x \in Session : x # s => ~Handling(x)
  <2>1. CASE Finish(s) \/ Send(s)
      BY <2>1, OthersIdle DEF Finish, Send, Encoding, Handling
  <2>2. CASE \E p \in Packet : Refuse(s, p) \/ Drop(s, p)
      BY <2>2, NobodyHandles DEF Refuse, Drop
  <2>. QED  BY <2>1, <2>2
<1>3. cells' = cells
    BY DEF Finish, Return, Send, Refuse, Drop, vars, svars
<1>4. PICK j : /\ j.stage # "encode"
               /\ \/ job' = [job EXCEPT ![s] = j]
                  \/ job' = job /\ job[s] = j
  <2>1. CASE Finish(s)
    <3>1. PICK p, r : Answered(s, p, r)
        BY <2>1 DEF Finish
    <3>. QED  BY <3>1 DEF Answered
  <2>2. CASE Send(s)
      BY <2>2 DEF Send, NoJob
  <2>3. CASE \E p \in Packet : Refuse(s, p)
      BY <2>3 DEF Refuse, Answered
  <2>4. CASE \E p \in Packet : Drop(s, p)
    <3>1. job' = job /\ ~Handling(s)
        BY <2>4 DEF Drop, svars, ThreadFree
    <3>. QED  BY <3>1 DEF Handling
  <2>. QED  BY <2>1, <2>2, <2>3, <2>4
<1>5. /\ job'[s] = j
      /\ \A x \in Session : x # s => ~Handling(x) /\ job'[x] = job[x]
    BY <1>1, <1>2, <1>4, OneJob
<1>6. ~Busy'
    BY <1>4, <1>5 DEF Busy, Encoding, Handling
<1>7. ~Finish(s) => ~Busy
  <2>1. CASE Send(s)
      BY <1>2, <2>1 DEF Send, Busy, Encoding, Handling
  <2>2. CASE \E p \in Packet : Refuse(s, p) \/ Drop(s, p)
      BY <2>2, NobodyHandles DEF Refuse, Drop
  <2>. QED  BY <2>1, <2>2
<1>8. IsTable(cells')
    BY <1>3 DEF SerialOK
<1>9. SerialOK'
    BY <1>4, <1>5, <1>8, OneHandler
<1>. QED  BY <1>3, <1>5, <1>6, <1>7, <1>9

LEMMA SerialStep ==
    ASSUME SerialInv, [SNext /\ Remember]_serialvars
    PROVE  SerialInv'
<1>1. ServerInv /\ SerialOK
    BY DEF SerialInv
<1>2. CASE UNCHANGED serialvars
  <2>1. UNCHANGED svars
      BY <1>2 DEF serialvars, svars
  <2>2. ServerInv'
      BY <1>1, <2>1, ServerInvStep
  <2>3. SerialOK'
      BY <1>1, <1>2 DEF serialvars, SerialOK, IsTable, Handling, Encoding
  <2>. QED  BY <2>2, <2>3 DEF SerialInv
<1>3. CASE SNext /\ Remember
  <2>1. ServerInv'
      BY <1>1, <1>3, ServerInvStep
  <2>2. PICK s \in Session : Receive(s) \/ SessionStep(s)
      BY <1>3, SerialAssumption DEF SNext
  <2>3. CASE \E p \in Packet : Admit(s, p)
      BY <1>1, <1>3, <2>1, <2>3, AdmitProgress DEF SerialInv
  <2>4. CASE Step(s) /\ UNCHANGED << job, reply >>
      BY <1>1, <1>3, <2>1, <2>4, StepProgress DEF SerialInv
  <2>5. CASE Resume(s)
      BY <1>1, <1>3, <2>1, <2>5, ResumeProgress DEF SerialInv
  <2>6. CASE Proceed(s)
      BY <1>1, <1>3, <2>1, <2>6, ProceedProgress DEF SerialInv
  <2>7. CASE \/ Finish(s) \/ Send(s)
             \/ \E p \in Packet : Refuse(s, p) \/ Drop(s, p)
      BY <1>1, <1>3, <2>1, <2>7, OutOfTable DEF SerialInv
  <2>. QED  BY <2>2, <2>3, <2>4, <2>5, <2>6, <2>7 DEF Receive, SessionStep
<1>. QED  BY <1>2, <1>3

LEMMA SerialStart == SerialInit => SerialInv
<1>. SUFFICES ASSUME SerialInit PROVE SerialInv
    OBVIOUS
<1>1. ServerInv
    BY ServerInvInit DEF SerialInit
<1>2. \A s \in Session : ~Handling(s) /\ ~Encoding(s)
    BY DEF SerialInit, SInit, Handling, Encoding, NoJob
<1>3. IsTable(cells)
  <2>1. cells = [b \in Block |-> Initial(b)]
      BY DEF SerialInit, SInit, Init
  <2>2. \A b \in Block : Initial(b) \in [Cell(b) -> Value[b]]
      BY DataBlockAssumption DEF Initial
  <2>. QED  BY <2>1, <2>2 DEF IsTable
<1>. QED  BY <1>1, <1>2, <1>3 DEF SerialInv, SerialOK

(* At any moment the table is the one the handler under way was admitted   *)
(* on, but for the cells it has stored, which hold what the request makes  *)
(* of them, and what it has read is what that table held.                  *)
THEOREM SerialTable == SerialSpec => []SerialOK
<1>1. SerialInv => SerialOK
    BY DEF SerialInv
<1>2. SerialInv /\ [SNext /\ Remember]_serialvars => SerialInv'
    BY SerialStep
<1>. QED  BY SerialStart, <1>1, <1>2, PTL DEF SerialSpec

-----------------------------------------------------------------------------
(* What a handler leaves when its last call has returned.                  *)
LEMMA FinishEffect ==
    ASSUME ServerInv, SerialOK, NEW s \in Session, Finish(s),
           NEW p, p = job[s].pkt
    PROVE  /\ In(s, "ok") /\ Encoding(s) /\ Admitted(p)
           /\ cells = Effect(pre, p)
           /\ Success(p, Read(s)) = Reply(pre, p)
<1>. PICK k, q, b : k = job[s].step /\ q = call[s].req /\ b = BlockOf(p.fn)
    OBVIOUS
<1>. PICK got : got = Read(s)
    OBVIOUS
<1>1. /\ Encoding(s) /\ call[s].stage \in {"ok", "throw"} /\ ~In(s, "idle")
      /\ In(s, "ok") => k = Calls(p)
      /\ s \in Actor /\ CallsOK
    BY ServerAssumption DEF Finish, Return, In, ServerInv, TablesOK
<1>2. /\ Admitted(p) /\ k \in 1 .. Calls(p)
      /\ q = TableCall(p, k, job[s].got) /\ q.blk = b /\ Valid(q)
      /\ p.addr \in Nat /\ p.cnt \in Nat /\ b \in Block
    BY <1>1, HandlerFacts
<1>3. In(s, "ok") /\ k = Calls(p)
    BY <1>1, <1>2, CallFacts DEF Checked, In
<1>4. Progress(job[s], call[s], pre, cells)
    BY <1>1, ProgressFacts
<1>5. /\ p.fn \in WriteFunction =>
           Writes(q) \/ (p.fn = read_write_multiple_registers /\ k = 2)
      /\ Writes(q) => p.fn \in WriteFunction
    BY <1>2, <1>3, FirstAndLast, StoringCalls
<1>6. StoredBy(p, k, call[s]) = WriteSpan(p)
  <2>1. p.fn = read_write_multiple_registers => p.fn \in WriteFunction
      BY DEF WriteFunction
  <2>. QED  BY <1>3, <1>5, <2>1 DEF StoredBy, WriteSpan, In
<1>7. cells = Effect(pre, p)
    BY <1>4, <1>6, AllDone DEF Progress
<1>8. CASE p.fn \in ReadFunction
  <2>1. q = SliceCall(b, p.addr, p.cnt)
      BY <1>2, <1>3, <1>8, CallFits
  <2>2. q.addr = p.addr /\ q.cnt = p.cnt /\ ~Writes(q)
      BY <2>1 DEF SliceCall, Writes
  <2>3. got = call[s].got /\ got \in Seq(Value[b]) /\ Len(got) = p.cnt
      BY <1>1, <1>2, <1>3, <2>2, CallFacts DEF Checked, In, Read
  <2>4. \A i \in 1 .. p.cnt : got[i] = cells[b][Index(b, p.addr) + i - 1]
      BY <1>1, <1>2, <1>4, <2>2, <2>3 DEF Progress, ReadRight, In
  <2>5. got = [i \in 1 .. p.cnt |-> Effect(pre, p)[b][Index(b, p.addr) + i - 1]]
    <3>1. got \in [1 .. p.cnt -> Value[b]]
        BY <2>3, LenProperties
    <3>2. got = [i \in 1 .. p.cnt |-> got[i]]
        BY <3>1
    <3>. QED  BY <1>7, <2>4, <3>2
  <2>6. p.fn # write_single_coil
      BY <1>8 DEF ReadFunction, read_coils, read_discrete_inputs,
         read_holding_registers, read_input_registers,
         read_write_multiple_registers, write_single_coil
  <2>7. Success(p, got) = Reply(pre, p)
      BY <1>8, <2>5, <2>6 DEF Reply
  <2>. QED  BY <1>1, <1>2, <1>3, <1>7, <2>7
<1>9. CASE p.fn = write_single_coil
  <2>1. k = 2 /\ p.fn \in WriteFunction /\ p.fn # read_write_multiple_registers
      BY <1>3, <1>9 DEF Calls, WriteFunction, write_single_coil,
         read_write_multiple_registers
  <2>2. got = job[s].got
      BY <1>5, <2>1 DEF Read
  <2>3. got = << pre[b][Index(b, p.waddr)] >>
      BY <1>4, <1>9, <2>1, <2>2 DEF Progress, KeptRight
  <2>4. Success(p, got) = Reply(pre, p)
      BY <1>9, <2>3 DEF Reply
  <2>. QED  BY <1>1, <1>2, <1>3, <1>7, <2>4
<1>10. CASE p.fn \notin ReadFunction \cup {write_single_coil}
  <2>1. \A g, h : Success(p, g) = Success(p, h)
      BY <1>10 DEF Success, Answer
  <2>2. Success(p, got) = Reply(pre, p)
      BY <2>1 DEF Reply
  <2>. QED  BY <1>1, <1>2, <1>3, <1>7, <2>2
<1>. QED  BY <1>8, <1>9, <1>10

(* The operators of RequestEffect mean the same in both modules.           *)
LEMMA SameServerOperators ==
    /\ AS!InitialTable = InitialTable
    /\ \A p : AS!Verdict(p) = Verdict(p)
    /\ \A t, p : AS!Effect(t, p) = Effect(t, p)
    /\ \A t, p : AS!Reply(t, p) = Reply(t, p)
    /\ \A p, code : AS!Exception(p, code) = Exception(p, code)
    /\ \A p, r : AS!Told(p, r) = r
<1>1. AS!InitialTable = InitialTable
    BY DEF AS!InitialTable, AS!Initial, AS!Cell, InitialTable, Initial, Cell
<1>2. \A p : AS!Decodes(p) <=> Decodes(p)
    BY DEF AS!Decodes, AS!off, AS!on, AS!write_single_coil,
       AS!write_multiple_registers, AS!read_write_multiple_registers,
       Decodes, off, on, write_single_coil,
       write_multiple_registers, read_write_multiple_registers
<1>3. \A fn : AS!BlockOf(fn) = BlockOf(fn)
    BY DEF AS!BlockOf, AS!read_coils, AS!write_single_coil,
       AS!write_multiple_coils, AS!read_discrete_inputs, AS!read_input_registers,
       BlockOf, read_coils, write_single_coil, write_multiple_coils,
       read_discrete_inputs, read_input_registers
<1>4. /\ AS!ReadFunction = ReadFunction /\ AS!WriteFunction = WriteFunction
      /\ AS!Supported = Supported
    BY DEF AS!ReadFunction, AS!WriteFunction, AS!Supported,
       AS!read_coils, AS!read_discrete_inputs, AS!read_holding_registers,
       AS!read_input_registers, AS!read_write_multiple_registers,
       AS!write_single_coil, AS!write_single_register, AS!write_multiple_coils,
       AS!write_multiple_registers, AS!mask_write_register,
       ReadFunction, WriteFunction, Supported,
       read_coils, read_discrete_inputs, read_holding_registers,
       read_input_registers, read_write_multiple_registers,
       write_single_coil, write_single_register, write_multiple_coils,
       write_multiple_registers, mask_write_register
<1>5. \A p : AS!Executes(p) <=> Executes(p)
    BY <1>3, <1>4 DEF AS!Executes, AS!ReadInRange, AS!WriteInRange,
       AS!ValidateRange, AS!ValidateSz, AS!ValidateCount,
       Executes, ReadInRange, WriteInRange, ValidateRange, ValidateSz, ValidateCount
<1>6. \A p : AS!Verdict(p) = Verdict(p)
    BY <1>2, <1>4, <1>5 DEF AS!Verdict, Verdict, AS!illegal_function,
       AS!illegal_data_address, AS!server_device_failure, illegal_function,
       illegal_data_address, server_device_failure
<1>7. \A p : AS!WriteSpan(p) = WriteSpan(p)
    BY <1>3, <1>4 DEF AS!WriteSpan, AS!Span, AS!Index, WriteSpan, Span, Index
<1>8. \A p, c, w : AS!NewWord(p, c, w) = NewWord(p, c, w)
    BY <1>3 DEF AS!NewWord, AS!Masked, AS!Index, AS!off, AS!mask_write_register,
       NewWord, Masked, Index, off, mask_write_register
<1>9. \A t, p : AS!Effect(t, p) = Effect(t, p)
    BY <1>3, <1>7, <1>8 DEF AS!Effect, AS!Cell, Effect, Cell
<1>10. \A p, g : AS!Success(p, g) = Success(p, g)
    BY <1>4 DEF AS!Success, AS!Answer, Success, Answer, AS!write_single_coil,
       AS!write_single_register, AS!mask_write_register, write_single_coil,
       write_single_register, mask_write_register
<1>11. \A t, p : AS!Reply(t, p) = Reply(t, p)
    BY <1>3, <1>4, <1>9, <1>10 DEF AS!Reply, AS!Index, Reply, Index,
       AS!write_single_coil, write_single_coil
<1>12. \A p, code : AS!Exception(p, code) = Exception(p, code)
    BY DEF AS!Exception, AS!ErrorFunction, AS!DecodedFunction, AS!CheckFunction,
       Exception, ErrorFunction, DecodedFunction, CheckFunction
<1>13. \A p, r : AS!Told(p, r) = r
  <2>1. ReadFunction \cup {write_single_coil} \subseteq Supported
      BY DEF Supported, WriteFunction
  <2>. QED  BY <1>4, <2>1 DEF AS!Told, AS!write_single_coil, write_single_coil
<1>. QED  BY <1>1, <1>6, <1>9, <1>11, <1>12, <1>13

-----------------------------------------------------------------------------
(* What the atomic server sees of one session, and how a step changes it.  *)
Seen(j, r) ==
    CASE j.stage = "idle" -> [stage |-> "idle"]
      [] j.stage = "encode" -> [stage |-> "asked", pkt |-> j.pkt]
      [] j.stage = "answered" -> [stage |-> "answered", pkt |-> j.pkt, reply |-> r]

LEMMA AbsClientSeen ==
    /\ AbsClient = [s \in Session |-> Seen(job[s], reply[s])]
    /\ AbsClient' = [s \in Session |-> Seen(job'[s], reply'[s])]
    BY DEF AbsClient, Seen

LEMMA SeenStages ==
    ASSUME NEW j, NEW r
    PROVE  /\ j.stage = "idle" => Seen(j, r) = [stage |-> "idle"]
           /\ j.stage = "encode" => Seen(j, r) = [stage |-> "asked", pkt |-> j.pkt]
           /\ j.stage = "answered" =>
                Seen(j, r) = [stage |-> "answered", pkt |-> j.pkt, reply |-> r]
    BY DEF Seen

LEMMA AbsClientStep ==
    ASSUME NEW s \in Session, NEW c, Seen(job'[s], reply'[s]) = c,
           \A x \in Session : x # s => job'[x] = job[x] /\ reply'[x] = reply[x]
    PROVE  /\ AbsClient[s] = Seen(job[s], reply[s])
           /\ AbsClient' = [AbsClient EXCEPT ![s] = c]
<1>1. AbsClient' = [x \in Session |-> IF x = s THEN c ELSE Seen(job[x], reply[x])]
    BY AbsClientSeen
<1>. QED  BY <1>1, AbsClientSeen

(* A session that changes nothing the atomic server sees.                  *)
LEMMA AbsClientKept ==
    ASSUME NEW s \in Session, Seen(job'[s], reply'[s]) = Seen(job[s], reply[s]),
           \A x \in Session : x # s => job'[x] = job[x] /\ reply'[x] = reply[x]
    PROVE  AbsClient' = AbsClient
<1>1. \A x \in Session : Seen(job'[x], reply'[x]) = Seen(job[x], reply[x])
    OBVIOUS
<1>. QED  BY <1>1, AbsClientSeen

(* Steps inside a request are not seen.                                    *)
LEMMA InsideStutters ==
    ASSUME SerialInv, Remember, NEW s \in Session,
           (Step(s) /\ UNCHANGED << job, reply >>) \/ Resume(s) \/ Proceed(s)
    PROVE  UNCHANGED << AbsTable, AbsClient >>
<1>1. ServerInv /\ SerialOK /\ SessionsOK
    BY DEF SerialInv, ServerInv
<1>2. Encoding(s) /\ Encoding(s)' /\ pre' = pre
    BY <1>1, StepProgress, ResumeProgress, ProceedProgress DEF Proceed
<1>3. AbsTable' = AbsTable
  <2>1. Busy /\ Busy'
      BY <1>2 DEF Busy
  <2>. QED  BY <1>2, <2>1 DEF AbsTable
<1>4. /\ job'[s].pkt = job[s].pkt
      /\ \A x \in Session : x # s => job'[x] = job[x] /\ reply'[x] = reply[x]
  <2>1. CASE Resume(s)
    <3>. PICK j : j = [stage |-> "encode", pkt |-> job[s].pkt,
                       step |-> job[s].step + 1, got |-> Read(s)]
        OBVIOUS
    <3>1. job' = [job EXCEPT ![s] = j] /\ reply' = reply
        BY <2>1 DEF Resume
    <3>2. \A x \in Session : x # s => ~Handling(x)
        BY <1>1, <1>2, OthersIdle DEF Handling, Encoding
    <3>3. job'[s] = j /\ \A x \in Session : x # s => job'[x] = job[x]
        BY <1>1, <3>1, <3>2, OneJob
    <3>. QED  BY <3>1, <3>3
  <2>2. CASE job' = job /\ reply' = reply
      BY <2>2
  <2>. QED  BY <2>1, <2>2 DEF Proceed
<1>5. Seen(job'[s], reply'[s]) = Seen(job[s], reply[s])
    BY <1>2, <1>4, SeenStages DEF Encoding
<1>. QED  BY <1>3, <1>4, <1>5, AbsClientKept

LEMMA AdmitRequests ==
    ASSUME SerialInv, Remember, NEW s \in Session, NEW p \in Packet, Admit(s, p)
    PROVE  AS!ARequest(s, p)
<1>. PICK j : j = [stage |-> "encode", pkt |-> p, step |-> 1, got |-> << >>]
    OBVIOUS
<1>1. ServerInv /\ SerialOK /\ SessionsOK
    BY DEF SerialInv, ServerInv
<1>2. ~Busy /\ Busy' /\ pre' = cells
    BY <1>1, AdmitProgress
<1>3. AbsTable' = AbsTable
    BY <1>2 DEF AbsTable
<1>4. \A x \in Session : ~Handling(x)
    BY NobodyHandles DEF Admit
<1>5. job' = [job EXCEPT ![s] = j] /\ reply' = reply
    BY DEF Admit
<1>6. /\ job'[s] = j
      /\ \A x \in Session : x # s => job'[x] = job[x] /\ reply'[x] = reply[x]
    BY <1>1, <1>4, <1>5, OneJob
<1>7. Seen(job'[s], reply'[s]) = [stage |-> "asked", pkt |-> p]
    BY <1>6, SeenStages
<1>8. /\ AbsClient[s].stage = "idle"
      /\ AbsClient' = [AbsClient EXCEPT ![s] = [stage |-> "asked", pkt |-> p]]
    BY <1>4, <1>6, <1>7, AbsClientStep, SeenStages DEF Handling
<1>9. p.fn # -1 /\ AS!Verdict(p) = 0
    BY SameServerOperators DEF Admit
<1>. QED  BY <1>3, <1>8, <1>9 DEF AS!ARequest

LEMMA RefuseRefuses ==
    ASSUME SerialInv, Remember, NEW s \in Session, NEW p \in Packet, Refuse(s, p)
    PROVE  AS!ARefuse(s, p)
<1>. PICK r : r = Exception(p, Verdict(p))
    OBVIOUS
<1>. PICK j : j = [stage |-> "answered", pkt |-> p]
    OBVIOUS
<1>1. ServerInv /\ SerialOK /\ SessionsOK
    BY DEF SerialInv, ServerInv
<1>2. ~Busy /\ \A x \in Session : ~Handling(x)
    BY NobodyHandles DEF Refuse
<1>3. ~Busy' /\ cells' = cells
    BY <1>1, OutOfTable
<1>4. AbsTable' = AbsTable
    BY <1>2, <1>3 DEF AbsTable
<1>5. job' = [job EXCEPT ![s] = j] /\ reply' = [reply EXCEPT ![s] = r]
    BY DEF Refuse, Answered
<1>6. /\ job'[s] = j /\ reply'[s] = r
      /\ \A x \in Session : x # s => job'[x] = job[x] /\ reply'[x] = reply[x]
  <2>1. job'[s] = j /\ \A x \in Session : x # s => job'[x] = job[x]
      BY <1>1, <1>2, <1>5, OneJob
  <2>2. reply'[s] = r /\ \A x \in Session : x # s => reply'[x] = reply[x]
      BY <1>1, <1>5, RepliesOfOthers
  <2>. QED  BY <2>1, <2>2
<1>7. Seen(job'[s], reply'[s]) = [stage |-> "answered", pkt |-> p, reply |-> r]
    BY <1>6, SeenStages
<1>8. /\ AbsClient[s].stage = "idle"
      /\ AbsClient' = [AbsClient EXCEPT
                         ![s] = [stage |-> "answered", pkt |-> p, reply |-> r]]
    BY <1>2, <1>6, <1>7, AbsClientStep, SeenStages DEF Handling
<1>9. p.fn # -1 /\ AS!Verdict(p) # 0 /\ r = AS!Exception(p, AS!Verdict(p))
    BY SameServerOperators DEF Refuse
<1>. QED  BY <1>4, <1>8, <1>9 DEF AS!ARefuse

LEMMA FinishHandles ==
    ASSUME SerialInv, Remember, NEW s \in Session, Finish(s)
    PROVE  AS!AHandle(s)
<1>. PICK p, r : p = job[s].pkt /\ r = Success(p, Read(s))
    OBVIOUS
<1>. PICK j : j = [stage |-> "answered", pkt |-> p]
    OBVIOUS
<1>1. ServerInv /\ SerialOK /\ SessionsOK
    BY DEF SerialInv, ServerInv
<1>2. /\ In(s, "ok") /\ Encoding(s)
      /\ cells = Effect(pre, p) /\ r = Reply(pre, p)
    BY <1>1, FinishEffect
<1>3. /\ ~Busy' /\ cells' = cells
      /\ \A x \in Session : x # s => ~Handling(x)
    BY <1>1, OutOfTable
<1>4. AbsTable = pre /\ AbsTable' = cells
    BY <1>2, <1>3 DEF AbsTable, Busy
<1>5. AbsTable' = AS!Effect(AbsTable, p)
    BY <1>2, <1>4, SameServerOperators
<1>6. job' = [job EXCEPT ![s] = j] /\ reply' = [reply EXCEPT ![s] = r]
    BY <1>2 DEF Finish, Answered
<1>7. /\ job'[s] = j /\ reply'[s] = r
      /\ \A x \in Session : x # s => job'[x] = job[x] /\ reply'[x] = reply[x]
  <2>1. job'[s] = j /\ \A x \in Session : x # s => job'[x] = job[x]
      BY <1>1, <1>3, <1>6, OneJob
  <2>2. reply'[s] = r /\ \A x \in Session : x # s => reply'[x] = reply[x]
      BY <1>1, <1>6, RepliesOfOthers
  <2>. QED  BY <2>1, <2>2
<1>8. Seen(job'[s], reply'[s]) = [stage |-> "answered", pkt |-> p, reply |-> r]
    BY <1>7, SeenStages
<1>9. /\ AbsClient[s] = [stage |-> "asked", pkt |-> p]
      /\ AbsClient' = [AbsClient EXCEPT
                         ![s] = [stage |-> "answered", pkt |-> p, reply |-> r]]
    BY <1>2, <1>7, <1>8, AbsClientStep, SeenStages DEF Encoding
<1>10. r = AS!Told(p, AS!Reply(AbsTable, p))
    BY <1>2, <1>4, SameServerOperators
<1>. QED  BY <1>5, <1>9, <1>10 DEF AS!AHandle

LEMMA SendIsDone ==
    ASSUME SerialInv, Remember, NEW s \in Session, Send(s)
    PROVE  AS!ADone(s)
<1>1. ServerInv /\ SerialOK /\ SessionsOK
    BY DEF SerialInv, ServerInv
<1>2. job[s].stage = "answered"
    BY DEF Send
<1>3. ~Finish(s)
    BY <1>2 DEF Finish, Encoding
<1>4. /\ ~Busy /\ ~Busy' /\ cells' = cells
      /\ \A x \in Session : x # s => ~Handling(x)
    BY <1>1, <1>3, OutOfTable
<1>5. AbsTable' = AbsTable
    BY <1>4 DEF AbsTable
<1>6. job' = [job EXCEPT ![s] = NoJob] /\ reply' = [reply EXCEPT ![s] = NoReply]
    BY DEF Send
<1>7. /\ job'[s] = NoJob
      /\ \A x \in Session : x # s => job'[x] = job[x] /\ reply'[x] = reply[x]
  <2>1. job'[s] = NoJob /\ \A x \in Session : x # s => job'[x] = job[x]
      BY <1>1, <1>4, <1>6, OneJob
  <2>2. \A x \in Session : x # s => reply'[x] = reply[x]
      BY <1>1, <1>6, RepliesOfOthers
  <2>. QED  BY <2>1, <2>2
<1>8. Seen(job'[s], reply'[s]) = AS!NoRequest
    BY <1>7, SeenStages DEF NoJob, AS!NoRequest
<1>9. /\ AbsClient[s].stage = "answered"
      /\ AbsClient' = [AbsClient EXCEPT ![s] = AS!NoRequest]
    BY <1>2, <1>7, <1>8, AbsClientStep, SeenStages
<1>. QED  BY <1>5, <1>9 DEF AS!ADone

LEMMA DropStutters ==
    ASSUME SerialInv, Remember, NEW s \in Session, NEW p \in Packet, Drop(s, p)
    PROVE  UNCHANGED << AbsTable, AbsClient >>
<1>1. ~Busy
    BY NobodyHandles DEF Drop
<1>2. ~Busy' /\ cells' = cells
    BY OutOfTable DEF SerialInv
<1>3. job' = job /\ reply' = reply
    BY DEF Drop, svars
<1>. QED  BY <1>1, <1>2, <1>3 DEF AbsTable, AbsClient

(* A server on one io thread handles every request at one instant: the     *)
(* moment its handler is done with the table.                              *)
THEOREM SerialIsAtomic == SerialSpec => AtomicRequests
<1>1. SerialInit => AS!AInit
  <2>. SUFFICES ASSUME SerialInit PROVE AS!AInit
      OBVIOUS
  <2>1. \A s \in Session : job[s] = NoJob
      BY DEF SerialInit, SInit
  <2>2. AbsTable = AS!InitialTable
    <3>1. ~Busy
        BY <2>1 DEF Busy, Encoding, NoJob
    <3>2. cells = InitialTable
        BY DEF SerialInit, SInit, Init, InitialTable
    <3>. QED  BY <3>1, <3>2, SameServerOperators DEF AbsTable
  <2>3. AbsClient = [s \in Session |-> AS!NoRequest]
      BY <2>1 DEF AbsClient, NoJob, AS!NoRequest
  <2>. QED  BY <2>2, <2>3 DEF AS!AInit
<1>2. SerialInv /\ [SNext /\ Remember]_serialvars => [AS!ANext]_(AS!avars)
  <2>. SUFFICES ASSUME SerialInv, [SNext /\ Remember]_serialvars
                PROVE  [AS!ANext]_(AS!avars)
      OBVIOUS
  <2>1. CASE UNCHANGED serialvars
      BY <2>1 DEF serialvars, AS!avars, AbsTable, AbsClient, Busy, Encoding
  <2>2. CASE SNext /\ Remember
    <3>1. PICK s \in Session : Receive(s) \/ SessionStep(s)
        BY <2>2, SerialAssumption DEF SNext
    <3>2. ASSUME NEW p \in Packet, Drop(s, p)  PROVE UNCHANGED AS!avars
        BY <2>2, <3>2, DropStutters DEF AS!avars
    <3>3. ASSUME NEW p \in Packet, Refuse(s, p)  PROVE AS!ANext
        BY <2>2, <3>3, RefuseRefuses DEF AS!ANext
    <3>4. ASSUME NEW p \in Packet, Admit(s, p)  PROVE AS!ANext
        BY <2>2, <3>4, AdmitRequests DEF AS!ANext
    <3>5. CASE (Step(s) /\ UNCHANGED << job, reply >>) \/ Resume(s) \/ Proceed(s)
        BY <2>2, <3>5, InsideStutters DEF AS!avars
    <3>6. CASE Finish(s)
        BY <2>2, <3>6, FinishHandles DEF AS!ANext
    <3>7. CASE Send(s)
        BY <2>2, <3>7, SendIsDone DEF AS!ANext
    <3>. QED  BY <3>1, <3>2, <3>3, <3>4, <3>5, <3>6, <3>7 DEF Receive, SessionStep
  <2>. QED  BY <2>1, <2>2
<1>3. SerialInv /\ [SNext /\ Remember]_serialvars => SerialInv'
    BY SerialStep
<1>. QED  BY <1>1, <1>2, <1>3, SerialStart, PTL DEF SerialSpec, AtomicRequests, AS!ASpec
=============================================================================
