--------------------------- MODULE ConcurrentProofs ---------------------------
(***************************************************************************)
(* Requests that write without looking are atomic on any number of io      *)
(* threads and beside any application: ConcurrentServer implements         *)
(* AtomicServer, for any sessions, table and packets.  A write takes       *)
(* effect when its one storing call takes the mutex, a read when its       *)
(* handler ends.                                                           *)
(***************************************************************************)
EXTENDS ConcurrentServer, ServerProofs

-----------------------------------------------------------------------------
(* The table, cell by cell.                                                *)
CellSeen(b, c) ==
    IF Pending(b, c)
    THEN LET r == call[mutex[b]].req IN r.buf[c - Index(b, r.addr) + 1]
    ELSE cells[b][c]

LEMMA TableSeen ==
    /\ AbsTable = [b \in Block |-> [c \in Cell(b) |-> CellSeen(b, c)]]
    /\ AbsTable' = [b \in Block |-> [c \in Cell(b) |-> CellSeen(b, c)']]
    BY DEF AbsTable, CellSeen

LEMMA TableKept ==
    ASSUME \A b \in Block : \A c \in Cell(b) : CellSeen(b, c)' = CellSeen(b, c)
    PROVE  AbsTable' = AbsTable
<1>1. \A b \in Block : [c \in Cell(b) |-> CellSeen(b, c)'] = [c \in Cell(b) |-> CellSeen(b, c)]
    OBVIOUS
<1>. QED  BY <1>1, TableSeen

(* A block whose owner does not step looks the same, if nobody stores.     *)
LEMMA BlockKept ==
    ASSUME NEW b \in Block, NEW c \in Cell(b), cells'[b][c] = cells[b][c],
           mutex'[b] = mutex[b],
           mutex[b] # NoActor => call'[mutex[b]] = call[mutex[b]]
    PROVE  CellSeen(b, c)' = CellSeen(b, c)
    BY DEF CellSeen, Pending

(* An actor that is not the owner of a block leaves the owner's call.      *)
LEMMA OwnerKept ==
    ASSUME TablesOK, NEW a \in Actor,
           (\E r \in Access : Call(a, r)) \/ Step(a) \/ Return(a),
           NEW b \in Block, mutex[b] # a, mutex[b] # NoActor
    PROVE  call'[mutex[b]] = call[mutex[b]]
<1>1. mutex[b] \in Actor
    BY DEF TablesOK, MutexOK
<1>. QED  BY <1>1, TableStep

(* What neither stores nor takes or gives a mutex is not seen.             *)
LEMMA QuietStep ==
    ASSUME TablesOK, NEW a \in Actor,
           \/ \E r \in Access : Call(a, r)
           \/ LockForLoad(a) \/ Load(a) \/ Throw(a) \/ Return(a)
    PROVE  AbsTable' = AbsTable
<1>1. (\E r \in Access : Call(a, r)) \/ Step(a) \/ Return(a)
    BY DEF Step
<1>2. cells' = cells /\ mutex' = mutex /\ ~In(a, "store")
    BY DEF Call, LockForLoad, Load, Throw, Return, In
<1>3. \A b \in Block : mutex[b] # a
    BY <1>2 DEF TablesOK, MutexOwnership
<1>. QED  BY <1>1, <1>2, <1>3, OwnerKept, BlockKept, TableKept

(* A store of one cell: it counted as stored already.                      *)
LEMMA StoreUnseen ==
    ASSUME TablesOK, NEW a \in Actor, Store(a)
    PROVE  AbsTable' = AbsTable
<1>. PICK r, n, d, i : /\ r = call[a].req /\ n = call[a].pos /\ d = r.blk
                       /\ i = Index(d, r.addr) + n
    OBVIOUS
<1>1. CallsOK /\ CellsOK /\ MutexOwnership /\ Step(a)
    BY DEF TablesOK, Step
<1>2. /\ In(a, "store") /\ r \in Access /\ d \in Block /\ Writes(r) /\ Valid(r)
      /\ n \in Nat /\ n < r.cnt /\ r.cnt \in Nat
      /\ call'[a].req = r /\ call'[a].pos = n + 1
    BY <1>1, StoreFacts
<1>3. i \in Cell(d) /\ Start[d] \in Nat /\ r.addr \in Nat
    BY <1>2, StoreTyped, DataBlockAssumption, AccessFacts
<1>4. /\ cells' = [cells EXCEPT ![d] = [cells[d] EXCEPT ![i] = r.buf[n + 1]]]
      /\ mutex' = mutex
    BY <1>1, <1>2 DEF Store
<1>5. mutex[d] = a
    BY <1>1, <1>2 DEF MutexOwnership
<1>6. ASSUME NEW b \in Block, NEW c \in Cell(b), b # d
      PROVE  CellSeen(b, c)' = CellSeen(b, c)
  <2>1. mutex[b] # a
      BY <1>1, <1>6 DEF MutexOwnership
  <2>2. cells'[b] = cells[b]
      BY <1>1, <1>4, <1>6 DEF CellsOK
  <2>. QED  BY <1>1, <1>4, <2>1, <2>2, OwnerKept, BlockKept
<1>7. ASSUME NEW c \in Cell(d)
      PROVE  CellSeen(d, c)' = CellSeen(d, c)
  <2>1. cells'[d][c] = IF c = i THEN r.buf[n + 1] ELSE cells[d][c]
    <3>1. cells'[d] = [cells[d] EXCEPT ![i] = r.buf[n + 1]]
        BY <1>1, <1>2, <1>4 DEF CellsOK
    <3>2. cells[d] \in [Cell(d) -> Value[d]]
        BY <1>1, <1>2 DEF CellsOK
    <3>. QED  BY <1>3, <3>1, <3>2
  <2>2. mutex'[d] = a /\ a # NoActor
      BY <1>4, <1>5, DataTableAssumption
  <2>3. Pending(d, c) <=> c \in Span(d, r.addr, r.cnt) /\ c >= i
      BY <1>5, <2>2 DEF Pending
  <2>4. Pending(d, c)' <=> c \in Span(d, r.addr, r.cnt) /\ c >= i + 1
    <3>1. Pending(d, c)' <=> /\ c \in Span(d, r.addr, r.cnt)
                             /\ c >= Index(d, r.addr) + (n + 1)
        BY <1>2, <2>2 DEF Pending
    <3>2. Index(d, r.addr) + (n + 1) = i + 1
        BY <1>2, <1>3 DEF Index
    <3>. QED  BY <3>1, <3>2
  <2>5. c \in Int /\ i \in Int
      BY <1>2, <1>3 DEF Cell
  <2>6. CASE c = i
    <3>1. ~Pending(d, c)'
        BY <2>4, <2>5, <2>6
    <3>2. CellSeen(d, c)' = r.buf[n + 1]
        BY <2>1, <2>6, <3>1 DEF CellSeen
    <3>3. c \in Span(d, r.addr, r.cnt) /\ c >= i
        BY <1>2, <1>3, <2>5, <2>6 DEF Span, Index
    <3>4. c - Index(d, r.addr) + 1 = n + 1
        BY <1>2, <1>3, <2>6 DEF Index
    <3>5. CellSeen(d, c) = r.buf[n + 1]
        BY <1>5, <2>3, <3>3, <3>4 DEF CellSeen
    <3>. QED  BY <3>2, <3>5
  <2>7. CASE c # i
    <3>1. Pending(d, c)' <=> Pending(d, c)
        BY <2>3, <2>4, <2>5, <2>7
    <3>. QED  BY <1>2, <1>5, <2>1, <2>2, <2>7, <3>1 DEF CellSeen
  <2>. QED  BY <2>6, <2>7
<1>. QED  BY <1>6, <1>7, TableKept

(* The mutex is given back when nothing is left to store.                  *)
LEMMA UnlockUnseen ==
    ASSUME TablesOK, NEW a \in Actor, Unlock(a)
    PROVE  AbsTable' = AbsTable
<1>. PICK r, d : r = call[a].req /\ d = r.blk
    OBVIOUS
<1>1. /\ CallsOK /\ MutexOK /\ MutexOwnership /\ Step(a)
      /\ In(a, "store") /\ ~In(a, "idle") /\ call[a].pos = r.cnt
      /\ cells' = cells /\ mutex' = [mutex EXCEPT ![d] = NoActor]
    BY DEF TablesOK, Step, Unlock, In
<1>2. r \in Access
    BY <1>1, CallFacts
<1>3. d \in Block /\ Start[d] \in Nat /\ r.addr \in Nat /\ r.cnt \in Nat
    BY <1>2, AccessFacts, DataBlockAssumption
<1>4. mutex[d] = a
    BY <1>1, <1>3 DEF MutexOwnership
<1>5. ASSUME NEW b \in Block, NEW c \in Cell(b), b # d
      PROVE  CellSeen(b, c)' = CellSeen(b, c)
  <2>1. mutex[b] # a
      BY <1>1, <1>5 DEF MutexOwnership
  <2>2. mutex'[b] = mutex[b]
      BY <1>1, <1>5 DEF MutexOK
  <2>. QED  BY <1>1, <2>1, <2>2, OwnerKept, BlockKept
<1>6. ASSUME NEW c \in Cell(d)
      PROVE  CellSeen(d, c)' = CellSeen(d, c)
  <2>1. mutex'[d] = NoActor
      BY <1>1, <1>3 DEF MutexOK
  <2>2. ~Pending(d, c)'
      BY <2>1 DEF Pending
  <2>3. ~Pending(d, c)
    <3>1. ~(c \in Span(d, r.addr, r.cnt) /\ c >= Index(d, r.addr) + r.cnt)
        BY <1>3 DEF Span, Index
    <3>. QED  BY <1>1, <1>4, <3>1 DEF Pending
  <2>. QED  BY <1>1, <2>2, <2>3 DEF CellSeen
<1>. QED  BY <1>5, <1>6, TableKept

(* The mutex is taken for a store: all of it counts as done.               *)
LEMMA LockSeen ==
    ASSUME TablesOK, NEW a \in Actor, LockForStore(a),
           NEW r, r = call[a].req
    PROVE  /\ AbsTable' = [AbsTable EXCEPT ![r.blk] = Written(AbsTable[r.blk], r)]
           /\ r \in Access /\ Writes(r) /\ Valid(r)
           /\ call'[a].stage = "store"
<1>. PICK d : d = r.blk
    OBVIOUS
<1>1. /\ CallsOK /\ MutexOK /\ MutexOwnership /\ Step(a)
      /\ In(a, "lock") /\ ~In(a, "idle") /\ mutex[d] = NoActor
      /\ Writes(r) /\ Valid(r)
      /\ cells' = cells /\ mutex' = [mutex EXCEPT ![d] = a]
    BY DEF TablesOK, Step, LockForStore, In, Free
<1>2. r \in Access /\ call[a].pos = 0
    BY <1>1, CallFacts DEF Checked, In
<1>3. /\ d \in Block /\ Start[d] \in Nat /\ r.addr \in Nat /\ r.cnt \in Nat
      /\ r.cnt = Len(r.buf)
    BY <1>1, <1>2, AccessFacts, DataBlockAssumption
<1>4. call'[a] = Staged(a, "store")
    BY <1>1, AtStage DEF LockForStore, CallsOK, Stages
<1>5. call'[a].stage = "store" /\ call'[a].req = r /\ call'[a].pos = 0
    BY <1>2, <1>4 DEF Staged
<1>6. ASSUME NEW b \in Block, NEW c \in Cell(b), b # d
      PROVE  CellSeen(b, c)' = CellSeen(b, c)
  <2>1. mutex[b] # a
      BY <1>1 DEF MutexOwnership, In
  <2>2. mutex'[b] = mutex[b]
      BY <1>1, <1>6 DEF MutexOK
  <2>. QED  BY <1>1, <2>1, <2>2, OwnerKept, BlockKept
<1>7. ASSUME NEW c \in Cell(d)
      PROVE  /\ CellSeen(d, c) = cells[d][c]
             /\ CellSeen(d, c)' = IF c \in Span(d, r.addr, Len(r.buf))
                                  THEN r.buf[c - Index(d, r.addr) + 1]
                                  ELSE cells[d][c]
  <2>1. mutex'[d] = a /\ a # NoActor
      BY <1>1, <1>3, DataTableAssumption DEF MutexOK
  <2>2. ~Pending(d, c)
      BY <1>1 DEF Pending
  <2>3. Pending(d, c)' <=> /\ c \in Span(d, r.addr, r.cnt)
                           /\ c >= Index(d, r.addr) + 0
      BY <1>5, <2>1 DEF Pending
  <2>4. c \in Span(d, r.addr, r.cnt) => c >= Index(d, r.addr) + 0
      BY <1>3 DEF Span, Index
  <2>. QED  BY <1>1, <1>3, <1>5, <2>1, <2>2, <2>3, <2>4 DEF CellSeen
<1>8. ASSUME NEW b \in Block, b # d
      PROVE  AbsTable'[b] = AbsTable[b]
  <2>1. [c \in Cell(b) |-> CellSeen(b, c)'] = [c \in Cell(b) |-> CellSeen(b, c)]
      BY <1>6, <1>8
  <2>. QED  BY <2>1, TableSeen
<1>9. AbsTable'[d] = Written(AbsTable[d], r)
  <2>1. \A c \in Cell(d) : AbsTable[d][c] = CellSeen(d, c)
      BY <1>3, TableSeen
  <2>2. AbsTable'[d] = [c \in Cell(d) |-> CellSeen(d, c)']
      BY <1>3, TableSeen
  <2>3. AbsTable'[d] = [c \in Cell(d) |->
                         IF c \in Span(d, r.addr, Len(r.buf))
                         THEN r.buf[c - Index(d, r.addr) + 1]
                         ELSE AbsTable[d][c]]
      BY <1>7, <2>1, <2>2
  <2>. QED  BY <2>3 DEF Written, Overwrite
<1>10. AbsTable' = [AbsTable EXCEPT ![d] = Written(AbsTable[d], r)]
  <2>1. AbsTable = [b \in Block |-> AbsTable[b]] /\ AbsTable' = [b \in Block |-> AbsTable'[b]]
      BY TableSeen
  <2>. QED  BY <1>3, <1>8, <1>9, <2>1
<1>. QED  BY <1>1, <1>2, <1>5, <1>10

(* A store through a reference is seen, unless the cell has a store of     *)
(* more before it.                                                         *)
LEMMA RefSeen ==
    ASSUME TablesOK, NEW a \in Actor, NEW r \in RefAccess, RefStore(a, r)
    PROVE  \/ AbsTable' = AbsTable
           \/ AbsTable' = [AbsTable EXCEPT ![r.blk] = Written(AbsTable[r.blk], r)]
<1>. PICK d, i : d = r.blk /\ i = Index(d, r.addr)
    OBVIOUS
<1>1. /\ WellFormed(r) /\ Len(r.buf) = 1
    BY ServerAssumption, ConcurrentAssumption
<1>2. d \in Block /\ Start[d] \in Nat /\ r.addr \in Nat /\ i \in Int
    BY <1>1, DataBlockAssumption DEF WellFormed, Index
<1>3. Span(d, r.addr, Len(r.buf)) = {i}
    BY <1>1, <1>2 DEF Span
<1>4. /\ cells' = [cells EXCEPT ![d] = Written(cells[d], r)]
      /\ mutex' = mutex /\ call' = call
    BY DEF RefStore
<1>5. ASSUME NEW b \in Block, NEW c \in Cell(b)
      PROVE  /\ Pending(b, c)' <=> Pending(b, c)
             /\ b # d => CellSeen(b, c)' = CellSeen(b, c)
  <2>1. b # d => cells'[b] = cells[b]
      BY <1>4 DEF TablesOK, CellsOK
  <2>. QED  BY <1>4, <2>1 DEF Pending, CellSeen
<1>6. ASSUME NEW c \in Cell(d)
      PROVE  cells'[d][c] = IF c = i THEN r.buf[c - Index(d, r.addr) + 1] ELSE cells[d][c]
  <2>1. cells'[d] = Written(cells[d], r)
      BY <1>2, <1>4 DEF TablesOK, CellsOK
  <2>. QED  BY <1>3, <2>1 DEF Written, Overwrite
<1>7. CASE Pending(d, i)
  <2>1. ASSUME NEW c \in Cell(d)  PROVE CellSeen(d, c)' = CellSeen(d, c)
      BY <1>2, <1>4, <1>5, <1>6, <1>7 DEF CellSeen
  <2>. QED  BY <1>5, <2>1, TableKept
<1>8. CASE ~Pending(d, i)
  <2>1. ASSUME NEW c \in Cell(d)
        PROVE  CellSeen(d, c)' = IF c \in Span(d, r.addr, Len(r.buf))
                                 THEN r.buf[c - Index(d, r.addr) + 1] ELSE CellSeen(d, c)
    <3>1. CASE c = i
        BY <1>2, <1>3, <1>5, <1>6, <1>8, <3>1 DEF CellSeen
    <3>2. CASE c # i
        BY <1>2, <1>3, <1>4, <1>5, <1>6, <3>2 DEF CellSeen
    <3>. QED  BY <3>1, <3>2
  <2>2. AbsTable'[d] = Written(AbsTable[d], r)
    <3>1. /\ \A c \in Cell(d) : AbsTable[d][c] = CellSeen(d, c)
          /\ AbsTable'[d] = [c \in Cell(d) |-> CellSeen(d, c)']
        BY <1>2, TableSeen
    <3>2. AbsTable'[d] = [c \in Cell(d) |->
                           IF c \in Span(d, r.addr, Len(r.buf))
                           THEN r.buf[c - Index(d, r.addr) + 1] ELSE AbsTable[d][c]]
        BY <2>1, <3>1
    <3>. QED  BY <3>2 DEF Written, Overwrite
  <2>3. ASSUME NEW b \in Block, b # d  PROVE AbsTable'[b] = AbsTable[b]
    <3>1. [c \in Cell(b) |-> CellSeen(b, c)'] = [c \in Cell(b) |-> CellSeen(b, c)]
        BY <1>5, <2>3
    <3>. QED  BY <3>1, TableSeen
  <2>4. AbsTable = [b \in Block |-> AbsTable[b]] /\ AbsTable' = [b \in Block |-> AbsTable'[b]]
      BY TableSeen
  <2>. QED  BY <1>2, <2>2, <2>3, <2>4
<1>. QED  BY <1>7, <1>8
-----------------------------------------------------------------------------
(* What the atomic server sees of one session, and how a step changes it.  *)
Done(j, c) ==
    /\ j.stage = "encode" /\ j.pkt.fn \in WriteFunction
    /\ \/ j.step > StoringCall(j.pkt)
       \/ j.step = StoringCall(j.pkt) /\ c.stage \in {"store", "ok"}
Seen(j, c, r) ==
    IF j.stage = "answered"
    THEN [stage |-> "answered", pkt |-> j.pkt, reply |-> Hidden(j.pkt, r)]
    ELSE IF Done(j, c)
    THEN [stage |-> "answered", pkt |-> j.pkt,
          reply |-> Hidden(j.pkt, Success(j.pkt, << >>))]
    ELSE IF j.stage = "encode" THEN [stage |-> "asked", pkt |-> j.pkt]
    ELSE [stage |-> "idle"]

LEMMA ClientSeen ==
    /\ AbsClient = [s \in Session |-> Seen(job[s], call[s], reply[s])]
    /\ AbsClient' = [s \in Session |-> Seen(job'[s], call'[s], reply'[s])]
    BY DEF AbsClient, Seen, Done, Committed, Encoding

LEMMA SeenStages ==
    ASSUME NEW j, NEW c, NEW r
    PROVE  /\ j.stage = "idle" => Seen(j, c, r) = [stage |-> "idle"]
           /\ j.stage = "encode" /\ ~Done(j, c) =>
                Seen(j, c, r) = [stage |-> "asked", pkt |-> j.pkt]
           /\ j.stage = "encode" /\ Done(j, c) =>
                Seen(j, c, r) = [stage |-> "answered", pkt |-> j.pkt,
                                 reply |-> Hidden(j.pkt, Success(j.pkt, << >>))]
           /\ j.stage = "answered" =>
                Seen(j, c, r) = [stage |-> "answered", pkt |-> j.pkt,
                                 reply |-> Hidden(j.pkt, r)]
    BY DEF Seen, Done

OthersKept(s) ==
    \A x \in Session :
        x # s => job'[x] = job[x] /\ reply'[x] = reply[x] /\ call'[x] = call[x]

LEMMA ClientStep ==
    ASSUME NEW s \in Session, OthersKept(s),
           NEW c, Seen(job'[s], call'[s], reply'[s]) = c
    PROVE  /\ AbsClient[s] = Seen(job[s], call[s], reply[s])
           /\ AbsClient' = [AbsClient EXCEPT ![s] = c]
<1>1. AbsClient' = [x \in Session |-> IF x = s THEN c
                                      ELSE Seen(job[x], call[x], reply[x])]
    BY ClientSeen DEF OthersKept
<1>. QED  BY <1>1, ClientSeen

LEMMA ClientKept ==
    ASSUME NEW s \in Session, OthersKept(s),
           Seen(job'[s], call'[s], reply'[s]) = Seen(job[s], call[s], reply[s])
    PROVE  AbsClient' = AbsClient
<1>1. \A x \in Session :
         Seen(job'[x], call'[x], reply'[x]) = Seen(job[x], call[x], reply[x])
    BY DEF OthersKept
<1>. QED  BY <1>1, ClientSeen

LEMMA SessionsApart ==
    ASSUME ServerInv, NEW s \in Session, SessionStep(s) \/ Receive(s)
    PROVE  OthersKept(s)
<1>1. TablesOK /\ SessionsOK /\ s \in Actor
    BY ServerAssumption DEF ServerInv
<1>2. \A x \in Session : x # s => call'[x] = call[x]
  <2>1. \/ UNCHANGED vars
        \/ (\E r \in Access : Call(s, r)) \/ Step(s) \/ Return(s)
      BY SessionStepKeeps
  <2>2. CASE UNCHANGED vars
      BY <2>2 DEF vars
  <2>. QED  BY <1>1, <2>1, <2>2, TableStep, ServerAssumption
<1>3. /\ job' = job \/ \E j : job' = [job EXCEPT ![s] = j]
      /\ reply' = reply \/ \E r : reply' = [reply EXCEPT ![s] = r]
  <2>1. ASSUME NEW p \in Packet, Drop(s, p) \/ Refuse(s, p) \/ Admit(s, p)
        PROVE  /\ job' = job \/ \E j : job' = [job EXCEPT ![s] = j]
               /\ reply' = reply \/ \E r : reply' = [reply EXCEPT ![s] = r]
      BY <2>1 DEF Drop, Refuse, Admit, Answered, svars
  <2>2. CASE Finish(s)
    <3>1. PICK p, r : Answered(s, p, r)
        BY <2>2 DEF Finish
    <3>. QED  BY <3>1 DEF Answered
  <2>3. CASE Step(s) /\ UNCHANGED << job, reply >>
      BY <2>3
  <2>4. CASE Resume(s) \/ Proceed(s) \/ Send(s)
      BY <2>4 DEF Resume, Proceed, Send
  <2>. QED  BY <2>1, <2>2, <2>3, <2>4 DEF SessionStep, Receive
<1>. QED  BY <1>1, <1>2, <1>3 DEF OthersKept, SessionsOK
-----------------------------------------------------------------------------
(* The operators of RequestEffect mean the same in both modules; what the  *)
(* client is told is what is not hidden.                                   *)
LEMMA SameServerOperators ==
    /\ AS!InitialTable = InitialTable
    /\ \A p : AS!Verdict(p) = Verdict(p)
    /\ \A t, p : AS!Effect(t, p) = Effect(t, p)
    /\ \A t, p : AS!Reply(t, p) = Reply(t, p)
    /\ \A p, code : AS!Exception(p, code) = Exception(p, code)
    /\ \A p, r : AS!Told(p, r) = Hidden(p, r)
    /\ \A r : (AS!Writes(r) <=> Writes(r)) /\ (AS!Valid(r) <=> Valid(r))
    /\ \A w, r : AS!Written(w, r) = Written(w, r)
<1>1. AS!InitialTable = InitialTable
    BY DEF AS!InitialTable, AS!Initial, AS!Cell, InitialTable, Initial, Cell
<1>2. \A p : AS!Decodes(p) <=> Decodes(p)
    BY DEF AS!Decodes, AS!off, AS!on, AS!write_single_coil,
       AS!write_multiple_registers, AS!read_write_multiple_registers,
       Decodes, off, on, write_single_coil,
       write_multiple_registers, read_write_multiple_registers
<1>3. \A fn : AS!BlockOf(fn) = BlockOf(fn)
    BY DEF AS!BlockOf, AS!read_coils, AS!write_single_coil,
       AS!write_multiple_coils, AS!read_discrete_inputs, AS!read_input_registers,
       BlockOf, read_coils, write_single_coil, write_multiple_coils,
       read_discrete_inputs, read_input_registers
<1>4. /\ AS!ReadFunction = ReadFunction /\ AS!WriteFunction = WriteFunction
      /\ AS!Supported = Supported
    BY DEF AS!ReadFunction, AS!WriteFunction, AS!Supported,
       AS!read_coils, AS!read_discrete_inputs, AS!read_holding_registers,
       AS!read_input_registers, AS!read_write_multiple_registers,
       AS!write_single_coil, AS!write_single_register, AS!write_multiple_coils,
       AS!write_multiple_registers, AS!mask_write_register,
       ReadFunction, WriteFunction, Supported,
       read_coils, read_discrete_inputs, read_holding_registers,
       read_input_registers, read_write_multiple_registers,
       write_single_coil, write_single_register, write_multiple_coils,
       write_multiple_registers, mask_write_register
<1>5. \A p : AS!Executes(p) <=> Executes(p)
    BY <1>3, <1>4 DEF AS!Executes, AS!ReadInRange, AS!WriteInRange,
       AS!ValidateRange, AS!ValidateSz, AS!ValidateCount,
       Executes, ReadInRange, WriteInRange, ValidateRange, ValidateSz, ValidateCount
<1>6. \A p : AS!Verdict(p) = Verdict(p)
    BY <1>2, <1>4, <1>5 DEF AS!Verdict, Verdict, AS!illegal_function,
       AS!illegal_data_address, AS!server_device_failure, illegal_function,
       illegal_data_address, server_device_failure
<1>7. \A p : AS!WriteSpan(p) = WriteSpan(p)
    BY <1>3, <1>4 DEF AS!WriteSpan, AS!Span, AS!Index, WriteSpan, Span, Index
<1>8. \A p, c, w : AS!NewWord(p, c, w) = NewWord(p, c, w)
    BY <1>3 DEF AS!NewWord, AS!Masked, AS!Index, AS!off, AS!mask_write_register,
       NewWord, Masked, Index, off, mask_write_register
<1>9. \A t, p : AS!Effect(t, p) = Effect(t, p)
    BY <1>3, <1>7, <1>8 DEF AS!Effect, AS!Cell, Effect, Cell
<1>10. \A p, g : AS!Success(p, g) = Success(p, g)
    BY <1>4 DEF AS!Success, AS!Answer, Success, Answer, AS!write_single_coil,
       AS!write_single_register, AS!mask_write_register, write_single_coil,
       write_single_register, mask_write_register
<1>11. \A t, p : AS!Reply(t, p) = Reply(t, p)
    BY <1>3, <1>4, <1>9, <1>10 DEF AS!Reply, AS!Index, Reply, Index,
       AS!write_single_coil, write_single_coil
<1>12. \A p, code : AS!Exception(p, code) = Exception(p, code)
    BY DEF AS!Exception, AS!ErrorFunction, AS!DecodedFunction, AS!CheckFunction,
       Exception, ErrorFunction, DecodedFunction, CheckFunction
<1>13. \A p, r : AS!Told(p, r) = Hidden(p, r)
    BY <1>4 DEF AS!Told, Hidden, AS!write_single_coil, write_single_coil
<1>14. \A r : (AS!Writes(r) <=> Writes(r)) /\ (AS!Valid(r) <=> Valid(r))
    BY DEF AS!Writes, Writes, AS!Valid, AS!ValidateSz, AS!ValidateRange,
       AS!ValidateCount, Valid, ValidateSz, ValidateRange, ValidateCount
<1>15. \A w, r : AS!Written(w, r) = Written(w, r)
    BY DEF AS!Written, AS!Overwrite, AS!Span, AS!Index, AS!Cell,
       Written, Overwrite, Span, Index, Cell
<1>. QED  BY <1>1, <1>6, <1>9, <1>11, <1>12, <1>13, <1>14, <1>15

(* What is left of a reply does not depend on what was read.               *)
LEMMA HiddenSame ==
    ASSUME NEW p, NEW g, NEW h
    PROVE  Hidden(p, Success(p, g)) = Hidden(p, Success(p, h))
    BY DEF Hidden, Success, Answer

LEMMA HiddenException ==
    ASSUME NEW p, NEW code
    PROVE  Hidden(p, Exception(p, code)) = Exception(p, code)
    BY DEF Hidden, Exception

(* The one call of a response that stores.                                 *)
LEMMA StoresThen ==
    ASSUME NEW p, Admitted(p), NEW k \in 1 .. Calls(p), NEW got,
           NEW q, q = TableCall(p, k, got)
    PROVE  Writes(q) <=> p.fn \in WriteFunction /\ k = StoringCall(p)
<1>1. p.fn # mask_write_register
    BY ConcurrentAssumption DEF Admitted
<1>2. /\ p.fn = write_single_coil /\ k = 1 => ~Writes(q)
      /\ p.fn = read_write_multiple_registers /\ k = 1 => Writes(q)
      /\ k = Calls(p) /\ p.fn \in WriteFunction =>
           Writes(q) \/ (p.fn = read_write_multiple_registers /\ k = 2)
      /\ k = 1 \/ k = 2
    BY FirstAndLast
<1>3. Writes(q) => p.fn \in WriteFunction /\ ~(p.fn = read_write_multiple_registers /\ k = 2)
    BY StoreShape
<1>4. p.fn = write_single_coil => Calls(p) = 2 /\ p.fn # read_write_multiple_registers
    BY DEF Calls, write_single_coil, read_write_multiple_registers
<1>5. p.fn \notin {write_single_coil, read_write_multiple_registers} => Calls(p) = 1 /\ k = 1
    BY <1>1 DEF Calls
<1>. QED  BY <1>2, <1>3, <1>4, <1>5 DEF StoringCall

(* The invariant: what an application does through the table is its own.   *)
AppsOK == \A a \in App : ~In(a, "idle") => call[a].req \in AppAccess
ConcurrentInv == ServerInv /\ AppsOK

LEMMA AppsApart ==
    ASSUME ServerInv, NEW s \in Session, SessionStep(s) \/ Receive(s),
           NEW a \in App
    PROVE  call'[a] = call[a]
<1>1. /\ UNCHANGED vars \/ (\E r \in Access : Call(s, r)) \/ Step(s) \/ Return(s)
      /\ TablesOK /\ s \in Actor /\ a \in Actor /\ a # s
    BY SessionStepKeeps, ServerAssumption DEF ServerInv
<1>2. CASE UNCHANGED vars
    BY <1>2 DEF vars
<1>. QED  BY <1>1, <1>2, TableStep

LEMMA AppStepParts ==
    ASSUME ServerInv, NEW a \in App, AppStep(a)
    PROVE  /\ (\E r \in AppAccess : Call(a, r)) \/ Step(a) \/ Return(a)
           /\ (\E r \in Access : Call(a, r)) \/ Step(a) \/ Return(a)
           /\ TablesOK /\ a \in Actor /\ a \notin Session
           /\ job' = job /\ reply' = reply
           /\ \A x \in Actor : x # a => call'[x] = call[x]
<1>1. /\ (\E r \in AppAccess : Call(a, r)) \/ Step(a) \/ Return(a)
      /\ (\E r \in Access : Call(a, r)) \/ Step(a) \/ Return(a)
      /\ TablesOK /\ a \in Actor /\ a \notin Session
      /\ job' = job /\ reply' = reply
    BY ServerAssumption DEF AppStep, ServerInv
<1>. QED  BY <1>1, TableStep

LEMMA ConcurrentStep ==
    ASSUME ConcurrentInv, [SNext]_svars
    PROVE  ConcurrentInv'
<1>1. ServerInv /\ AppsOK /\ ServerInv'
    BY ServerInvStep DEF ConcurrentInv
<1>2. ASSUME NEW s \in Session, SessionStep(s) \/ Receive(s)  PROVE AppsOK'
    BY <1>1, <1>2, AppsApart DEF AppsOK, In
<1>3. ASSUME NEW a \in App, AppStep(a)  PROVE AppsOK'
  <2>1. /\ (\E r \in AppAccess : Call(a, r)) \/ Step(a) \/ Return(a)
        /\ TablesOK /\ a \in Actor
        /\ \A x \in Actor : x # a => call'[x] = call[x]
      BY <1>1, <1>3, AppStepParts
  <2>2. \A x \in App : x # a /\ ~In(x, "idle")' => call'[x].req \in AppAccess
      BY <1>1, <2>1, ServerAssumption DEF AppsOK, In
  <2>3. ~In(a, "idle")' => call'[a].req \in AppAccess
    <3>1. ASSUME NEW r \in AppAccess, Call(a, r)  PROVE call'[a].req \in AppAccess
      <4>1. call'[a] = [stage |-> "lock", req |-> r, got |-> << >>, pos |-> 0]
          BY <2>1, <3>1, CallEffect
      <4>. QED  BY <3>1, <4>1
    <3>2. CASE Step(a)
        BY <1>1, <2>1, <3>2, StepKeepsRequest DEF AppsOK
    <3>3. CASE Return(a)
        BY <2>1, <3>3, ReturnEffect DEF In, NoCall
    <3>. QED  BY <2>1, <3>1, <3>2, <3>3
  <2>. QED  BY <2>2, <2>3 DEF AppsOK
<1>4. ASSUME call' = call  PROVE AppsOK'
    BY <1>1, <1>4 DEF AppsOK, In
<1>5. AppsOK'
    BY <1>2, <1>3, <1>4 DEF SNext, RefStore, svars
<1>. QED  BY <1>1, <1>5 DEF ConcurrentInv

LEMMA ConcurrentStart == SInit => ConcurrentInv
<1>. SUFFICES ASSUME SInit PROVE ConcurrentInv
    OBVIOUS
<1>1. \A a \in App : In(a, "idle")
    BY ServerAssumption DEF SInit, Init, In, NoCall
<1>. QED  BY <1>1, ServerInvInit DEF ConcurrentInv, AppsOK
-----------------------------------------------------------------------------
(* A session's steps, as the atomic server sees them.                      *)
LEMMA FirstSteps ==
    ASSUME ServerInv, NEW s \in Session, NEW p \in Packet
    PROVE  /\ Drop(s, p) => UNCHANGED << AbsTable, AbsClient >>
           /\ Refuse(s, p) => AS!ARefuse(s, p)
           /\ Admit(s, p) => AS!ARequest(s, p)
<1>1. /\ TablesOK /\ SessionsOK /\ s \in Actor
      /\ ThreadFree(s) => job[s].stage = "idle" /\ AbsClient[s].stage = "idle"
  <2>1. ThreadFree(s) => job[s].stage = "idle"
      BY DEF ThreadFree, Handling
  <2>2. job[s].stage = "idle" => AbsClient[s].stage = "idle"
      BY ClientSeen, SeenStages
  <2>. QED  BY <2>1, <2>2, ServerAssumption DEF ServerInv
<1>2. ASSUME Drop(s, p)  PROVE UNCHANGED << AbsTable, AbsClient >>
  <2>1. cells' = cells /\ mutex' = mutex /\ call' = call /\ job' = job /\ reply' = reply
      BY <1>2 DEF Drop, svars
  <2>2. AbsTable' = AbsTable
      BY <2>1 DEF AbsTable, Pending
  <2>3. AbsClient' = AbsClient
      BY <2>1, ClientSeen
  <2>. QED  BY <2>2, <2>3
<1>3. ASSUME Refuse(s, p)  PROVE AS!ARefuse(s, p)
  <2>. PICK j, r : j = [stage |-> "answered", pkt |-> p] /\ r = Exception(p, Verdict(p))
      OBVIOUS
  <2>1. /\ OthersKept(s) /\ ThreadFree(s) /\ p.fn # -1 /\ Verdict(p) # 0
        /\ job' = [job EXCEPT ![s] = j] /\ reply' = [reply EXCEPT ![s] = r]
        /\ cells' = cells /\ mutex' = mutex /\ call' = call
      BY <1>3, SessionsApart DEF Refuse, Answered, Receive, vars
  <2>2. job'[s] = j /\ reply'[s] = r
      BY <1>1, <2>1 DEF SessionsOK
  <2>3. Seen(job'[s], call'[s], reply'[s]) =
          [stage |-> "answered", pkt |-> p, reply |-> r]
      BY <2>2, SeenStages, HiddenException
  <2>4. AbsClient' = [AbsClient EXCEPT
                       ![s] = [stage |-> "answered", pkt |-> p, reply |-> r]]
      BY <2>1, <2>3, ClientStep
  <2>5. AbsTable' = AbsTable
      BY <2>1 DEF AbsTable, Pending
  <2>6. AS!Verdict(p) # 0 /\ r = AS!Exception(p, AS!Verdict(p))
      BY <2>1, SameServerOperators
  <2>. QED  BY <1>1, <2>1, <2>4, <2>5, <2>6 DEF AS!ARefuse
<1>4. ASSUME Admit(s, p)  PROVE AS!ARequest(s, p)
  <2>. PICK j, q : /\ j = [stage |-> "encode", pkt |-> p, step |-> 1, got |-> << >>]
                   /\ q = TableCall(p, 1, << >>)
      OBVIOUS
  <2>1. /\ OthersKept(s) /\ ThreadFree(s) /\ p.fn # -1 /\ Verdict(p) = 0
        /\ job' = [job EXCEPT ![s] = j] /\ Call(s, q)
      BY <1>4, SessionsApart DEF Admit, Receive
  <2>2. job'[s] = j
      BY <1>1, <2>1 DEF SessionsOK
  <2>3. call'[s].stage = "lock"
    <3>1. call'[s] = [stage |-> "lock", req |-> q, got |-> << >>, pos |-> 0]
        BY <1>1, <2>1, CallEffect
    <3>. QED  BY <3>1
  <2>4. ~Done(j, call'[s])
      BY <2>3 DEF Done, StoringCall
  <2>5. Seen(job'[s], call'[s], reply'[s]) = [stage |-> "asked", pkt |-> p]
      BY <2>2, <2>4, SeenStages
  <2>6. AbsClient' = [AbsClient EXCEPT ![s] = [stage |-> "asked", pkt |-> p]]
      BY <2>1, <2>5, ClientStep
  <2>7. AbsTable' = AbsTable
    <3>1. \E r \in Access : Call(s, r)
        BY <1>1, <1>4, AdmitKeeps
    <3>. QED  BY <1>1, <3>1, QuietStep
  <2>8. AS!Verdict(p) = 0
      BY <2>1, SameServerOperators
  <2>. QED  BY <1>1, <2>1, <2>6, <2>7, <2>8 DEF AS!ARequest
<1>. QED  BY <1>2, <1>3, <1>4

(* The mutex of its storing call is taken: the request happens.            *)
LEMMA LockHandles ==
    ASSUME ServerInv, NEW s \in Session, LockForStore(s), UNCHANGED << job, reply >>
    PROVE  AS!AHandle(s)
<1>. PICK p, k, q, b : /\ p = job[s].pkt /\ k = job[s].step /\ q = call[s].req
                       /\ b = BlockOf(p.fn)
    OBVIOUS
<1>. PICK got, r : got = job[s].got /\ r = Hidden(p, Success(p, << >>))
    OBVIOUS
<1>1. /\ TablesOK /\ SessionsOK /\ s \in Actor /\ ~In(s, "idle") /\ In(s, "lock")
      /\ OthersKept(s)
    BY ServerAssumption, SessionsApart DEF ServerInv, LockForStore, In, SessionStep, Step
<1>2. Encoding(s)
    BY <1>1, SessionFacts
<1>3. /\ AbsTable' = [AbsTable EXCEPT ![q.blk] = Written(AbsTable[q.blk], q)]
      /\ q \in Access /\ Writes(q) /\ Valid(q) /\ call'[s].stage = "store"
    BY <1>1, LockSeen
<1>4. /\ Admitted(p) /\ k \in 1 .. Calls(p) /\ q = TableCall(p, k, got)
      /\ q.blk = b /\ b \in Block
      /\ p.waddr \in Nat /\ p.wcnt \in Nat /\ Start[b] \in Nat
    BY <1>1, <1>2, HandlerFacts
<1>5. /\ p.fn \in WriteFunction /\ k = StoringCall(p)
      /\ p.fn # mask_write_register
    BY <1>3, <1>4, StoresThen, ConcurrentAssumption DEF Admitted
<1>6. /\ q.addr = p.waddr /\ q.cnt = p.wcnt
      /\ \A n \in Nat : n < q.cnt =>
           q.buf[n + 1] = IF n + 1 <= Len(p.vals) THEN p.vals[n + 1] ELSE off
    BY <1>3, <1>4, <1>5, StoreShape
<1>7. Len(q.buf) = p.wcnt
    BY <1>3, <1>6, AccessFacts
<1>8. AbsTable' = Effect(AbsTable, p)
  <2>1. WriteSpan(p) = Span(b, q.addr, Len(q.buf))
      BY <1>5, <1>6, <1>7 DEF WriteSpan
  <2>2. ASSUME NEW c \in Span(b, q.addr, Len(q.buf)), NEW w
        PROVE  q.buf[c - Index(b, q.addr) + 1] = NewWord(p, c, w)
    <3>. PICK n : n = c - Index(b, q.addr)
        OBVIOUS
    <3>1. n \in Nat /\ n < q.cnt
      <4>. PICK i, m : i = Index(b, q.addr) /\ m = q.cnt
          OBVIOUS
      <4>1. i \in Int /\ m \in Nat /\ Len(q.buf) = m
          BY <1>4, <1>6, <1>7 DEF Index
      <4>2. c \in i .. i + m - 1
          BY <2>2, <4>1 DEF Span
      <4>. QED  BY <4>1, <4>2
    <3>2. q.buf[n + 1] = IF n + 1 <= Len(p.vals) THEN p.vals[n + 1] ELSE off
        BY <1>6, <3>1
    <3>. QED  BY <1>5, <1>6, <3>2 DEF NewWord
  <2>3. AbsTable'[b] =
          [c \in Cell(b) |-> IF c \in WriteSpan(p) THEN NewWord(p, c, AbsTable[b][c])
                             ELSE AbsTable[b][c]]
    <3>1. AbsTable'[b] = Written(AbsTable[b], q)
        BY <1>3, <1>4, TableSeen
    <3>2. AbsTable'[b] =
            [c \in Cell(b) |-> IF c \in WriteSpan(p) THEN q.buf[c - Index(b, q.addr) + 1]
                               ELSE AbsTable[b][c]]
        BY <1>4, <2>1, <3>1 DEF Written, Overwrite
    <3>3. \A c \in Cell(b) : c \in WriteSpan(p) =>
             q.buf[c - Index(b, q.addr) + 1] = NewWord(p, c, AbsTable[b][c])
        BY <2>1, <2>2
    <3>. QED  BY <3>2, <3>3
  <2>4. ASSUME NEW x \in Block, x # b
        PROVE  AbsTable'[x] = [c \in Cell(x) |-> AbsTable[x][c]]
    <3>1. AbsTable'[x] = AbsTable[x]
        BY <1>3, <1>4, <2>4, TableSeen
    <3>2. AbsTable[x] = [c \in Cell(x) |-> CellSeen(x, c)]
        BY TableSeen
    <3>. QED  BY <3>1, <3>2
  <2>5. ASSUME NEW x \in Block
        PROVE  AbsTable'[x] =
                 [c \in Cell(x) |-> IF x = b /\ c \in WriteSpan(p)
                                   THEN NewWord(p, c, AbsTable[x][c]) ELSE AbsTable[x][c]]
    <3>1. CASE x = b
        BY <2>3, <3>1
    <3>2. CASE x # b
        BY <2>4, <3>2
    <3>. QED  BY <3>1, <3>2
  <2>6. AbsTable' = [x \in Block |-> AbsTable'[x]]
      BY TableSeen
  <2>. QED  BY <2>5, <2>6 DEF Effect
<1>9. ~Done(job[s], call[s]) /\ Done(job'[s], call'[s]) /\ job'[s] = job[s]
    BY <1>1, <1>2, <1>3, <1>4, <1>5 DEF Done, Encoding, In, StoringCall
<1>10. Seen(job'[s], call'[s], reply'[s]) =
         [stage |-> "answered", pkt |-> p, reply |-> r]
    BY <1>2, <1>9, SeenStages DEF Encoding
<1>11. /\ AbsClient[s] = [stage |-> "asked", pkt |-> p]
       /\ AbsClient' = [AbsClient EXCEPT ![s] =
                          [stage |-> "answered", pkt |-> p, reply |-> r]]
    BY <1>1, <1>2, <1>9, <1>10, ClientStep, SeenStages DEF Encoding
<1>12. AbsTable' = AS!Effect(AbsTable, p)
    BY <1>8, SameServerOperators
<1>13. r = AS!Told(p, AS!Reply(AbsTable, p))
  <2>1. \E g : Reply(AbsTable, p) = Success(p, g)
      BY DEF Reply
  <2>. QED  BY <2>1, HiddenSame, SameServerOperators
<1>14. AbsClient[s].stage = "asked" /\ AbsClient[s].pkt = p
    BY <1>11
<1>15. AbsClient' = [AbsClient EXCEPT ![s] =
         [stage |-> "answered", pkt |-> AbsClient[s].pkt,
          reply |-> AS!Told(AbsClient[s].pkt, AS!Reply(AbsTable, AbsClient[s].pkt))]]
    BY <1>11, <1>13, <1>14
<1>. QED  BY <1>12, <1>14, <1>15 DEF AS!AHandle

(* The other steps inside a call, and between two calls, are not seen.     *)
LEMMA InsideStutters ==
    ASSUME ServerInv, NEW s \in Session, SessionStep(s),
           ~LockForStore(s), ~Finish(s), ~Send(s)
    PROVE  UNCHANGED << AbsTable, AbsClient >>
<1>. PICK p, k, q : p = job[s].pkt /\ k = job[s].step /\ q = call[s].req
    OBVIOUS
<1>. PICK got : got = job[s].got
    OBVIOUS
<1>1. /\ TablesOK /\ SessionsOK /\ CallsOK /\ s \in Actor /\ OthersKept(s)
    BY ServerAssumption, SessionsApart DEF ServerInv, TablesOK
<1>2. CASE Step(s) /\ UNCHANGED << job, reply >>
  <2>1. ~In(s, "idle")
      BY <1>1, <1>2, StepKeepsRequest
  <2>2. Encoding(s)
      BY <1>1, <2>1, SessionFacts
  <2>3. /\ Admitted(p) /\ k \in 1 .. Calls(p) /\ q = TableCall(p, k, got)
      BY <2>1, <2>2, HandlerFacts
  <2>4. Writes(q) <=> p.fn \in WriteFunction /\ k = StoringCall(p)
      BY <2>3, StoresThen
  <2>5. CASE Store(s)
    <3>1. call[s].stage = "store" /\ call'[s].stage = "store"
        BY <1>1, <2>5, StoreFacts DEF In
    <3>2. Done(job'[s], call'[s]) <=> Done(job[s], call[s])
        BY <1>2, <3>1 DEF Done
    <3>3. AbsTable' = AbsTable
        BY <1>1, <2>5, StoreUnseen
    <3>. QED  BY <1>1, <1>2, <3>2, <3>3, ClientKept DEF Seen
  <2>6. CASE Unlock(s)
    <3>1. call'[s] = Staged(s, "ok") /\ call[s].stage = "store"
        BY <1>1, <2>1, <2>6, AtStage DEF Unlock, CallsOK, Stages, In
    <3>2. call'[s].stage = "ok"
        BY <3>1 DEF Staged
    <3>3. Done(job'[s], call'[s]) <=> Done(job[s], call[s])
        BY <1>2, <3>1, <3>2 DEF Done
    <3>4. AbsTable' = AbsTable
        BY <1>1, <2>6, UnlockUnseen
    <3>. QED  BY <1>1, <1>2, <3>3, <3>4, ClientKept DEF Seen
  <2>7. CASE LockForLoad(s) \/ Load(s)
    <3>1. ~Writes(q)
        BY <1>1, <2>1, <2>7, CallFacts DEF LockForLoad, Load, Checked, In
    <3>2. Done(job'[s], call'[s]) <=> Done(job[s], call[s])
        BY <1>2, <2>4, <3>1 DEF Done
    <3>3. AbsTable' = AbsTable
        BY <1>1, <2>7, QuietStep
    <3>. QED  BY <1>1, <1>2, <3>2, <3>3, ClientKept DEF Seen
  <2>8. ~Throw(s)
      BY <2>1, <2>2, HandlerFacts DEF Throw
  <2>. QED  BY <1>2, <2>5, <2>6, <2>7, <2>8 DEF Step
<1>3. CASE Resume(s)
  <2>. PICK j : j = [stage |-> "encode", pkt |-> p, step |-> k + 1, got |-> Read(s)]
      OBVIOUS
  <2>1. /\ Encoding(s) /\ In(s, "ok") /\ ~In(s, "idle") /\ k < Calls(p) /\ Return(s)
        /\ job' = [job EXCEPT ![s] = j] /\ reply' = reply
      BY <1>3 DEF Resume, In
  <2>2. /\ Admitted(p) /\ k \in 1 .. Calls(p)
      BY <2>1, HandlerFacts
  <2>3. k = 1 /\ Calls(p) = 2
      BY <2>1, <2>2 DEF Calls
  <2>4. job'[s] = j /\ call'[s] = NoCall
      BY <1>1, <2>1, ReturnEffect DEF SessionsOK
  <2>5. Done(j, NoCall) <=> Done(job[s], call[s])
    <3>1. StoringCall(p) = 1 \/ StoringCall(p) = 2
        BY DEF StoringCall
    <3>2. Done(j, NoCall) <=> p.fn \in WriteFunction /\ StoringCall(p) = 1
        BY <2>3, <3>1 DEF Done, NoCall
    <3>3. Done(job[s], call[s]) <=> p.fn \in WriteFunction /\ StoringCall(p) = 1
        BY <2>1, <2>3, <3>1 DEF Done, In, Encoding
    <3>. QED  BY <3>2, <3>3
  <2>6. Seen(job'[s], call'[s], reply'[s]) = Seen(job[s], call[s], reply[s])
    <3>1. j.stage = "encode" /\ j.pkt = p /\ job[s].stage = "encode"
        BY <2>1 DEF Encoding
    <3>. QED  BY <2>4, <2>5, <3>1 DEF Seen
  <2>7. AbsTable' = AbsTable
      BY <1>1, <2>1, QuietStep
  <2>. QED  BY <1>1, <2>6, <2>7, ClientKept
<1>4. CASE Proceed(s)
  <2>. PICK t : t = TableCall(p, k, got)
      OBVIOUS
  <2>1. /\ Encoding(s) /\ In(s, "idle") /\ Call(s, t)
        /\ job' = job /\ reply' = reply
      BY <1>4 DEF Proceed
  <2>2. call'[s].stage = "lock" /\ call[s].stage = "idle"
    <3>1. call'[s] = [stage |-> "lock", req |-> t, got |-> << >>, pos |-> 0]
        BY <1>1, <2>1, CallEffect
    <3>. QED  BY <2>1, <3>1 DEF In
  <2>3. Done(job'[s], call'[s]) <=> Done(job[s], call[s])
      BY <2>1, <2>2 DEF Done
  <2>4. AbsTable' = AbsTable
    <3>1. \E r \in Access : Call(s, r)
        BY <1>1, <1>4, ProceedKeeps
    <3>. QED  BY <1>1, <3>1, QuietStep
  <2>. QED  BY <1>1, <2>1, <2>3, <2>4, ClientKept DEF Seen
<1>. QED  BY <1>2, <1>3, <1>4 DEF SessionStep

(* A handler ends: a read happens, a write has happened.                   *)
LEMMA FinishHandles ==
    ASSUME ServerInv, NEW s \in Session, Finish(s)
    PROVE  AS!AHandle(s) \/ UNCHANGED << AbsTable, AbsClient >>
<1>. PICK p, k, q, g : /\ p = job[s].pkt /\ k = job[s].step /\ q = call[s].req
                       /\ g = Read(s)
    OBVIOUS
<1>. PICK j, r, e : /\ j = [stage |-> "answered", pkt |-> p]
                    /\ r = Success(p, g) /\ e = Hidden(p, r)
    OBVIOUS
<1>1. /\ TablesOK /\ SessionsOK /\ CallsOK /\ s \in Actor /\ OthersKept(s)
      /\ Encoding(s) /\ Return(s) /\ ~In(s, "idle")
      /\ In(s, "ok") => k = Calls(p)
    BY ServerAssumption, SessionsApart DEF ServerInv, TablesOK, SessionStep,
       Finish, Return, In
<1>2. /\ Admitted(p) /\ k \in 1 .. Calls(p) /\ Valid(q)
    BY <1>1, HandlerFacts
<1>3. In(s, "ok") /\ k = Calls(p)
    BY <1>1, <1>2, CallFacts DEF Return, Checked, In
<1>4. /\ job' = [job EXCEPT ![s] = j] /\ reply' = [reply EXCEPT ![s] = r]
    BY <1>3 DEF Finish, Answered
<1>5. job'[s] = j /\ reply'[s] = r
    BY <1>1, <1>4 DEF SessionsOK
<1>6. Seen(job'[s], call'[s], reply'[s]) = [stage |-> "answered", pkt |-> p, reply |-> e]
    BY <1>5, SeenStages
<1>7. AbsTable' = AbsTable
    BY <1>1, QuietStep
<1>8. e = Hidden(p, Success(p, << >>))
    BY HiddenSame
<1>9. p.fn \in WriteFunction => Done(job[s], call[s])
  <2>1. p.fn # mask_write_register
      BY <1>2, ConcurrentAssumption DEF Admitted
  <2>2. CASE p.fn = write_single_coil
      BY <1>1, <1>3, <2>2 DEF Done, Encoding, In, Calls, StoringCall
  <2>3. CASE p.fn # write_single_coil
    <3>1. StoringCall(p) = 1 /\ (k = 1 \/ k = 2)
        BY <1>3, <2>3 DEF StoringCall, Calls
    <3>. QED  BY <1>1, <1>3, <3>1 DEF Done, Encoding, In
  <2>. QED  BY <2>2, <2>3
<1>10. CASE p.fn \in WriteFunction
  <2>1. Seen(job[s], call[s], reply[s]) = [stage |-> "answered", pkt |-> p, reply |-> e]
      BY <1>1, <1>8, <1>9, <1>10, SeenStages DEF Encoding
  <2>. QED  BY <1>1, <1>6, <1>7, <2>1, ClientKept
<1>11. CASE p.fn \notin WriteFunction
  <2>1. ~Done(job[s], call[s])
      BY <1>11 DEF Done
  <2>2. /\ AbsClient[s] = [stage |-> "asked", pkt |-> p]
        /\ AbsClient' = [AbsClient EXCEPT
                           ![s] = [stage |-> "answered", pkt |-> p, reply |-> e]]
      BY <1>1, <1>6, <2>1, ClientStep, SeenStages DEF Encoding
  <2>3. Effect(AbsTable, p) = AbsTable
    <3>1. WriteSpan(p) = {}
        BY <1>11 DEF WriteSpan
    <3>2. \A b \in Block : AbsTable[b] = [c \in Cell(b) |-> AbsTable[b][c]]
        BY TableSeen
    <3>3. AbsTable = [b \in Block |-> AbsTable[b]]
        BY TableSeen
    <3>4. Effect(AbsTable, p) = [b \in Block |-> [c \in Cell(b) |-> AbsTable[b][c]]]
        BY <3>1 DEF Effect
    <3>. QED  BY <3>2, <3>3, <3>4
  <2>4. AbsTable' = AS!Effect(AbsTable, p)
      BY <1>7, <2>3, SameServerOperators
  <2>5. e = AS!Told(p, AS!Reply(AbsTable, p))
    <3>1. \E h : Reply(AbsTable, p) = Success(p, h)
        BY DEF Reply
    <3>. QED  BY <3>1, HiddenSame, SameServerOperators
  <2>. QED  BY <2>2, <2>4, <2>5 DEF AS!AHandle
<1>. QED  BY <1>10, <1>11

LEMMA SendIsDone ==
    ASSUME ServerInv, NEW s \in Session, Send(s)
    PROVE  AS!ADone(s)
<1>1. /\ SessionsOK /\ OthersKept(s) /\ job[s].stage = "answered"
      /\ job' = [job EXCEPT ![s] = NoJob]
      /\ cells' = cells /\ mutex' = mutex /\ call' = call
    BY SessionsApart DEF ServerInv, SessionStep, Send, vars
<1>2. job'[s] = NoJob
    BY <1>1 DEF SessionsOK
<1>3. Seen(job'[s], call'[s], reply'[s]) = AS!NoRequest
    BY <1>2, SeenStages DEF NoJob, AS!NoRequest
<1>4. /\ AbsClient[s].stage = "answered"
      /\ AbsClient' = [AbsClient EXCEPT ![s] = AS!NoRequest]
    BY <1>1, <1>3, ClientStep, SeenStages
<1>5. AbsTable' = AbsTable
    BY <1>1 DEF AbsTable, Pending
<1>. QED  BY <1>4, <1>5 DEF AS!ADone
-----------------------------------------------------------------------------
(* An application's steps: a store happens when its mutex is taken, or, if *)
(* it goes through a reference, when it is made.                           *)
LEMMA AppsUnseen ==
    ASSUME ServerInv, NEW a \in App, AppStep(a) \/ \E r \in RefAccess : RefStore(a, r)
    PROVE  AbsClient' = AbsClient
<1>1. job' = job /\ reply' = reply /\ \A s \in Session : call'[s] = call[s]
  <2>1. CASE AppStep(a)
      BY <2>1, AppStepParts, ServerAssumption
  <2>2. CASE \E r \in RefAccess : RefStore(a, r)
      BY <2>2 DEF RefStore
  <2>. QED  BY <2>1, <2>2
<1>. QED  BY <1>1, ClientSeen

LEMMA AppSteps ==
    ASSUME ConcurrentInv, NEW a \in App, AppStep(a)
    PROVE  \/ UNCHANGED << AbsTable, AbsClient >>
           \/ \E r \in AppAccess : AS!AAppStore(r)
<1>1. /\ (\E r \in Access : Call(a, r)) \/ Step(a) \/ Return(a)
      /\ TablesOK /\ a \in Actor /\ AppsOK /\ AbsClient' = AbsClient
    BY AppStepParts, AppsUnseen DEF ConcurrentInv
<1>2. CASE LockForStore(a)
  <2>. PICK r : r = call[a].req
      OBVIOUS
  <2>1. /\ AbsTable' = [AbsTable EXCEPT ![r.blk] = Written(AbsTable[r.blk], r)]
        /\ Writes(r) /\ Valid(r)
      BY <1>1, <1>2, LockSeen
  <2>2. r \in AppAccess
      BY <1>1, <1>2 DEF AppsOK, LockForStore, In
  <2>3. AS!AAppStore(r)
      BY <1>1, <2>1, SameServerOperators DEF AS!AAppStore
  <2>. QED  BY <2>2, <2>3
<1>3. CASE \/ \E r \in Access : Call(a, r)
           \/ LockForLoad(a) \/ Load(a) \/ Throw(a) \/ Return(a)
    BY <1>1, <1>3, QuietStep
<1>4. CASE Store(a)
    BY <1>1, <1>4, StoreUnseen
<1>5. CASE Unlock(a)
    BY <1>1, <1>5, UnlockUnseen
<1>. QED  BY <1>1, <1>2, <1>3, <1>4, <1>5 DEF Step

LEMMA RefSteps ==
    ASSUME ServerInv, NEW a \in App, NEW r \in RefAccess, RefStore(a, r)
    PROVE  UNCHANGED << AbsTable, AbsClient >> \/ AS!AAppStore(r)
<1>1. /\ TablesOK /\ a \in Actor /\ Writes(r) /\ Valid(r)
    BY ServerAssumption DEF ServerInv, RefStore
<1>2. AbsClient' = AbsClient
    BY AppsUnseen
<1>3. CASE AbsTable' = AbsTable
    BY <1>2, <1>3
<1>4. CASE AbsTable' = [AbsTable EXCEPT ![r.blk] = Written(AbsTable[r.blk], r)]
  <2>1. AS!Writes(r) /\ AS!Valid(r)
        /\ AbsTable' = [AbsTable EXCEPT ![r.blk] = AS!Written(AbsTable[r.blk], r)]
      BY <1>1, <1>4, SameServerOperators
  <2>. QED  BY <1>2, <2>1 DEF AS!AAppStore
<1>. QED  BY <1>1, <1>3, <1>4, RefSeen

-----------------------------------------------------------------------------
LEMMA AtomicStart ==
    ASSUME SInit
    PROVE  AS!AInit
<1>1. \A s \in Session : job[s] = NoJob
    BY DEF SInit
<1>2. AbsTable = AS!InitialTable
  <2>1. \A b \in Block : \A c \in Cell(b) : ~Pending(b, c)
      BY DEF SInit, Init, Pending
  <2>2. \A b \in Block : [c \in Cell(b) |-> CellSeen(b, c)] = [c \in Cell(b) |-> cells[b][c]]
      BY <2>1 DEF CellSeen
  <2>3. \A b \in Block : [c \in Cell(b) |-> cells[b][c]] = Initial(b)
      BY DEF SInit, Init, Initial
  <2>. QED  BY <2>2, <2>3, TableSeen, SameServerOperators DEF InitialTable
<1>3. AbsClient = [s \in Session |-> AS!NoRequest]
  <2>1. \A s \in Session : Seen(job[s], call[s], reply[s]) = AS!NoRequest
      BY <1>1, SeenStages DEF NoJob, AS!NoRequest
  <2>. QED  BY <2>1, ClientSeen
<1>. QED  BY <1>2, <1>3 DEF AS!AInit

LEMMA SessionImplements ==
    ASSUME ServerInv, NEW s \in Session, Receive(s) \/ SessionStep(s)
    PROVE  [AS!ANext]_(AS!avars)
<1>1. ASSUME NEW p \in Packet, Drop(s, p)  PROVE UNCHANGED AS!avars
    BY <1>1, FirstSteps DEF AS!avars
<1>2. ASSUME NEW p \in Packet, Refuse(s, p) \/ Admit(s, p)  PROVE AS!ANext
    BY <1>2, FirstSteps DEF AS!ANext
<1>3. CASE Finish(s)
    BY <1>3, FinishHandles DEF AS!ANext, AS!avars
<1>4. CASE Send(s)
    BY <1>4, SendIsDone DEF AS!ANext
<1>5. CASE LockForStore(s) /\ UNCHANGED << job, reply >>
    BY <1>5, LockHandles DEF AS!ANext
<1>6. CASE SessionStep(s) /\ ~LockForStore(s) /\ ~Finish(s) /\ ~Send(s)
    BY <1>6, InsideStutters DEF AS!avars
<1>7. CASE SessionStep(s) /\ LockForStore(s)
  <2>1. In(s, "lock")
      BY <1>7 DEF LockForStore
  <2>2. CASE Step(s) /\ UNCHANGED << job, reply >>
      BY <1>5, <1>7, <2>2
  <2>3. CASE ~(Step(s) /\ UNCHANGED << job, reply >>)
    <3>1. ~Resume(s) /\ ~Proceed(s)
        BY <2>1 DEF Resume, Proceed, In
    <3>. QED  BY <1>3, <1>4, <1>7, <2>3, <3>1 DEF SessionStep
  <2>. QED  BY <2>2, <2>3
<1>. QED  BY <1>1, <1>2, <1>3, <1>4, <1>6, <1>7 DEF Receive

LEMMA AppImplements ==
    ASSUME ConcurrentInv, NEW a \in App,
           AppStep(a) \/ \E r \in RefAccess : RefStore(a, r)
    PROVE  [AS!ANext]_(AS!avars)
<1>1. ServerInv /\ App # {}
    BY DEF ConcurrentInv
<1>2. ASSUME NEW r \in AppAccess \cup RefAccess, AS!AAppStore(r)  PROVE AS!ANext
    BY <1>1, <1>2 DEF AS!ANext
<1>3. CASE AppStep(a)
    BY <1>2, <1>3, AppSteps DEF AS!avars
<1>4. ASSUME NEW r \in RefAccess, RefStore(a, r)  PROVE [AS!ANext]_(AS!avars)
    BY <1>1, <1>2, <1>4, RefSteps DEF AS!avars
<1>. QED  BY <1>3, <1>4

(* Every request that writes without looking is handled at one instant, on *)
(* any number of io threads and beside any application: a write when the   *)
(* mutex of its one storing call is taken, a read when its handler ends.   *)
THEOREM WritesAreAtomic == SSpec => AtomicWrites
<1>1. SInit => AS!AInit
    BY AtomicStart
<1>2. ConcurrentInv /\ [SNext]_svars => [AS!ANext]_(AS!avars)
  <2>. SUFFICES ASSUME ConcurrentInv, [SNext]_svars  PROVE [AS!ANext]_(AS!avars)
      OBVIOUS
  <2>1. CASE UNCHANGED svars
    <3>1. AbsTable' = AbsTable
        BY <2>1 DEF svars, AbsTable, Pending
    <3>2. AbsClient' = AbsClient
        BY <2>1, ClientSeen DEF svars
    <3>. QED  BY <3>1, <3>2 DEF AS!avars
  <2>2. CASE SNext
      BY <2>2, SessionImplements, AppImplements DEF SNext, ConcurrentInv
  <2>. QED  BY <2>1, <2>2
<1>3. ConcurrentInv /\ [SNext]_svars => ConcurrentInv'
    BY ConcurrentStep
<1>. QED  BY <1>1, <1>2, <1>3, ConcurrentStart, PTL DEF SSpec, AtomicWrites, AS!ASpec
=============================================================================
