-------------------------- MODULE DataTableProofs --------------------------
(***************************************************************************)
(* Proofs about DataTable, for any set of threads, any blocks and any      *)
(* calls: type correctness, ownership of the mutexes, bounds of every      *)
(* index, and the integrity of a store under way.                          *)
(*                                                                         *)
(* DataTable implements AtomicTable: every call takes effect at one        *)
(* instant.  A store takes effect when it takes the mutex; its loop and    *)
(* its unlock are stutters of the atomic table, the loop because the cells *)
(* it fills count as filled already, the unlock because all of them are.   *)
(*                                                                         *)
(* And what a slice read cell by cell, with no lock, may contain: a cell   *)
(* holds what it has held in the atomic table since the mutex was released *)
(* although a store has happened there before it happens in the container. *)
(***************************************************************************)
EXTENDS DataTableHistory, SequenceTheorems, TLAPS

-----------------------------------------------------------------------------
(* What the interface makes of a call, spelled out for the provers.        *)
LEMMA AccessFacts ==
    ASSUME NEW r \in Access
    PROVE  /\ r.op \in {"set", "reset", "slice", "at"}
           /\ r.blk \in Block
           /\ r.addr \in Nat
           /\ r.cnt \in Nat
           /\ r.buf \in Seq(Value[r.blk])
           /\ Writes(r) => r.cnt = Len(r.buf)
           /\ r.op = "reset" => r.addr = Start[r.blk] /\ r.cnt = Capacity[r.blk]
           /\ r.op = "at" => r.cnt = 1
    BY DataTableAssumption DEF WellFormed

(* The range of a call that passed its check lies inside the container.    *)
LEMMA RangeInside ==
    ASSUME NEW r \in Access, Valid(r)
    PROVE  /\ \A k \in 0 .. r.cnt - 1 : Index(r.blk, r.addr) + k \in Cell(r.blk)
           /\ Span(r.blk, r.addr, r.cnt) \subseteq Cell(r.blk)
<1>1. /\ Start[r.blk] \in Nat /\ Capacity[r.blk] \in Nat
      /\ r.addr \in Nat /\ r.cnt \in Nat
    BY AccessFacts, DataBlockAssumption
<1>2. /\ Start[r.blk] <= r.addr
      /\ r.addr + r.cnt <= Start[r.blk] + Capacity[r.blk]
  <2>1. CASE r.op = "reset"
      BY <1>1, <2>1, AccessFacts
  <2>2. CASE r.op # "reset"
      BY <1>1, <2>2 DEF Valid, ValidateRange, ValidateSz
  <2>. QED  BY <2>1, <2>2
<1>. QED  BY <1>1, <1>2 DEF Index, Span, Cell

(* Storing one cell of a buffer keeps a container of the block's type.     *)
LEMMA StoreTyped ==
    ASSUME NEW r \in Access, Writes(r), Valid(r),
           NEW n \in Nat, n < r.cnt
    PROVE  /\ Index(r.blk, r.addr) + n \in Cell(r.blk)
           /\ r.buf[n + 1] \in Value[r.blk]
<1>1. r.buf \in Seq(Value[r.blk]) /\ r.cnt \in Nat /\ r.cnt = Len(r.buf)
    BY AccessFacts
<1>2. n + 1 \in 1 .. Len(r.buf)
    BY <1>1
<1>. QED  BY <1>1, <1>2, RangeInside, ElementOfSeq

-----------------------------------------------------------------------------
(* A step of one actor that leaves its call well typed and checked leaves  *)
(* every call so.                                                          *)
CallsOK == DOMAIN call = Actor /\ \A a \in Actor : CallOK(call[a]) /\ Checked(call[a])

LEMMA OneCall ==
    ASSUME CallsOK, NEW a \in Actor, NEW c, CallOK(c), Checked(c),
           call' = [call EXCEPT ![a] = c]
    PROVE  /\ CallsOK'
           /\ call'[a] = c
           /\ \A x \in Actor : x # a => call'[x] = call[x]
    BY DEF CallsOK

(* The fields of a call that is under way.                                 *)
LEMMA CallFacts ==
    ASSUME CallsOK, NEW a \in Actor, ~In(a, "idle")
    PROVE  /\ call[a].stage \in Stages
           /\ call[a].req \in Access
           /\ call[a].got \in Seq(Value[call[a].req.blk])
           /\ call[a].pos \in Nat
           /\ Len(call[a].got) <= call[a].req.cnt
           /\ call[a].pos <= call[a].req.cnt
           /\ call[a] = [stage |-> call[a].stage, req |-> call[a].req,
                         got |-> call[a].got, pos |-> call[a].pos]
           /\ Checked(call[a])
<1>1. CallOK(call[a]) /\ Checked(call[a])  BY DEF CallsOK
<1>2. call[a] # NoCall  BY DEF In, NoCall
<1>. QED  BY <1>1, <1>2 DEF CallOK

(* A call that goes on to another stage.                                   *)
Staged(a, stage) ==
    [stage |-> stage, req |-> call[a].req, got |-> call[a].got,
     pos |-> call[a].pos]

LEMMA AtStage ==
    ASSUME CallsOK, NEW a \in Actor, ~In(a, "idle"), NEW st \in Stages
    PROVE  /\ At(a, st) = [call EXCEPT ![a] = Staged(a, st)]
           /\ CallOK(Staged(a, st))
<1>1. call[a] = Staged(a, call[a].stage)
    BY CallFacts DEF Staged
<1>2. [call[a] EXCEPT !.stage = st] = Staged(a, st)
    BY <1>1 DEF Staged
<1>3. At(a, st) = [call EXCEPT ![a] = Staged(a, st)]
    BY <1>2 DEF At
<1>4. CallOK(Staged(a, st))
    BY CallFacts DEF CallOK, Staged
<1>. QED  BY <1>3, <1>4

(* A call that reads one more cell, e.                                     *)
Grown(a, stage, e) ==
    [stage |-> stage, req |-> call[a].req, got |-> Append(call[a].got, e),
     pos |-> 0]

(* Append, with the facts of AppendProperties that are needed.             *)
LEMMA Grow ==
    ASSUME NEW S, NEW seq \in Seq(S), NEW e \in S
    PROVE  Append(seq, e) \in Seq(S) /\ Len(Append(seq, e)) = Len(seq) + 1
    BY AppendProperties

LEMMA AtCell ==
    ASSUME CallsOK, NEW a \in Actor,
           \A b \in Block : cells[b] \in [Cell(b) -> Value[b]],
           NEW r, r = call[a].req, NEW n, n = Len(call[a].got),
           ~In(a, "idle"), Valid(r), n < r.cnt,
           NEW st \in {"load", "ok"},
           NEW e, e = cells[r.blk][Index(r.blk, r.addr) + n]
    PROVE  /\ CallOK(Grown(a, st, e))
           /\ Len(Append(call[a].got, e)) = n + 1
<1>. DEFINE got == call[a].got
<1>1. /\ r \in Access /\ n \in Nat /\ r.cnt \in Nat
      /\ got \in Seq(Value[r.blk]) /\ r.blk \in Block
    BY CallFacts, AccessFacts, LenProperties
<1>2. Index(r.blk, r.addr) + n \in Cell(r.blk)
    BY <1>1, RangeInside
<1>3. e \in Value[r.blk]
    BY <1>1, <1>2
<1>4. Append(got, e) \in Seq(Value[r.blk]) /\ Len(Append(got, e)) = n + 1
  <2>1. Append(got, e) \in Seq(Value[r.blk]) /\ Len(Append(got, e)) = Len(got) + 1
    <3>. HIDE DEF got
    <3>. QED  BY <1>1, <1>3, Grow
  <2>. QED  BY <2>1
<1>5. CallOK(Grown(a, st, e))
  <2>1. Grown(a, st, e) \in [stage : Stages, req : Access,
                            got : Seq(Value[r.blk]), pos : Nat]
      BY <1>1, <1>4, CallFacts DEF Grown, Stages
  <2>2. /\ Grown(a, st, e).req = r /\ Grown(a, st, e).pos = 0
        /\ Grown(a, st, e).got = Append(got, e)
      BY DEF Grown
  <2>3. 0 <= r.cnt /\ n + 1 <= r.cnt
      BY <1>1
  <2>. QED  BY <1>4, <2>1, <2>2, <2>3 DEF CallOK
<1>. QED  BY <1>4, <1>5

(* Every action leaves the calls well typed and checked.                   *)
LEMMA CallsOKStep ==
    ASSUME CallsOK,
           \A b \in Block : cells[b] \in [Cell(b) -> Value[b]],
           Next
    PROVE  CallsOK'
<1>. PICK a \in Actor : (\E r \in Access : Call(a, r)) \/ Step(a) \/ Return(a)
    BY DEF Next
<1>1. ASSUME NEW r \in Access, Call(a, r)  PROVE CallsOK'
  <2>. DEFINE c == [stage |-> "lock", req |-> r, got |-> << >>, pos |-> 0]
  <2>1. CallOK(c)
      BY AccessFacts, EmptySeq DEF CallOK, Stages
  <2>2. Checked(c)
      BY DEF Checked
  <2>3. call' = [call EXCEPT ![a] = c]
      BY <1>1 DEF Call
  <2>. QED  BY <2>1, <2>2, <2>3, OneCall
<1>2. CASE LockForStore(a)
  <2>1. ~In(a, "idle") /\ call' = At(a, "store")
      BY <1>2 DEF LockForStore, In
  <2>2. Checked(Staged(a, "store"))
      BY <1>2, <2>1, CallFacts DEF LockForStore, In, Checked, Staged
  <2>. QED  BY <2>1, <2>2, AtStage, OneCall DEF Stages
<1>3. CASE Store(a)
  <2>. DEFINE c == [call[a] EXCEPT !.pos = call[a].pos + 1]
  <2>1. ~In(a, "idle") /\ call[a].stage = "store"
      BY <1>3 DEF Store, In
  <2>2. call[a].pos < call[a].req.cnt /\ call' = [call EXCEPT ![a] = c]
      BY <1>3 DEF Store
  <2>3. call[a] = [stage |-> call[a].stage, req |-> call[a].req,
                   got |-> call[a].got, pos |-> call[a].pos]
      BY <2>1, CallFacts
  <2>4. c = [stage |-> call[a].stage, req |-> call[a].req, got |-> call[a].got,
             pos |-> call[a].pos + 1]
      BY <2>3
  <2>5. CallOK(c) /\ Checked(c)
    <3>. HIDE DEF c
    <3>1. /\ call[a].stage \in Stages /\ call[a].req \in Access
          /\ call[a].got \in Seq(Value[call[a].req.blk])
          /\ call[a].req.cnt \in Nat /\ call[a].pos \in Nat
          /\ Len(call[a].got) <= call[a].req.cnt
          /\ Checked(call[a])
        BY <2>1, CallFacts, AccessFacts
    <3>2. CallOK(c)
      <4>1. /\ c.stage = call[a].stage /\ c.req = call[a].req
            /\ c.got = call[a].got /\ c.pos = call[a].pos + 1
          BY <2>4
      <4>2. c \in [stage : Stages, req : Access,
                   got : Seq(Value[call[a].req.blk]), pos : Nat]
          BY <2>4, <3>1
      <4>3. Len(c.got) <= c.req.cnt /\ c.pos <= c.req.cnt
          BY <2>2, <3>1, <4>1
      <4>. QED  BY <4>1, <4>2, <4>3 DEF CallOK
    <3>. QED  BY <2>1, <2>4, <3>1, <3>2 DEF Checked
  <2>. QED  BY <2>2, <2>5, OneCall
<1>4. CASE Unlock(a)
  <2>1. ~In(a, "idle") /\ call' = At(a, "ok")
      BY <1>4 DEF Unlock, In
  <2>2. Checked(Staged(a, "ok"))
      BY <1>4, <2>1, CallFacts DEF Unlock, In, Checked, Staged
  <2>. QED  BY <2>1, <2>2, AtStage, OneCall DEF Stages
<1>5. CASE LockForLoad(a)
  <2>. DEFINE r == call[a].req
  <2>1. ~In(a, "idle") /\ In(a, "lock") /\ ~Writes(r) /\ Valid(r)
      BY <1>5 DEF LockForLoad, In
  <2>2. /\ r \in Access /\ r.cnt \in Nat /\ 0 < r.cnt
        /\ Len(call[a].got) = 0 /\ call[a].got = << >>
    <3>1. r \in Access /\ r.cnt \in Nat /\ r.op \in {"set", "reset", "slice", "at"}
        BY <2>1, CallFacts, AccessFacts
    <3>2. 0 < r.cnt
        BY <2>1, <3>1 DEF Valid, Writes, ValidateRange, ValidateSz
    <3>3. Len(call[a].got) = 0
        BY <2>1, CallFacts DEF Checked, In
    <3>4. call[a].got = << >>
        BY <2>1, <3>3, CallFacts, EmptySeq
    <3>. QED  BY <3>1, <3>2, <3>3, <3>4
  <2>3. CASE r.op = "at" /\ r.blk \in BitBlock
    <3>. DEFINE e == cells[r.blk][Index(r.blk, r.addr)]
    <3>1. Append(call[a].got, e) = << e >>
        BY <2>2
    <3>2. call' = [call EXCEPT ![a] = Grown(a, "ok", e)]
        BY <1>5, <2>3, <3>1 DEF LockForLoad, Loaded, Grown
    <3>3. Index(r.blk, r.addr) + 0 = Index(r.blk, r.addr)
        BY <2>2, AccessFacts, DataBlockAssumption DEF Index
    <3>4. e = cells[r.blk][Index(r.blk, r.addr) + Len(call[a].got)]
        BY <2>2, <3>3
    <3>5. /\ CallOK(Grown(a, "ok", e))
          /\ Len(Append(call[a].got, e)) = 1
        BY <2>1, <2>2, <3>4, AtCell
    <3>6. r.cnt = 1
        BY <2>2, <2>3, AccessFacts
    <3>7. Checked(Grown(a, "ok", e))
        BY <2>1, <3>5, <3>6 DEF Checked, Grown
    <3>. QED  BY <3>2, <3>5, <3>7, OneCall
  <2>4. CASE ~(r.op = "at" /\ r.blk \in BitBlock)
    <3>1. call' = At(a, "load")
        BY <1>5, <2>4 DEF LockForLoad
    <3>2. Checked(Staged(a, "load"))
        BY <2>1, <2>2 DEF Checked, Staged
    <3>. QED  BY <2>1, <3>1, <3>2, AtStage, OneCall DEF Stages
  <2>. QED  BY <2>3, <2>4
<1>6. CASE Load(a)
  <2>. DEFINE r == call[a].req
              n == Len(call[a].got)
              e == cells[r.blk][Index(r.blk, r.addr) + n]
              st == IF n + 1 = r.cnt THEN "ok" ELSE "load"
  <2>1. In(a, "load") /\ ~In(a, "idle")
      BY <1>6 DEF Load, In
  <2>2. call' = [call EXCEPT ![a] = Grown(a, st, e)]
      BY <1>6 DEF Load, Loaded, Grown
  <2>3. ~Writes(r) /\ Valid(r) /\ n < r.cnt /\ n \in Nat /\ r.cnt \in Nat
      BY <2>1, CallFacts, AccessFacts, LenProperties DEF Checked, In
  <2>4. st \in {"load", "ok"}
      OBVIOUS
  <2>5. CallOK(Grown(a, st, e)) /\ Len(Append(call[a].got, e)) = n + 1
    <3>. HIDE DEF st, e, n, r
    <3>. QED  BY <2>1, <2>3, <2>4, AtCell DEF n, e, r
  <2>6. Checked(Grown(a, st, e))
      BY <2>3, <2>5 DEF Checked, Grown
  <2>. QED  BY <2>2, <2>5, <2>6, OneCall
<1>7. CASE Throw(a)
  <2>1. ~In(a, "idle") /\ call' = At(a, "throw")
      BY <1>7 DEF Throw, In
  <2>2. Checked(Staged(a, "throw"))
      BY <1>7 DEF Throw, Checked, Staged
  <2>. QED  BY <2>1, <2>2, AtStage, OneCall DEF Stages
<1>8. CASE Return(a)
  <2>1. CallOK(NoCall) /\ Checked(NoCall)
      BY DEF CallOK, Checked, NoCall
  <2>2. call' = [call EXCEPT ![a] = NoCall]
      BY <1>8 DEF Return
  <2>. QED  BY <2>1, <2>2, OneCall
<1>. QED  BY <1>1, <1>2, <1>3, <1>4, <1>5, <1>6, <1>7, <1>8 DEF Step

-----------------------------------------------------------------------------
(* Containers and mutexes.                                                 *)
CellsOK ==
    /\ DOMAIN cells = Block
    /\ \A b \in Block : cells[b] \in [Cell(b) -> Value[b]]
MutexOK == mutex \in [Block -> Actor \cup {NoActor}]

LEMMA TypeParts == TypeOK /\ (\A a \in Actor : Checked(call[a])) <=>
                       CallsOK /\ CellsOK /\ MutexOK
    BY DEF TypeOK, CallsOK, CellsOK, MutexOK

(* What a store does, with the facts that make it safe.                    *)
LEMMA StoreFacts ==
    ASSUME CallsOK, NEW a \in Actor, Store(a)
    PROVE  /\ In(a, "store") /\ call[a].req \in Access /\ call[a].req.blk \in Block
           /\ Writes(call[a].req) /\ Valid(call[a].req)
           /\ call[a].pos \in Nat /\ call[a].pos < call[a].req.cnt
           /\ call[a].req.cnt \in Nat
           /\ call'[a].stage = "store" /\ call'[a].req = call[a].req
           /\ call'[a].pos = call[a].pos + 1
<1>1. In(a, "store") /\ ~In(a, "idle") /\ call[a].pos < call[a].req.cnt
    BY DEF Store, In
<1>2. /\ call[a].req \in Access /\ call[a].req.blk \in Block
      /\ call[a].pos \in Nat /\ call[a].req.cnt \in Nat
      /\ Writes(call[a].req) /\ Valid(call[a].req)
    BY <1>1, CallFacts, AccessFacts DEF Checked, In
<1>3. call' = [call EXCEPT ![a] = [call[a] EXCEPT !.pos = call[a].pos + 1]]
    BY DEF Store
<1>4. call[a] = [stage |-> call[a].stage, req |-> call[a].req,
                 got |-> call[a].got, pos |-> call[a].pos]
    BY <1>1, CallFacts
<1>5. [call[a] EXCEPT !.pos = call[a].pos + 1] =
        [stage |-> call[a].stage, req |-> call[a].req, got |-> call[a].got,
         pos |-> call[a].pos + 1]
    BY <1>4
<1>6. call'[a] = [stage |-> call[a].stage, req |-> call[a].req,
                  got |-> call[a].got, pos |-> call[a].pos + 1]
    BY <1>3, <1>5 DEF CallsOK
<1>. QED  BY <1>1, <1>2, <1>6 DEF In

(* Only a store changes a container, and it keeps its type.                *)
LEMMA CellsOKStep ==
    ASSUME CallsOK, CellsOK, NEW a \in Actor,
           (\E r \in Access : Call(a, r)) \/ Step(a) \/ Return(a)
    PROVE  /\ CellsOK'
           /\ ~Store(a) => cells' = cells
<1>1. CASE Store(a)
  <2>. DEFINE r == call[a].req
              n == call[a].pos
              i == Index(r.blk, r.addr) + n
  <2>1. cells' = [cells EXCEPT ![r.blk] = [@ EXCEPT ![i] = r.buf[n + 1]]]
      BY <1>1 DEF Store
  <2>2. i \in Cell(r.blk) /\ r.buf[n + 1] \in Value[r.blk] /\ r.blk \in Block
      BY <1>1, StoreFacts, StoreTyped
  <2>. QED
    <3>. HIDE DEF r, n, i
    <3>. QED  BY <1>1, <2>1, <2>2 DEF CellsOK
<1>2. CASE ~Store(a)
  <2>1. cells' = cells
      BY <1>2 DEF Call, Step, Return, LockForStore, Unlock, LockForLoad, Load, Throw
  <2>. QED  BY <2>1, <1>2 DEF CellsOK
<1>. QED  BY <1>1, <1>2

(* One actor's step leaves the calls of the others alone.                  *)
LEMMA OthersKeep ==
    ASSUME CallsOK, NEW a \in Actor,
           (\E r \in Access : Call(a, r)) \/ Step(a) \/ Return(a),
           NEW x \in Actor, x # a
    PROVE  call'[x] = call[x]
    BY DEF CallsOK, Call, Step, Return, LockForStore, Store, Unlock,
           LockForLoad, Load, Throw, At, Loaded

(* Which of an actor's steps enter and leave the storing loop.             *)
LEMMA StoringSteps ==
    ASSUME CallsOK, NEW a \in Actor,
           (\E r \in Access : Call(a, r)) \/ Step(a) \/ Return(a)
    PROVE  \/ /\ LockForStore(a)
              /\ ~In(a, "store") /\ In(a, "store")'
              /\ call'[a].req = call[a].req
              /\ call[a].req.blk \in Block
              /\ mutex[call[a].req.blk] = NoActor
              /\ mutex' = [mutex EXCEPT ![call[a].req.blk] = a]
              /\ call'[a].pos = call[a].pos
           \/ /\ Unlock(a)
              /\ In(a, "store") /\ ~In(a, "store")'
              /\ call[a].req.blk \in Block
              /\ mutex' = [mutex EXCEPT ![call[a].req.blk] = NoActor]
           \/ /\ ~LockForStore(a) /\ ~Unlock(a)
              /\ In(a, "store")' <=> In(a, "store")
              /\ In(a, "store") => Store(a) /\ call'[a].req = call[a].req
              /\ mutex' = mutex
<1>1. CASE \E r \in Access : Call(a, r)
  <2>1. In(a, "idle") /\ mutex' = mutex /\ call'[a].stage = "lock"
      BY <1>1 DEF Call, CallsOK
  <2>2. ~In(a, "store") /\ ~In(a, "store")' /\ ~LockForStore(a) /\ ~Unlock(a)
      BY <2>1 DEF In, LockForStore, Unlock
  <2>. QED  BY <2>1, <2>2
<1>2. CASE LockForStore(a)
  <2>1. ~In(a, "idle") /\ ~In(a, "store")
      BY <1>2 DEF LockForStore, In
  <2>2. call' = [call EXCEPT ![a] = Staged(a, "store")]
      BY <1>2, <2>1, AtStage DEF LockForStore, Stages
  <2>3. call'[a] = Staged(a, "store")
      BY <2>2 DEF CallsOK
  <2>4. call[a].req.blk \in Block
      BY <2>1, CallFacts, AccessFacts
  <2>. QED  BY <1>2, <2>1, <2>3, <2>4 DEF LockForStore, In, Free, Staged
<1>3. CASE Store(a)
  <2>1. /\ In(a, "store") /\ In(a, "store")' /\ call'[a].req = call[a].req
        /\ call[a].pos # call[a].req.cnt
      BY <1>3, StoreFacts DEF In
  <2>2. ~LockForStore(a) /\ ~Unlock(a) /\ mutex' = mutex
      BY <1>3, <2>1 DEF Store, In, LockForStore, Unlock
  <2>. QED  BY <1>3, <2>1, <2>2
<1>4. CASE Unlock(a)
  <2>1. ~In(a, "idle") /\ In(a, "store")
      BY <1>4 DEF Unlock, In
  <2>2. call' = [call EXCEPT ![a] = Staged(a, "ok")]
      BY <1>4, <2>1, AtStage DEF Unlock, Stages
  <2>3. call'[a] = Staged(a, "ok")
      BY <2>2 DEF CallsOK
  <2>4. call[a].req.blk \in Block
      BY <2>1, CallFacts, AccessFacts
  <2>. QED  BY <1>4, <2>1, <2>3, <2>4 DEF Unlock, In, Staged
<1>5. CASE LockForLoad(a) \/ Throw(a)
  <2>1. In(a, "lock") /\ ~In(a, "idle") /\ mutex' = mutex
        /\ ~LockForStore(a) /\ ~Unlock(a)
      BY <1>5 DEF LockForLoad, Throw, In, LockForStore, Unlock
  <2>2. call'[a].stage \in {"ok", "load", "throw"}
    <3>1. ASSUME NEW st \in {"load", "throw"}, call' = At(a, st)
          PROVE  call'[a].stage = st
      <4>1. call' = [call EXCEPT ![a] = Staged(a, st)]
          BY <2>1, <3>1, AtStage DEF Stages
      <4>. QED  BY <4>1 DEF CallsOK, Staged
    <3>2. ASSUME NEW got, call' = Loaded(a, "ok", got)
          PROVE  call'[a].stage = "ok"
        BY <3>2 DEF Loaded, CallsOK
    <3>. QED  BY <1>5, <3>1, <3>2 DEF LockForLoad, Throw
  <2>. QED  BY <2>1, <2>2 DEF In
<1>6. CASE Load(a)
  <2>1. In(a, "load") /\ mutex' = mutex
      BY <1>6 DEF Load
  <2>2. call'[a].stage \in {"ok", "load"}
      BY <1>6 DEF Load, Loaded, CallsOK
  <2>. QED  BY <2>1, <2>2 DEF In, LockForStore, Unlock
<1>7. CASE Return(a)
  <2>1. call[a].stage \in {"ok", "throw"} /\ mutex' = mutex /\ call'[a] = NoCall
      BY <1>7 DEF Return, CallsOK
  <2>. QED  BY <2>1 DEF In, NoCall, LockForStore, Unlock
<1>. QED  BY <1>1, <1>2, <1>3, <1>4, <1>5, <1>6, <1>7 DEF Step

LEMMA MutexOKStep ==
    ASSUME CallsOK, MutexOK, NEW a \in Actor,
           (\E r \in Access : Call(a, r)) \/ Step(a) \/ Return(a)
    PROVE  MutexOK'
    BY StoringSteps DEF MutexOK

(* Ownership of the mutexes is preserved: only the actor that takes a free *)
(* mutex becomes its owner, and only the owner gives it back.              *)
LEMMA OwnershipStep ==
    ASSUME CallsOK, MutexOK, MutexOwnership, NEW a \in Actor,
           (\E r \in Access : Call(a, r)) \/ Step(a) \/ Return(a)
    PROVE  MutexOwnership'
<1>. SUFFICES ASSUME NEW x \in Actor, NEW b \in Block
              PROVE  mutex'[b] = x <=>
                       In(x, "store")' /\ call'[x].req.blk = b
    BY DEF MutexOwnership
<1>1. mutex[b] = x <=> In(x, "store") /\ call[x].req.blk = b
    BY DEF MutexOwnership
<1>2. NoActor # x
    BY DataTableAssumption
<1>3. x # a => call'[x] = call[x] /\ (In(x, "store")' <=> In(x, "store"))
    BY OthersKeep DEF In
<1>4. CASE LockForStore(a)
  <2>. DEFINE blk == call[a].req.blk
  <2>1. /\ ~In(a, "store") /\ In(a, "store")' /\ call'[a].req = call[a].req
        /\ blk \in Block /\ mutex[blk] = NoActor
        /\ mutex' = [mutex EXCEPT ![blk] = a]
    <3>1. ~Unlock(a)
        BY <1>4 DEF LockForStore, Unlock, In
    <3>. QED  BY <1>4, <3>1, StoringSteps
  <2>2. CASE x = a
      BY <2>1, <2>2, <1>1 DEF MutexOK
  <2>3. CASE x # a
      BY <2>1, <2>3, <1>1, <1>2, <1>3 DEF MutexOK
  <2>. QED  BY <2>2, <2>3
<1>5. CASE Unlock(a)
  <2>. DEFINE blk == call[a].req.blk
  <2>1. /\ In(a, "store") /\ ~In(a, "store")' /\ blk \in Block
        /\ mutex' = [mutex EXCEPT ![blk] = NoActor]
    <3>1. ~LockForStore(a)
        BY <1>5 DEF LockForStore, Unlock, In
    <3>. QED  BY <1>5, <3>1, StoringSteps
  <2>2. mutex[blk] = a
      BY <2>1 DEF MutexOwnership
  <2>3. CASE x = a
      BY <2>1, <2>3, <1>1, <1>2 DEF MutexOK
  <2>4. CASE x # a
      BY <2>1, <2>2, <2>4, <1>1, <1>2, <1>3 DEF MutexOK
  <2>. QED  BY <2>3, <2>4
<1>6. CASE ~LockForStore(a) /\ ~Unlock(a)
  <2>1. /\ In(a, "store")' <=> In(a, "store")
        /\ In(a, "store") => call'[a].req = call[a].req
        /\ mutex' = mutex
      BY <1>6, StoringSteps
  <2>. QED  BY <2>1, <1>1, <1>3
<1>. QED  BY <1>4, <1>5, <1>6

(* The cells a store has passed stay as it left them: its own next cell    *)
(* lies behind them, and another store works on another block.             *)
LEMMA PrefixStep ==
    ASSUME CallsOK, CellsOK, MutexOK, MutexOwnership, StoredPrefix,
           NEW a \in Actor,
           (\E r \in Access : Call(a, r)) \/ Step(a) \/ Return(a)
    PROVE  StoredPrefix'
<1>. SUFFICES ASSUME NEW x \in Actor, In(x, "store")',
                     NEW k \in 1 .. call'[x].pos
              PROVE  cells'[call'[x].req.blk]
                           [Index(call'[x].req.blk, call'[x].req.addr) + k - 1]
                       = call'[x].req.buf[k]
    BY DEF StoredPrefix
<1>1. CASE Store(a)
  <2>. DEFINE r == call[a].req
              n == call[a].pos
              i == Index(r.blk, r.addr) + n
  <2>1. /\ In(a, "store") /\ r \in Access /\ r.blk \in Block
        /\ Writes(r) /\ Valid(r) /\ n \in Nat /\ n < r.cnt /\ r.cnt \in Nat
        /\ call'[a].req = r /\ call'[a].pos = n + 1
      BY <1>1, StoreFacts
  <2>2. cells' = [cells EXCEPT ![r.blk] = [@ EXCEPT ![i] = r.buf[n + 1]]]
      BY <1>1 DEF Store
  <2>3. i \in Cell(r.blk) /\ Index(r.blk, r.addr) \in Int
    <3>1. i \in Cell(r.blk)
        BY <2>1, StoreTyped
    <3>2. r.addr \in Nat /\ Start[r.blk] \in Nat
        BY <2>1, AccessFacts, DataBlockAssumption
    <3>. QED  BY <3>1, <3>2 DEF Index
  <2>4. mutex[r.blk] = a
      BY <2>1 DEF MutexOwnership
  <2>5. CASE x = a
    <3>1. CASE k = n + 1
      <4>1. Index(r.blk, r.addr) + k - 1 = i
          BY <2>1, <2>3, <3>1
      <4>2. cells'[r.blk][i] = r.buf[n + 1]
          BY <2>1, <2>2, <2>3 DEF CellsOK
      <4>. QED  BY <2>1, <2>5, <3>1, <4>1, <4>2
    <3>2. CASE k # n + 1
      <4>1. k \in 1 .. n
          BY <2>1, <2>5, <3>2
      <4>2. cells[r.blk][Index(r.blk, r.addr) + k - 1] = r.buf[k]
          BY <2>1, <4>1 DEF StoredPrefix
      <4>3. Index(r.blk, r.addr) + k - 1 # i /\ k - 1 \in 0 .. r.cnt - 1
          BY <2>1, <2>3, <4>1
      <4>4. Index(r.blk, r.addr) + k - 1 \in Cell(r.blk)
        <5>1. Index(r.blk, r.addr) + (k - 1) \in Cell(r.blk)
            BY <2>1, <4>3, RangeInside
        <5>. QED  BY <2>3, <5>1
      <4>5. cells'[r.blk][Index(r.blk, r.addr) + k - 1] =
              cells[r.blk][Index(r.blk, r.addr) + k - 1]
          BY <2>1, <2>2, <4>3, <4>4 DEF CellsOK
      <4>. QED  BY <2>1, <2>5, <4>2, <4>5
    <3>. QED  BY <3>1, <3>2
  <2>6. CASE x # a
    <3>1. call'[x] = call[x] /\ In(x, "store")
        BY <2>6, OthersKeep DEF In
    <3>2. call[x].req.blk \in Block
        BY <3>1, CallFacts, AccessFacts DEF In
    <3>3. call[x].req.blk # r.blk
        BY <2>4, <2>6, <3>1, <3>2 DEF MutexOwnership
    <3>4. cells'[call[x].req.blk] = cells[call[x].req.blk]
        BY <2>2, <3>2, <3>3 DEF CellsOK
    <3>. QED  BY <3>1, <3>4 DEF StoredPrefix
  <2>. QED  BY <2>5, <2>6
<1>2. CASE LockForStore(a)
  <2>1. cells' = cells
      BY <1>2 DEF LockForStore
  <2>2. CASE x = a
    <3>1. In(a, "lock") /\ ~In(a, "idle") /\ ~Unlock(a)
        BY <1>2 DEF LockForStore, Unlock, In
    <3>2. call'[a].pos = call[a].pos
        BY <1>2, <3>1, StoringSteps
    <3>3. call[a].pos = 0
        BY <3>1, CallFacts DEF Checked, In
    <3>. QED  BY <2>2, <3>2, <3>3
  <2>3. CASE x # a
    <3>1. call'[x] = call[x] /\ In(x, "store")
        BY <2>3, OthersKeep DEF In
    <3>. QED  BY <2>1, <3>1 DEF StoredPrefix
  <2>. QED  BY <2>2, <2>3
<1>3. CASE ~Store(a) /\ ~LockForStore(a)
  <2>1. cells' = cells
      BY <1>3, CellsOKStep
  <2>2. x # a
      BY <1>3, StoringSteps
  <2>3. call'[x] = call[x] /\ In(x, "store")
      BY <2>2, OthersKeep DEF In
  <2>. QED  BY <2>1, <2>3 DEF StoredPrefix
<1>. QED  BY <1>1, <1>2, <1>3

-----------------------------------------------------------------------------
(* The invariant holds at first, and every step preserves it.              *)
LEMMA IInvInit == Init => IInv
<1>. SUFFICES ASSUME Init PROVE IInv
    OBVIOUS
<1>1. CellsOK
    BY DataBlockAssumption DEF Init, CellsOK, Initial
<1>2. MutexOK
    BY DEF Init, MutexOK
<1>3. \A a \in Actor : call[a] = NoCall
    BY DEF Init
<1>4. CallsOK
    BY <1>3 DEF Init, CallsOK, CallOK, Checked, NoCall
<1>5. \A a \in Actor : ~In(a, "store")
    BY <1>3 DEF In, NoCall
<1>6. MutexOwnership
    BY <1>5, DataTableAssumption DEF Init, MutexOwnership
<1>7. StoredPrefix
    BY <1>5 DEF StoredPrefix
<1>. QED  BY <1>1, <1>2, <1>4, <1>6, <1>7, TypeParts DEF IInv

LEMMA IInvStep == IInv /\ [Next]_vars => IInv'
<1>. SUFFICES ASSUME IInv, [Next]_vars PROVE IInv'
    OBVIOUS
<1>1. CallsOK /\ CellsOK /\ MutexOK /\ MutexOwnership /\ StoredPrefix
    BY TypeParts DEF IInv
<1>2. CASE Next
  <2>. PICK a \in Actor : (\E r \in Access : Call(a, r)) \/ Step(a) \/ Return(a)
      BY <1>2 DEF Next
  <2>1. CallsOK'
      BY <1>1, <1>2, CallsOKStep DEF CellsOK
  <2>2. CellsOK'
      BY <1>1, CellsOKStep
  <2>3. MutexOK'
      BY <1>1, MutexOKStep
  <2>4. MutexOwnership'
      BY <1>1, OwnershipStep
  <2>5. StoredPrefix'
      BY <1>1, PrefixStep
  <2>6. (TypeOK /\ \A x \in Actor : Checked(call[x]))'
      BY <2>1, <2>2, <2>3
         DEF TypeOK, CallsOK, CellsOK, MutexOK
  <2>. QED  BY <2>4, <2>5, <2>6 DEF IInv
<1>3. CASE UNCHANGED vars
    BY <1>3 DEF vars, IInv, TypeOK, MutexOwnership, StoredPrefix, In
<1>. QED  BY <1>2, <1>3

(* Every reachable state of a table satisfies the inductive invariant.     *)
THEOREM TableInvariant == Spec => []IInv
    BY IInvInit, IInvStep, PTL DEF Spec

(* Type correctness: containers never change size, whatever the threads    *)
(* ask of the blocks.                                                      *)
THEOREM TableTypes == Spec => []TypeOK
<1>1. IInv => TypeOK
    BY DEF IInv
<1>. QED  BY TableInvariant, <1>1, PTL

(* Mutual exclusion: a thread is in the storing loop of a block exactly    *)
(* while it holds the block's mutex.                                       *)
THEOREM TableMutex == Spec => []MutexOwnership
<1>1. IInv => MutexOwnership
    BY DEF IInv
<1>. QED  BY TableInvariant, <1>1, PTL

(* A store under way is not overwritten behind its back.                   *)
THEOREM TablePrefix == Spec => []StoredPrefix
<1>1. IInv => StoredPrefix
    BY DEF IInv
<1>. QED  BY TableInvariant, <1>1, PTL

(* No index ever leaves a container, in the locked loops and through the   *)
(* unlocked iterators alike.                                               *)
THEOREM TableBounds == Spec => []InBounds
<1>1. IInv => InBounds
  <2>. SUFFICES ASSUME IInv, NEW a \in Actor, call[a].stage \in {"store", "load"}
                PROVE  Span(call[a].req.blk, call[a].req.addr, call[a].req.cnt)
                         \subseteq Cell(call[a].req.blk)
      BY DEF InBounds
  <2>1. ~In(a, "idle") /\ CallsOK
      BY TypeParts DEF In, IInv
  <2>2. call[a].req \in Access /\ Valid(call[a].req)
      BY <2>1, CallFacts DEF Checked
  <2>. QED  BY <2>2, RangeInside
<1>. QED  BY TableInvariant, <1>1, PTL

-----------------------------------------------------------------------------
(* The operators of DataBlock mean the same in both modules.               *)
LEMMA SameOperators ==
    /\ \A r : AT!Valid(r) <=> Valid(r)
    /\ \A r : AT!Writes(r) <=> Writes(r)
    /\ \A r, content : AT!Written(content, r) = Written(content, r)
    /\ \A b : AT!Initial(b) = Initial(b)
<1>1. \A r : AT!Valid(r) <=> Valid(r)
    BY DEF AT!Valid, AT!ValidateSz, AT!ValidateRange, AT!ValidateCount,
           Valid, ValidateSz, ValidateRange, ValidateCount
<1>2. \A r : AT!Writes(r) <=> Writes(r)
    BY DEF AT!Writes, Writes
<1>3. \A r, content : AT!Written(content, r) = Written(content, r)
    BY DEF AT!Written, AT!Overwrite, AT!Span, AT!Index, AT!Cell,
           Written, Overwrite, Span, Index, Cell
<1>4. \A b : AT!Initial(b) = Initial(b)
    BY DEF AT!Initial, AT!Cell, Initial, Cell
<1>. QED  BY <1>1, <1>2, <1>3, <1>4

-----------------------------------------------------------------------------
(* What the atomic table sees of one actor.                                *)
WantOf(c) ==
    IF c.stage = "idle" THEN [phase |-> "idle"]
    ELSE [phase |-> CASE c.stage \in {"lock", "load"} -> "asked"
                      [] c.stage \in {"store", "ok"} -> "done"
                      [] c.stage = "throw" -> "refused",
          req |-> c.req]

LEMMA AbsWantIs ==
    /\ AbsWant = [a \in Actor |-> WantOf(call[a])]
    /\ AbsWant' = [a \in Actor |-> WantOf(call'[a])]
    BY DEF AbsWant, WantOf, In

(* One actor's step changes at most what is seen of that actor.            *)
LEMMA AbsWantStep ==
    ASSUME CallsOK, NEW a \in Actor,
           (\E r \in Access : Call(a, r)) \/ Step(a) \/ Return(a)
    PROVE  AbsWant' = [AbsWant EXCEPT ![a] = WantOf(call'[a])]
<1>1. \A x \in Actor : x # a => WantOf(call'[x]) = WantOf(call[x])
    BY OthersKeep
<1>. QED  BY <1>1, AbsWantIs

(* The atomic view of the containers depends on the mutexes and on the     *)
(* calls of their owners.                                                  *)
LEMMA AbsCellsKept ==
    ASSUME MutexOK, cells' = cells, mutex' = mutex,
           \A b \in Block : mutex[b] # NoActor => call'[mutex[b]].req = call[mutex[b]].req
    PROVE  AbsCells' = AbsCells
    BY DEF AbsCells, MutexOK

(* A step outside the storing loops leaves the atomic view as it is.       *)
LEMMA QuietTableStep ==
    ASSUME CallsOK, CellsOK, MutexOK, MutexOwnership, NEW a \in Actor,
           (\E r \in Access : Call(a, r)) \/ Step(a) \/ Return(a),
           ~In(a, "store"), ~LockForStore(a)
    PROVE  AbsCells' = AbsCells
<1>1. cells' = cells /\ mutex' = mutex
  <2>1. ~Store(a) /\ ~Unlock(a)
      BY DEF Store, Unlock, In
  <2>. QED  BY <2>1, CellsOKStep, StoringSteps
<1>2. ASSUME NEW b \in Block, mutex[b] # NoActor
      PROVE  call'[mutex[b]].req = call[mutex[b]].req
  <2>1. mutex[b] \in Actor
      BY <1>2 DEF MutexOK
  <2>2. In(mutex[b], "store")
      BY <2>1 DEF MutexOwnership
  <2>3. mutex[b] # a
      BY <2>2
  <2>. QED  BY <2>1, <2>3, OthersKeep
<1>. QED  BY <1>1, <1>2, AbsCellsKept

-----------------------------------------------------------------------------
(* A store takes effect, in the atomic view, when it takes the mutex.      *)
LEMMA LockCommits ==
    ASSUME CallsOK, CellsOK, MutexOK, MutexOwnership, NEW a \in Actor,
           LockForStore(a)
    PROVE  AT!Commit(a)
<1>. DEFINE r == call[a].req
<1>1. Step(a)
    BY DEF Step
<1>2. /\ In(a, "lock") /\ ~In(a, "idle") /\ ~In(a, "store")
      /\ Writes(r) /\ Valid(r) /\ cells' = cells
    BY DEF LockForStore, In
<1>3. /\ In(a, "store")' /\ call'[a].req = r /\ r.blk \in Block
      /\ mutex[r.blk] = NoActor /\ mutex' = [mutex EXCEPT ![r.blk] = a]
  <2>1. ~Unlock(a)
      BY <1>2 DEF Unlock, In
  <2>. QED  BY <1>1, <2>1, StoringSteps
<1>4. AbsWant[a] = [phase |-> "asked", req |-> r]
    BY <1>2, AbsWantIs DEF WantOf, In
<1>5. AbsWant' = [AbsWant EXCEPT ![a] = [phase |-> "done", req |-> AbsWant[a].req]]
  <2>1. WantOf(call'[a]) = [phase |-> "done", req |-> r]
      BY <1>3 DEF WantOf, In
  <2>. QED  BY <1>1, <1>4, <2>1, AbsWantStep
<1>6. AbsCells' = [AbsCells EXCEPT ![r.blk] = Written(AbsCells[r.blk], r)]
  <2>1. AbsCells'[r.blk] = Written(cells[r.blk], r)
      BY <1>2, <1>3, DataTableAssumption DEF AbsCells, MutexOK
  <2>2. AbsCells[r.blk] = cells[r.blk]
      BY <1>3 DEF AbsCells
  <2>3. ASSUME NEW b \in Block, b # r.blk
        PROVE  AbsCells'[b] = AbsCells[b]
    <3>1. mutex'[b] = mutex[b]
        BY <1>3, <2>3 DEF MutexOK
    <3>2. CASE mutex[b] = NoActor
        BY <1>2, <3>1, <3>2 DEF AbsCells
    <3>3. CASE mutex[b] # NoActor
      <4>1. mutex[b] \in Actor /\ mutex[b] # a
        <5>1. mutex[b] \in Actor
            BY <3>3 DEF MutexOK
        <5>. QED  BY <5>1, <1>2 DEF MutexOwnership
      <4>2. call'[mutex[b]] = call[mutex[b]]
          BY <1>1, <4>1, OthersKeep
      <4>. QED  BY <1>2, <3>1, <3>3, <4>2 DEF AbsCells
    <3>. QED  BY <3>2, <3>3
  <2>. QED  BY <2>1, <2>2, <2>3 DEF AbsCells
<1>7. AT!Settle(a, "done")
    BY <1>4, <1>5 DEF AT!Settle
<1>8. AbsWant[a].req = r
    BY <1>4
<1>9. AT!Writes(r) /\ AT!Valid(r)
    BY <1>2, SameOperators
<1>10. AbsCells' = [AbsCells EXCEPT ![r.blk] = AT!Written(AbsCells[r.blk], r)]
    BY <1>6, SameOperators
<1>. HIDE DEF r
<1>. QED  BY <1>7, <1>8, <1>9, <1>10 DEF AT!Commit

(* Filling one more cell changes nothing in the atomic view.               *)
LEMMA StoreStutters ==
    ASSUME CallsOK, CellsOK, MutexOK, MutexOwnership, NEW a \in Actor, Store(a)
    PROVE  UNCHANGED << AbsCells, AbsWant >>
<1>. DEFINE r == call[a].req
            n == call[a].pos
            i == Index(r.blk, r.addr) + n
<1>1. Step(a)
    BY DEF Step
<1>2. /\ In(a, "store") /\ r \in Access /\ r.blk \in Block
      /\ Writes(r) /\ Valid(r) /\ n \in Nat /\ n < r.cnt /\ r.cnt \in Nat
      /\ call'[a].stage = "store" /\ call'[a].req = r
    BY StoreFacts
<1>3. /\ cells' = [cells EXCEPT ![r.blk] = [@ EXCEPT ![i] = r.buf[n + 1]]]
      /\ mutex' = mutex
    BY DEF Store
<1>4. mutex[r.blk] = a
    BY <1>2 DEF MutexOwnership
<1>5. Index(r.blk, r.addr) \in Int /\ Len(r.buf) = r.cnt
  <2>1. r.addr \in Nat /\ Start[r.blk] \in Nat
      BY <1>2, AccessFacts, DataBlockAssumption
  <2>. QED  BY <1>2, <2>1, AccessFacts DEF Index
<1>6. Written(cells'[r.blk], r) = Written(cells[r.blk], r)
  <2>. SUFFICES ASSUME NEW c \in Cell(r.blk),
                       ~(c \in Span(r.blk, r.addr, Len(r.buf)))
                PROVE  cells'[r.blk][c] = cells[r.blk][c]
      BY DEF Written, Overwrite
  <2>1. i \in Span(r.blk, r.addr, Len(r.buf))
      BY <1>2, <1>5 DEF Span
  <2>2. c # i
      BY <2>1
  <2>. HIDE DEF i, r, n
  <2>. QED  BY <1>2, <1>3, <2>2 DEF CellsOK
<1>7. ASSUME NEW b \in Block PROVE AbsCells'[b] = AbsCells[b]
  <2>1. CASE b = r.blk
    <3>1. AbsCells[b] = Written(cells[b], r)
        BY <1>4, <2>1, DataTableAssumption DEF AbsCells
    <3>2. AbsCells'[b] = Written(cells'[b], r)
        BY <1>2, <1>3, <1>4, <2>1, DataTableAssumption DEF AbsCells
    <3>. QED  BY <1>6, <2>1, <3>1, <3>2
  <2>2. CASE b # r.blk
    <3>1. cells'[b] = cells[b]
        BY <1>2, <1>3, <2>2 DEF CellsOK
    <3>2. CASE mutex[b] = NoActor
        BY <1>3, <3>1, <3>2 DEF AbsCells
    <3>3. CASE mutex[b] # NoActor
      <4>1. mutex[b] \in Actor
          BY <3>3 DEF MutexOK
      <4>2. mutex[b] # a
          BY <2>2 DEF MutexOwnership
      <4>3. call'[mutex[b]] = call[mutex[b]]
          BY <1>1, <4>1, <4>2, OthersKeep
      <4>. QED  BY <1>3, <3>1, <3>3, <4>3 DEF AbsCells
    <3>. QED  BY <3>2, <3>3
  <2>. QED  BY <2>1, <2>2
<1>8. AbsCells' = AbsCells
    BY <1>7 DEF AbsCells
<1>9. AbsWant' = AbsWant
  <2>1. WantOf(call'[a]) = WantOf(call[a])
      BY <1>2 DEF WantOf, In
  <2>2. \A x \in Actor : WantOf(call'[x]) = WantOf(call[x])
      BY <1>1, <2>1, OthersKeep
  <2>. QED  BY <2>2, AbsWantIs
<1>. QED  BY <1>8, <1>9

(* When the mutex is given back every cell of the buffer is in its place,  *)
(* so the atomic view stays as it is.                                      *)
LEMMA UnlockStutters ==
    ASSUME CallsOK, CellsOK, MutexOK, MutexOwnership, StoredPrefix,
           NEW a \in Actor, Unlock(a)
    PROVE  UNCHANGED << AbsCells, AbsWant >>
<1>. DEFINE r == call[a].req
<1>1. Step(a)
    BY DEF Step
<1>2. /\ In(a, "store") /\ ~In(a, "idle") /\ call[a].pos = r.cnt
      /\ cells' = cells /\ call' = At(a, "ok")
    BY DEF Unlock, In
<1>3. /\ r \in Access /\ r.blk \in Block /\ r.cnt \in Nat /\ r.cnt = Len(r.buf)
      /\ r.addr \in Nat /\ Start[r.blk] \in Nat
    BY <1>2, CallFacts, AccessFacts, DataBlockAssumption DEF Checked, In
<1>4. mutex' = [mutex EXCEPT ![r.blk] = NoActor]
    BY DEF Unlock
<1>5. mutex[r.blk] = a
    BY <1>2, <1>3 DEF MutexOwnership
<1>6. Written(cells[r.blk], r) = cells[r.blk]
  <2>1. ASSUME NEW c \in Cell(r.blk), c \in Span(r.blk, r.addr, Len(r.buf))
        PROVE  r.buf[c - Index(r.blk, r.addr) + 1] = cells[r.blk][c]
    <3>. DEFINE k == c - Index(r.blk, r.addr) + 1
    <3>1. Index(r.blk, r.addr) \in Int
        BY <1>3 DEF Index
    <3>2. c \in Index(r.blk, r.addr) .. Index(r.blk, r.addr) + r.cnt - 1
        BY <1>3, <2>1 DEF Span
    <3>3. k \in 1 .. call[a].pos /\ Index(r.blk, r.addr) + k - 1 = c
      <4>. HIDE DEF r
      <4>. QED  BY <1>2, <1>3, <3>1, <3>2
    <3>. QED  BY <1>2, <3>3 DEF StoredPrefix
  <2>. QED  BY <1>3, <2>1 DEF Written, Overwrite, CellsOK
<1>7. ASSUME NEW b \in Block PROVE AbsCells'[b] = AbsCells[b]
  <2>1. CASE b = r.blk
    <3>1. AbsCells[b] = cells[b]
        BY <1>5, <1>6, <2>1, DataTableAssumption DEF AbsCells
    <3>2. AbsCells'[b] = cells[b]
        BY <1>2, <1>3, <1>4, <2>1 DEF AbsCells, MutexOK
    <3>. QED  BY <3>1, <3>2
  <2>2. CASE b # r.blk
    <3>1. mutex'[b] = mutex[b]
        BY <1>4, <2>2 DEF MutexOK
    <3>2. CASE mutex[b] = NoActor
        BY <1>2, <3>1, <3>2 DEF AbsCells
    <3>3. CASE mutex[b] # NoActor
      <4>1. mutex[b] \in Actor
          BY <3>3 DEF MutexOK
      <4>2. mutex[b] # a
          BY <2>2 DEF MutexOwnership
      <4>3. call'[mutex[b]] = call[mutex[b]]
          BY <1>1, <4>1, <4>2, OthersKeep
      <4>. QED  BY <1>2, <3>1, <3>3, <4>3 DEF AbsCells
    <3>. QED  BY <3>2, <3>3
  <2>. QED  BY <2>1, <2>2
<1>8. AbsCells' = AbsCells
    BY <1>7 DEF AbsCells
<1>9. AbsWant' = AbsWant
  <2>1. call'[a] = Staged(a, "ok")
      BY <1>2, AtStage DEF Stages, CallsOK
  <2>2. WantOf(call'[a]) = WantOf(call[a])
      BY <1>2, <2>1 DEF WantOf, In, Staged
  <2>3. \A x \in Actor : WantOf(call'[x]) = WantOf(call[x])
      BY <1>1, <2>2, OthersKeep
  <2>. QED  BY <2>3, AbsWantIs
<1>. QED  BY <1>8, <1>9

-----------------------------------------------------------------------------
(* The steps that store nothing: the call, the reads, the throw and the    *)
(* return.  At some point each of them is a step of the atomic table.      *)
LEMMA CallAsks ==
    ASSUME CallsOK, CellsOK, MutexOK, MutexOwnership, NEW a \in Actor,
           NEW r \in Access, Call(a, r)
    PROVE  AT!Ask(a, r)
<1>1. In(a, "idle") /\ ~In(a, "store") /\ ~LockForStore(a)
    BY DEF Call, In, LockForStore
<1>2. AbsCells' = AbsCells
    BY <1>1, QuietTableStep
<1>3. WantOf(call[a]) = [phase |-> "idle"]
    BY <1>1 DEF WantOf, In
<1>4. WantOf(call'[a]) = [phase |-> "asked", req |-> r]
    BY DEF Call, CallsOK, WantOf
<1>5. AbsWant[a].phase = "idle"
    BY <1>3, AbsWantIs
<1>6. AbsWant' = [AbsWant EXCEPT ![a] = [phase |-> "asked", req |-> r]]
    BY <1>4, AbsWantStep
<1>. QED  BY <1>2, <1>5, <1>6 DEF AT!Ask

(* A reading call that has come to its end has been answered; one that has *)
(* not is as it was.                                                       *)
LEMMA ReadAnswers ==
    ASSUME CallsOK, CellsOK, MutexOK, MutexOwnership, NEW a \in Actor,
           LockForLoad(a) \/ Load(a)
    PROVE  AT!Answer(a) \/ UNCHANGED << AbsCells, AbsWant >>
<1>. DEFINE r == call[a].req
<1>1. Step(a) /\ ~In(a, "store") /\ ~LockForStore(a)
    BY DEF Step, LockForLoad, Load, In, LockForStore
<1>2. AbsCells' = AbsCells
    BY <1>1, QuietTableStep
<1>3. call[a].stage \in {"lock", "load"} /\ ~In(a, "idle") /\ ~Writes(r) /\ Valid(r)
  <2>1. call[a].stage \in {"lock", "load"} /\ ~In(a, "idle")
      BY DEF LockForLoad, Load, In
  <2>2. In(a, "load") => ~Writes(r) /\ Valid(r)
      BY <2>1, CallFacts DEF Checked, In
  <2>. QED  BY <2>1, <2>2 DEF LockForLoad, Load
<1>4. WantOf(call[a]) = [phase |-> "asked", req |-> r]
    BY <1>3 DEF WantOf, In
<1>5. call'[a].stage \in {"load", "ok"} /\ call'[a].req = r
  <2>1. ASSUME call' = At(a, "load")
        PROVE  call'[a].stage = "load" /\ call'[a].req = r
    <3>1. call' = [call EXCEPT ![a] = Staged(a, "load")]
        BY <1>3, <2>1, AtStage DEF Stages
    <3>. QED  BY <3>1 DEF CallsOK, Staged
  <2>2. ASSUME NEW st \in {"load", "ok"}, NEW got, call' = Loaded(a, st, got)
        PROVE  call'[a].stage = st /\ call'[a].req = r
      BY <2>2 DEF Loaded, CallsOK
  <2>. QED  BY <2>1, <2>2 DEF LockForLoad, Load
<1>6. CASE call'[a].stage = "load"
  <2>1. WantOf(call'[a]) = WantOf(call[a])
      BY <1>4, <1>5, <1>6 DEF WantOf
  <2>2. \A x \in Actor : WantOf(call'[x]) = WantOf(call[x])
      BY <1>1, <2>1, OthersKeep
  <2>. QED  BY <1>2, <2>2, AbsWantIs
<1>7. CASE call'[a].stage = "ok"
  <2>1. WantOf(call'[a]) = [phase |-> "done", req |-> r]
      BY <1>5, <1>7 DEF WantOf
  <2>2. AbsWant[a] = [phase |-> "asked", req |-> r]
      BY <1>4, AbsWantIs
  <2>3. AbsWant' = [AbsWant EXCEPT ![a] = [phase |-> "done", req |-> AbsWant[a].req]]
      BY <1>1, <2>1, <2>2, AbsWantStep
  <2>4. AT!Settle(a, "done")
      BY <2>2, <2>3 DEF AT!Settle
  <2>5. AbsWant[a].req = r
      BY <2>2
  <2>6. ~AT!Writes(r) /\ AT!Valid(r)
      BY <1>3, SameOperators
  <2>. HIDE DEF r
  <2>. QED  BY <1>2, <2>4, <2>5, <2>6 DEF AT!Answer
<1>. QED  BY <1>5, <1>6, <1>7

LEMMA ThrowRefuses ==
    ASSUME CallsOK, CellsOK, MutexOK, MutexOwnership, NEW a \in Actor, Throw(a)
    PROVE  AT!Refuse(a)
<1>. DEFINE r == call[a].req
<1>1. /\ Step(a) /\ In(a, "lock") /\ ~In(a, "idle") /\ ~In(a, "store")
      /\ ~LockForStore(a) /\ ~Valid(r) /\ call' = At(a, "throw")
    BY DEF Step, Throw, In, LockForStore
<1>2. AbsCells' = AbsCells
    BY <1>1, QuietTableStep
<1>3. call'[a] = Staged(a, "throw")
    BY <1>1, AtStage DEF Stages, CallsOK
<1>4. WantOf(call'[a]) = [phase |-> "refused", req |-> r]
    BY <1>3 DEF WantOf, Staged
<1>5. AbsWant[a] = [phase |-> "asked", req |-> r]
    BY <1>1, AbsWantIs DEF WantOf, In
<1>6. AbsWant' = [AbsWant EXCEPT ![a] = [phase |-> "refused", req |-> AbsWant[a].req]]
    BY <1>1, <1>4, <1>5, AbsWantStep
<1>7. AT!Settle(a, "refused")
    BY <1>5, <1>6 DEF AT!Settle
<1>8. AbsWant[a].req = r /\ ~AT!Valid(r)
    BY <1>1, <1>5, SameOperators
<1>. HIDE DEF r
<1>. QED  BY <1>2, <1>7, <1>8 DEF AT!Refuse

LEMMA ReturnFinishes ==
    ASSUME CallsOK, CellsOK, MutexOK, MutexOwnership, NEW a \in Actor, Return(a)
    PROVE  AT!Finish(a)
<1>1. /\ call[a].stage \in {"ok", "throw"} /\ ~In(a, "store") /\ ~LockForStore(a)
      /\ call'[a] = NoCall
    BY DEF Return, In, LockForStore, CallsOK
<1>2. AbsCells' = AbsCells
    BY <1>1, QuietTableStep
<1>3. WantOf(call'[a]) = [phase |-> "idle"]
    BY <1>1 DEF WantOf, NoCall
<1>4. AbsWant[a].phase \in {"done", "refused"}
    BY <1>1, AbsWantIs DEF WantOf
<1>5. AbsWant' = [AbsWant EXCEPT ![a] = [phase |-> "idle"]]
    BY <1>3, AbsWantStep
<1>. QED  BY <1>2, <1>4, <1>5 DEF AT!Finish, AT!Nothing

-----------------------------------------------------------------------------
(* The table implements its atomic specification: whatever the threads     *)
(* interleave, a storing call of modbus::block::sequential is one write of *)
(* its whole buffer, and a refused or reading call is none.                *)
THEOREM TableIsAtomic == Spec => AtomicSpec
<1>1. Init => AT!Init
  <2>. SUFFICES ASSUME Init PROVE AT!Init
      OBVIOUS
  <2>1. AbsCells = [b \in Block |-> AT!Initial(b)]
      BY SameOperators DEF Init, AbsCells
  <2>2. AbsWant = [a \in Actor |-> AT!Nothing]
      BY DEF Init, AbsWant, In, NoCall, AT!Nothing
  <2>. QED  BY <2>1, <2>2 DEF AT!Init
<1>2. IInv /\ [Next]_vars => [AT!Next]_(AT!vars)
  <2>. SUFFICES ASSUME IInv, [Next]_vars PROVE [AT!Next]_(AT!vars)
      OBVIOUS
  <2>1. CallsOK /\ CellsOK /\ MutexOK /\ MutexOwnership /\ StoredPrefix
      BY TypeParts DEF IInv
  <2>2. CASE Next
    <3>. PICK a \in Actor : (\E r \in Access : Call(a, r)) \/ Step(a) \/ Return(a)
        BY <2>2 DEF Next
    <3>1. CASE \E r \in Access : Call(a, r)
        BY <2>1, <3>1, CallAsks DEF AT!Next
    <3>2. CASE LockForStore(a)
        BY <2>1, <3>2, LockCommits DEF AT!Next
    <3>3. CASE Store(a)
        BY <2>1, <3>3, StoreStutters DEF AT!vars
    <3>4. CASE Unlock(a)
        BY <2>1, <3>4, UnlockStutters DEF AT!vars
    <3>5. CASE LockForLoad(a) \/ Load(a)
        BY <2>1, <3>5, ReadAnswers DEF AT!Next, AT!vars
    <3>6. CASE Throw(a)
        BY <2>1, <3>6, ThrowRefuses DEF AT!Next
    <3>7. CASE Return(a)
        BY <2>1, <3>7, ReturnFinishes DEF AT!Next
    <3>. QED  BY <3>1, <3>2, <3>3, <3>4, <3>5, <3>6, <3>7 DEF Step
  <2>3. CASE UNCHANGED vars
      BY <2>3 DEF vars, AT!vars, AbsCells, AbsWant, In
  <2>. QED  BY <2>2, <2>3
<1>. QED  BY <1>1, <1>2, TableInvariant, PTL DEF Spec, AtomicSpec, AT!Spec

-----------------------------------------------------------------------------
(* What is read after the mutex was released.                              *)
Blk(a) == call[a].req.blk
Nth(a, k) == Index(call[a].req.blk, call[a].req.addr) + k - 1

(* The slice of a call that reads lies in its block.                       *)
LEMMA SliceInside ==
    ASSUME CallsOK, NEW a \in Actor, Reading(a)
    PROVE  /\ call[a].req \in Access /\ call[a].req.cnt \in Nat /\ Blk(a) \in Block
           /\ Len(call[a].got) \in 0 .. call[a].req.cnt
           /\ \A k \in 1 .. call[a].req.cnt : Nth(a, k) \in Cell(Blk(a))
<1>1. ~In(a, "idle")
    BY DEF Reading, In
<1>2. /\ call[a].req \in Access /\ call[a].req.cnt \in Nat /\ Blk(a) \in Block
      /\ Len(call[a].got) \in Nat /\ Len(call[a].got) <= call[a].req.cnt
      /\ Valid(call[a].req)
    BY <1>1, CallFacts, AccessFacts, LenProperties DEF Reading, Checked, Blk
<1>3. ASSUME NEW k \in 1 .. call[a].req.cnt
      PROVE  Nth(a, k) \in Cell(Blk(a))
  <2>1. k - 1 \in 0 .. call[a].req.cnt - 1
      BY <1>2
  <2>2. Index(call[a].req.blk, call[a].req.addr) + (k - 1) \in Cell(Blk(a))
      BY <1>2, <2>1, RangeInside DEF Blk
  <2>3. call[a].req.addr \in Nat /\ Start[Blk(a)] \in Nat
      BY <1>2, AccessFacts, DataBlockAssumption
  <2>. QED  BY <2>2, <2>3 DEF Nth, Index, Blk
<1>. QED  BY <1>2, <1>3

(* A cell that a store has just filled holds what the atomic table has     *)
(* held there since the store took the mutex.                              *)
LEMMA FilledAsSeen ==
    ASSUME CallsOK, CellsOK, MutexOK, MutexOwnership, NEW a \in Actor, Store(a),
           NEW b \in Block, NEW c \in Cell(b), cells'[b][c] # cells[b][c]
    PROVE  cells'[b][c] = AbsCells'[b][c]
<1>. DEFINE r == call[a].req
            n == call[a].pos
            i == Index(r.blk, r.addr) + n
<1>1. /\ In(a, "store") /\ r \in Access /\ r.blk \in Block
      /\ Writes(r) /\ Valid(r) /\ n \in Nat /\ n < r.cnt /\ r.cnt \in Nat
      /\ call'[a].stage = "store" /\ call'[a].req = r
    BY StoreFacts
<1>2. /\ cells' = [cells EXCEPT ![r.blk] = [@ EXCEPT ![i] = r.buf[n + 1]]]
      /\ mutex' = mutex
    BY DEF Store
<1>3. mutex[r.blk] = a
    BY <1>1 DEF MutexOwnership
<1>4. Index(r.blk, r.addr) \in Int /\ Len(r.buf) = r.cnt
  <2>1. r.addr \in Nat /\ Start[r.blk] \in Nat
      BY <1>1, AccessFacts, DataBlockAssumption
  <2>. QED  BY <1>1, <2>1, AccessFacts DEF Index
<1>5. i \in Cell(r.blk)
    BY <1>1, StoreTyped
<1>6. b = r.blk /\ c = i
  <2>. HIDE DEF i, r, n
  <2>. QED  BY <1>1, <1>2, <1>5 DEF CellsOK
<1>7. cells'[b][c] = r.buf[n + 1]
  <2>. HIDE DEF i, r, n
  <2>. QED  BY <1>1, <1>2, <1>5, <1>6 DEF CellsOK
<1>8. AbsCells'[b] = Written(cells'[b], r)
    BY <1>1, <1>2, <1>3, <1>6, DataTableAssumption DEF AbsCells
<1>9. i \in Span(r.blk, r.addr, Len(r.buf)) /\ i - Index(r.blk, r.addr) + 1 = n + 1
  <2>1. i - Index(r.blk, r.addr) = n
      BY <1>1, <1>4
  <2>. QED  BY <1>1, <1>4, <2>1 DEF Span
<1>10. Written(cells'[b], r)[c] = r.buf[n + 1]
  <2>. HIDE DEF i, r, n
  <2>. QED  BY <1>5, <1>6, <1>9 DEF Written, Overwrite
<1>. QED  BY <1>7, <1>8, <1>10

(* How a call that reads got there: it has just released the mutex, or it  *)
(* has read one more cell.                                                 *)
Opens(a) ==
    /\ ~Reading(a) /\ cells' = cells /\ mutex' = mutex
    /\ mutex[Blk(a)] = NoActor /\ call'[a].req = call[a].req
    /\ \/ Len(call'[a].got) = 0
       \/ Len(call'[a].got) = 1 /\ call'[a].got[1] = cells[Blk(a)][Nth(a, 1)]
ReadsOn(a) ==
    /\ Reading(a) /\ cells' = cells /\ mutex' = mutex
    /\ call'[a].req = call[a].req /\ Len(call[a].got) < call[a].req.cnt
    /\ call'[a].got = Append(call[a].got, cells[Blk(a)][Nth(a, Len(call[a].got) + 1)])

LEMMA ReadingSteps ==
    ASSUME CallsOK, NEW a \in Actor,
           (\E r \in Access : Call(a, r)) \/ Step(a) \/ Return(a), Reading(a)'
    PROVE  Opens(a) \/ ReadsOn(a)
<1>. DEFINE r == call[a].req
<1>1. call'[a].stage \in {"load", "ok"} /\ ~Writes(call'[a].req)
    BY DEF Reading
<1>2. ~(\E q \in Access : Call(a, q)) /\ ~Return(a)
    BY <1>1 DEF Call, Return, NoCall, CallsOK
<1>3. ASSUME LockForStore(a) \/ Store(a) \/ Unlock(a) \/ Throw(a)
      PROVE  FALSE
  <2>1. CASE Store(a)
      BY <1>1, <2>1, StoreFacts
  <2>2. CASE LockForStore(a) \/ Throw(a)
    <3>1. ~In(a, "idle")
        BY <2>2 DEF LockForStore, Throw, In
    <3>2. call'[a].stage \in {"store", "throw"}
      <4>1. \A st \in Stages : call' = At(a, st) => call'[a] = Staged(a, st)
          BY <3>1, AtStage DEF CallsOK
      <4>. QED  BY <2>2, <4>1 DEF LockForStore, Throw, Stages, Staged
    <3>. QED  BY <1>1, <3>2
  <2>3. CASE Unlock(a)
    <3>1. In(a, "store") /\ ~In(a, "idle") /\ call' = At(a, "ok")
        BY <2>3 DEF Unlock, In
    <3>2. Writes(r)
        BY <3>1, CallFacts DEF Checked, In
    <3>3. call'[a].req = r
      <4>1. call'[a] = Staged(a, "ok")
          BY <3>1, AtStage DEF CallsOK, Stages
      <4>. QED  BY <4>1 DEF Staged
    <3>. QED  BY <1>1, <3>2, <3>3
  <2>. QED  BY <1>3, <2>1, <2>2, <2>3
<1>4. CASE LockForLoad(a)
  <2>1. /\ In(a, "lock") /\ ~In(a, "idle") /\ mutex[r.blk] = NoActor
        /\ cells' = cells /\ mutex' = mutex
      BY <1>4 DEF LockForLoad, In, Free
  <2>2. ~Reading(a)
      BY <2>1 DEF Reading, In
  <2>3. CASE r.op = "at" /\ r.blk \in BitBlock
    <3>1. call' = Loaded(a, "ok", << cells[r.blk][Index(r.blk, r.addr)] >>)
        BY <1>4, <2>3 DEF LockForLoad
    <3>2. /\ call'[a].req = r
          /\ call'[a].got = << cells[r.blk][Index(r.blk, r.addr)] >>
        BY <3>1 DEF Loaded, CallsOK
    <3>3. Nth(a, 1) = Index(r.blk, r.addr)
      <4>1. r.addr \in Nat /\ Start[r.blk] \in Nat
          BY <2>1, CallFacts, AccessFacts, DataBlockAssumption
      <4>. QED  BY <4>1 DEF Nth, Index
    <3>. QED  BY <2>1, <2>2, <3>2, <3>3 DEF Opens, Blk
  <2>4. CASE ~(r.op = "at" /\ r.blk \in BitBlock)
    <3>1. call' = At(a, "load")
        BY <1>4, <2>4 DEF LockForLoad
    <3>2. call'[a] = Staged(a, "load") /\ Len(call[a].got) = 0
        BY <2>1, <3>1, AtStage, CallFacts DEF CallsOK, Stages, Checked, In
    <3>. QED  BY <2>1, <2>2, <3>2 DEF Opens, Blk, Staged
  <2>. QED  BY <2>3, <2>4
<1>5. CASE Load(a)
  <2>1. In(a, "load") /\ ~In(a, "idle") /\ cells' = cells /\ mutex' = mutex
      BY <1>5 DEF Load, In
  <2>2. ~Writes(r) /\ Valid(r) /\ Len(call[a].got) < r.cnt
      BY <2>1, CallFacts DEF Checked, In
  <2>3. PICK st : call' = Loaded(a, st,
            Append(call[a].got, cells[r.blk][Index(r.blk, r.addr) + Len(call[a].got)]))
      BY <1>5 DEF Load
  <2>4. /\ call'[a].req = r
        /\ call'[a].got =
             Append(call[a].got, cells[r.blk][Index(r.blk, r.addr) + Len(call[a].got)])
      BY <2>3 DEF Loaded, CallsOK
  <2>5. Nth(a, Len(call[a].got) + 1) = Index(r.blk, r.addr) + Len(call[a].got)
    <3>1. /\ r.addr \in Nat /\ Start[r.blk] \in Nat /\ Len(call[a].got) \in Nat
        BY <2>1, CallFacts, AccessFacts, DataBlockAssumption, LenProperties
    <3>. QED  BY <3>1 DEF Nth, Index
  <2>. QED  BY <2>1, <2>2, <2>4, <2>5 DEF ReadsOn, Reading, Blk, In
<1>. QED  BY <1>2, <1>3, <1>4, <1>5 DEF Step

(* What the history adds in a step: whatever the atomic table then holds.  *)
LEMMA Observed ==
    ASSUME Observe, NEW a \in Actor, Reading(a)'
    PROVE  /\ Reading(a) => DOMAIN seen'[a] = DOMAIN seen[a]
           /\ ~Reading(a) => DOMAIN seen'[a] = 1 .. call'[a].req.cnt
           /\ \A k \in 1 .. call'[a].req.cnt :
                (Reading(a) => k \in DOMAIN seen[a]) =>
                    /\ AbsCells'[Blk(a)'][Nth(a, k)'] \in seen'[a][k]
                    /\ Reading(a) => seen[a][k] \subseteq seen'[a][k]
<1>1. CASE ~Reading(a)
  <2>1. seen'[a] = Now(a)'
      BY <1>1 DEF Observe
  <2>. QED  BY <1>1, <2>1 DEF Now, Blk, Nth
<1>2. CASE Reading(a)
  <2>1. seen'[a] = [k \in DOMAIN seen[a] |-> seen[a][k] \cup Now(a)'[k]]
      BY <1>2 DEF Observe
  <2>2. \A k \in 1 .. call'[a].req.cnt : Now(a)'[k] = {AbsCells'[Blk(a)'][Nth(a, k)']}
      BY DEF Now, Blk, Nth
  <2>. QED  BY <1>2, <2>1, <2>2
<1>. QED  BY <1>1, <1>2

(* The history of a call that reads, in a step that leaves its slice.      *)
LEMMA SeenKept ==
    ASSUME CallsOK, CellsOK, MutexOK, MutexOwnership, SeenCurrent, Observe,
           NEW x \in Actor, (\E r \in Access : Call(x, r)) \/ Step(x) \/ Return(x),
           NEW a \in Actor, Reading(a), Reading(a)', call'[a].req = call[a].req
    PROVE  /\ DOMAIN seen'[a] = 1 .. call'[a].req.cnt
           /\ \A k \in 1 .. call'[a].req.cnt :
                /\ seen[a][k] \subseteq seen'[a][k]
                /\ AbsCells'[Blk(a)'][Nth(a, k)'] \in seen'[a][k]
                /\ cells'[Blk(a)'][Nth(a, k)'] \in seen'[a][k]
<1>1. Blk(a)' = Blk(a) /\ \A k : Nth(a, k)' = Nth(a, k)
    BY DEF Blk, Nth
<1>2. DOMAIN seen[a] = 1 .. call[a].req.cnt
    BY DEF SeenCurrent
<1>3. ASSUME NEW k \in 1 .. call[a].req.cnt
      PROVE  /\ seen[a][k] \subseteq seen'[a][k]
             /\ AbsCells'[Blk(a)'][Nth(a, k)'] \in seen'[a][k]
    BY <1>2, Observed
<1>4. ASSUME NEW k \in 1 .. call[a].req.cnt
      PROVE  cells'[Blk(a)][Nth(a, k)] \in seen'[a][k]
  <2>1. Blk(a) \in Block /\ Nth(a, k) \in Cell(Blk(a))
      BY SliceInside
  <2>2. CASE cells'[Blk(a)][Nth(a, k)] = cells[Blk(a)][Nth(a, k)]
    <3>1. cells[Blk(a)][Nth(a, k)] \in seen[a][k]
        BY DEF SeenCurrent, Blk, Nth
    <3>. QED  BY <1>3, <2>2, <3>1
  <2>3. CASE cells'[Blk(a)][Nth(a, k)] # cells[Blk(a)][Nth(a, k)]
    <3>1. Store(x)
        BY <2>3, CellsOKStep
    <3>2. cells'[Blk(a)][Nth(a, k)] = AbsCells'[Blk(a)][Nth(a, k)]
        BY <2>1, <2>3, <3>1, FilledAsSeen
    <3>. QED  BY <1>1, <1>3, <3>2
  <2>. QED  BY <2>2, <2>3
<1>. QED  BY <1>1, <1>2, <1>3, <1>4, Observed

(* What a call that reads has seen, in every step.                         *)
LEMMA HistoryStep ==
    ASSUME CallsOK, CellsOK, MutexOK, MutexOwnership, SeenCurrent, RegularRead,
           Observe, CallsOK',
           NEW x \in Actor, (\E r \in Access : Call(x, r)) \/ Step(x) \/ Return(x),
           NEW a \in Actor, Reading(a)'
    PROVE  /\ DOMAIN seen'[a] = 1 .. call'[a].req.cnt
           /\ \A k \in 1 .. call'[a].req.cnt :
                /\ AbsCells'[Blk(a)'][Nth(a, k)'] \in seen'[a][k]
                /\ cells'[Blk(a)'][Nth(a, k)'] \in seen'[a][k]
           /\ \A k \in 1 .. Len(call'[a].got) : call'[a].got[k] \in seen'[a][k]
<1>1. CASE a # x
  <2>1. call'[a] = call[a]
      BY <1>1, OthersKeep
  <2>2. Reading(a)
      BY <2>1 DEF Reading
  <2>3. ASSUME NEW k \in 1 .. Len(call'[a].got)
        PROVE  call'[a].got[k] \in seen'[a][k]
    <3>1. k \in 1 .. call'[a].req.cnt
        BY <2>1, <2>2, SliceInside
    <3>2. call[a].got[k] \in seen[a][k]
        BY <2>1, <2>2 DEF RegularRead
    <3>. QED  BY <2>1, <2>2, <3>1, <3>2, SeenKept
  <2>. QED  BY <2>1, <2>2, <2>3, SeenKept
<1>2. CASE a = x /\ Opens(a)
  <2>1. Blk(a)' = Blk(a) /\ (\A k : Nth(a, k)' = Nth(a, k)) /\ ~Reading(a)
      BY <1>2 DEF Opens, Blk, Nth
  <2>2. AbsCells'[Blk(a)] = cells'[Blk(a)]
    <3>1. Blk(a) \in Block /\ mutex'[Blk(a)] = NoActor
      <4>1. ~In(a, "idle")'
          BY DEF Reading, In
      <4>2. call'[a].req \in Access
          BY <4>1 DEF CallsOK, CallOK, NoCall, In
      <4>3. call'[a].req.blk \in Block
          BY <4>2, AccessFacts
      <4>. QED  BY <1>2, <4>3 DEF Opens, Blk
    <3>. QED  BY <3>1 DEF AbsCells
  <2>3. DOMAIN seen'[a] = 1 .. call'[a].req.cnt
    BY <2>1, Observed
  <2>4. ASSUME NEW k \in 1 .. call'[a].req.cnt
        PROVE  /\ AbsCells'[Blk(a)'][Nth(a, k)'] \in seen'[a][k]
               /\ cells'[Blk(a)'][Nth(a, k)'] \in seen'[a][k]
      BY <2>1, <2>2, Observed
  <2>5. ASSUME NEW k \in 1 .. Len(call'[a].got)
        PROVE  call'[a].got[k] \in seen'[a][k]
    <3>1. k = 1 /\ Len(call'[a].got) = 1 /\ call'[a].got[1] = cells'[Blk(a)][Nth(a, 1)]
      <4>1. \/ Len(call'[a].got) = 0
            \/ Len(call'[a].got) = 1 /\ call'[a].got[1] = cells[Blk(a)][Nth(a, 1)]
          BY <1>2 DEF Opens
      <4>2. Len(call'[a].got) = 1 /\ k = 1
        <5>1. PICK n : n = Len(call'[a].got)
            OBVIOUS
        <5>2. n \in {0, 1} /\ k \in 1 .. n
            BY <4>1, <5>1
        <5>3. n # 0
          <6>1. n = 0 => k \in 1 .. 0
              BY <5>2
          <6>. QED  BY <6>1
        <5>4. n = 1 /\ k \in 1 .. 1
            BY <5>2, <5>3
        <5>5. k = 1
            BY <5>4
        <5>. QED  BY <5>1, <5>4, <5>5
      <4>3. cells' = cells
          BY <1>2 DEF Opens
      <4>. QED  BY <4>1, <4>2, <4>3
    <3>2. 1 \in 1 .. call'[a].req.cnt
      <4>1. ~In(a, "idle")'
          BY DEF Reading, In
      <4>2. /\ Len(call'[a].got) <= call'[a].req.cnt /\ call'[a].req \in Access
          BY <4>1 DEF CallsOK, CallOK, NoCall, In
      <4>3. call'[a].req.cnt \in Nat
          BY <4>2, AccessFacts
      <4>. QED  BY <3>1, <4>2, <4>3
    <3>. QED  BY <2>1, <2>4, <3>1, <3>2
  <2>. QED  BY <2>3, <2>4, <2>5
<1>3. CASE a = x /\ ReadsOn(a)
  <2>. DEFINE got == call[a].got
              e == cells[Blk(a)][Nth(a, Len(got) + 1)]
  <2>1. /\ Reading(a) /\ call'[a].req = call[a].req /\ call'[a].got = Append(got, e)
        /\ Len(got) + 1 \in 1 .. call[a].req.cnt /\ cells' = cells
      BY <1>3, SliceInside DEF ReadsOn
  <2>2. got \in Seq(Value[Blk(a)])
      BY <2>1, CallFacts DEF Reading, In, Blk
  <2>3. ASSUME NEW k \in 1 .. Len(call'[a].got)
        PROVE  call'[a].got[k] \in seen'[a][k]
    <3>1. Len(call'[a].got) = Len(got) + 1
      <4>. HIDE DEF got, e
      <4>. QED  BY <2>1, <2>2, AppendProperties
    <3>2. k \in 1 .. call[a].req.cnt /\ Len(got) \in Nat
      <4>1. Len(got) \in Nat /\ call[a].req.cnt \in Nat
          BY <2>1, SliceInside
      <4>2. k \in 1 .. Len(got) + 1
          BY <3>1
      <4>. HIDE DEF got, e
      <4>. QED  BY <2>1, <4>1, <4>2
    <3>3. CASE k = Len(got) + 1
      <4>1. call'[a].got[k] = e
        <5>. HIDE DEF got, e
        <5>. QED  BY <2>1, <2>2, <3>3, AppendProperties
      <4>2. e \in seen[a][k]
          BY <2>1, <3>2, <3>3 DEF SeenCurrent, Blk, Nth
      <4>. QED  BY <2>1, <3>2, <4>1, <4>2, SeenKept
    <3>4. CASE k \in 1 .. Len(got)
      <4>1. call'[a].got[k] = got[k]
        <5>. HIDE DEF got, e
        <5>. QED  BY <2>1, <2>2, <3>4, AppendProperties
      <4>2. got[k] \in seen[a][k]
          BY <2>1, <3>4 DEF RegularRead
      <4>. QED  BY <2>1, <3>2, <4>1, <4>2, SeenKept
    <3>. QED  BY <3>1, <3>2, <3>3, <3>4
  <2>. QED  BY <2>1, <2>3, SeenKept
<1>. QED  BY <1>1, <1>2, <1>3, ReadingSteps

LEMMA HistoryInvariantStep ==
    ASSUME HIInv, [Next /\ Observe]_histvars
    PROVE  HIInv'
<1>1. CallsOK /\ CellsOK /\ MutexOK /\ MutexOwnership
    BY TypeParts DEF HIInv, IInv
<1>2. [Next]_vars
    BY DEF histvars, vars
<1>3. IInv'
    BY <1>2, IInvStep DEF HIInv
<1>4. CASE Next /\ Observe
  <2>. PICK x \in Actor : (\E r \in Access : Call(x, r)) \/ Step(x) \/ Return(x)
      BY <1>4 DEF Next
  <2>1. CallsOK'
      BY <1>1, <1>4, CallsOKStep DEF CellsOK
  <2>2. ASSUME NEW a \in Actor, Reading(a)'
        PROVE  /\ DOMAIN seen'[a] = 1 .. call'[a].req.cnt
               /\ \A k \in 1 .. call'[a].req.cnt :
                    /\ AbsCells'[Blk(a)'][Nth(a, k)'] \in seen'[a][k]
                    /\ cells'[Blk(a)'][Nth(a, k)'] \in seen'[a][k]
               /\ \A k \in 1 .. Len(call'[a].got) : call'[a].got[k] \in seen'[a][k]
      BY <1>1, <1>4, <2>1, <2>2, HistoryStep DEF HIInv
  <2>3. SeenCurrent'
      BY <2>2 DEF SeenCurrent, Blk, Nth
  <2>4. RegularRead'
      BY <2>2 DEF RegularRead
  <2>. QED  BY <1>3, <2>3, <2>4 DEF HIInv
<1>5. CASE UNCHANGED histvars
  <2>1. cells' = cells /\ mutex' = mutex /\ call' = call /\ seen' = seen
      BY <1>5 DEF histvars
  <2>2. AbsCells' = AbsCells
      BY <2>1 DEF AbsCells
  <2>3. \A a : Reading(a)' <=> Reading(a)
      BY <2>1 DEF Reading
  <2>4. SeenCurrent' /\ RegularRead'
      BY <2>1, <2>2, <2>3 DEF HIInv, SeenCurrent, RegularRead
  <2>. QED  BY <1>3, <2>4 DEF HIInv
<1>. QED  BY <1>4, <1>5

(* The invariant of the history: what a cell of a slice holds, in the      *)
(* container and in the atomic table, has been seen.                       *)
THEOREM HistoryInvariant == HSpec => []HIInv
<1>1. HInit => HIInv
  <2>1. ASSUME HInit PROVE IInv /\ \A a \in Actor : ~Reading(a)
      BY <2>1, IInvInit DEF HInit, Init, Reading, NoCall
  <2>. QED  BY <2>1 DEF HIInv, SeenCurrent, RegularRead
<1>2. HIInv /\ [Next /\ Observe]_histvars => HIInv'
    BY HistoryInvariantStep
<1>. QED  BY <1>1, <1>2, PTL DEF HSpec

(* A get is regular, cell by cell, though it reads after its mutex was     *)
(* released and nobody makes the stores wait for it.                       *)
THEOREM ReadsAreRegular == HSpec => []RegularRead
<1>1. HIInv => RegularRead
    BY DEF HIInv
<1>. QED  BY <1>1, HistoryInvariant, PTL
=============================================================================
