----------------------------- MODULE DataTable -----------------------------
(***************************************************************************)
(* The data table as its threads run it (modbus::block::sequential): every *)
(* call takes the block's mutex, validates, and either throws or goes on.  *)
(* A set or a reset stores cell by cell and holds the mutex until its last *)
(* cell is stored.  A get holds the mutex only while it validates: what it *)
(* returns (two iterators, or a reference to a register) is read later,    *)
(* cell by cell, with no lock, while another thread may be storing.        *)
(***************************************************************************)
EXTENDS DataBlock

CONSTANTS
    Actor,      \* the threads of control that use the table
    NoActor,    \* "nobody holds the mutex"
    Access      \* the calls an actor may make

ASSUME DataTableAssumption ==
    /\ NoActor \notin Actor
    /\ \A r \in Access : WellFormed(r)

VARIABLES
    cells,      \* container_ of each block
    mutex,      \* who holds mutex_ of each block
    call        \* the call each actor is in, and how far it got

vars == << cells, mutex, call >>

NoCall == [stage |-> "idle"]
Stages == {"lock", "store", "load", "ok", "throw"}

Init ==
    /\ cells = [b \in Block |-> Initial(b)]
    /\ mutex = [b \in Block |-> NoActor]
    /\ call = [a \in Actor |-> NoCall]

-----------------------------------------------------------------------------
In(a, stage) == call[a].stage = stage
Free(a) == mutex[call[a].req.blk] = NoActor
At(a, stage) == [call EXCEPT ![a].stage = stage]
Loaded(a, stage, got) ==
    [call EXCEPT ![a] =
        [stage |-> stage, req |-> call[a].req, got |-> got, pos |-> 0]]

(* The caller enters set, reset or one of the gets.                        *)
Call(a, r) ==
    /\ In(a, "idle")
    /\ call' = [call EXCEPT ![a] =
                  [stage |-> "lock", req |-> r, got |-> << >>, pos |-> 0]]
    /\ UNCHANGED << cells, mutex >>

(* A store that does not wait for the mutex.                               *)
LockForStoreAnyway(a) ==
    /\ In(a, "lock")
    /\ LET r == call[a].req IN
         /\ Writes(r) /\ Valid(r)
         /\ mutex' = [mutex EXCEPT ![r.blk] = a]
    /\ call' = At(a, "store")
    /\ UNCHANGED cells

(* A store that locks, then calls another locking member.                  *)
LockForStoreTwice(a) ==
    /\ In(a, "lock") /\ Free(a)
    /\ LET r == call[a].req IN
         /\ Writes(r) /\ Valid(r)
         /\ mutex' = [mutex EXCEPT ![r.blk] = a]
    /\ UNCHANGED << cells, call >>

(* set and reset: the mutex is taken, and kept.                            *)
LockForStore(a) ==
    /\ In(a, "lock") /\ Free(a)
    /\ LET r == call[a].req IN
         /\ Writes(r) /\ Valid(r)
         /\ mutex' = [mutex EXCEPT ![r.blk] = a]
    /\ call' = At(a, "store")
    /\ UNCHANGED cells

(* One iteration of the loop of std::transform or std::fill.               *)
Store(a) ==
    /\ In(a, "store")
    /\ LET r == call[a].req
           n == call[a].pos
       IN /\ n < r.cnt
          /\ cells' = [cells EXCEPT ![r.blk][Index(r.blk, r.addr) + n] =
                         r.buf[n + 1]]
          /\ call' = [call EXCEPT ![a].pos = n + 1]
    /\ UNCHANGED mutex

(* A mutex unlocked one cell too soon, or not at all.                      *)
UnlockTooSoon(a) ==
    /\ In(a, "store") /\ call[a].pos + 1 >= call[a].req.cnt
    /\ mutex' = [mutex EXCEPT ![call[a].req.blk] = NoActor]
    /\ call' = At(a, "ok")
    /\ UNCHANGED cells
UnlockForgotten(a) ==
    /\ In(a, "store") /\ call[a].pos = call[a].req.cnt
    /\ call' = At(a, "ok")
    /\ UNCHANGED << cells, mutex >>

(* The loop is over: the lock_guard releases the mutex.                    *)
Unlock(a) ==
    /\ In(a, "store") /\ call[a].pos = call[a].req.cnt
    /\ mutex' = [mutex EXCEPT ![call[a].req.blk] = NoActor]
    /\ call' = At(a, "ok")
    /\ UNCHANGED cells

(* A get that does not wait for the mutex.                                 *)
LockForLoadAnyway(a) ==
    /\ In(a, "lock")
    /\ ~Writes(call[a].req) /\ Valid(call[a].req)
    /\ call' = At(a, "load")
    /\ UNCHANGED << cells, mutex >>

(* Both gets lock, validate and unlock: nothing another actor could see    *)
(* happens in between, so it is one step.  A single bit is copied under    *)
(* the mutex, everything else is read after it.                            *)
LockForLoad(a) ==
    /\ In(a, "lock") /\ Free(a)
    /\ LET r == call[a].req IN
         /\ ~Writes(r) /\ Valid(r)
         /\ call' =
              IF r.op = "at" /\ r.blk \in BitBlock
              THEN Loaded(a, "ok", << cells[r.blk][Index(r.blk, r.addr)] >>)
              ELSE At(a, "load")
    /\ UNCHANGED << cells, mutex >>

(* An iteration that stops before the end iterator.                        *)
LoadShort(a) ==
    /\ In(a, "load")
    /\ LET r == call[a].req
           n == Len(call[a].got)
       IN call' = Loaded(a, IF n + 2 >= r.cnt THEN "ok" ELSE "load",
                    Append(call[a].got, cells[r.blk][Index(r.blk, r.addr) + n]))
    /\ UNCHANGED << cells, mutex >>

(* The caller reads the next cell through its iterator or reference.       *)
Load(a) ==
    /\ In(a, "load")
    /\ LET r == call[a].req
           n == Len(call[a].got)
       IN call' = Loaded(a, IF n + 1 = r.cnt THEN "ok" ELSE "load",
                    Append(call[a].got, cells[r.blk][Index(r.blk, r.addr) + n]))
    /\ UNCHANGED << cells, mutex >>

(* A throw that leaves the mutex locked.                                   *)
ThrowLocked(a) ==
    /\ In(a, "lock") /\ Free(a)
    /\ ~Valid(call[a].req)
    /\ mutex' = [mutex EXCEPT ![call[a].req.blk] = a]
    /\ call' = At(a, "throw")
    /\ UNCHANGED cells

(* An invalid range: out_of_range, and the lock_guard unwinds.             *)
Throw(a) ==
    /\ In(a, "lock") /\ Free(a)
    /\ ~Valid(call[a].req)
    /\ call' = At(a, "throw")
    /\ UNCHANGED << cells, mutex >>

Return(a) ==
    /\ call[a].stage \in {"ok", "throw"}
    /\ call' = [call EXCEPT ![a] = NoCall]
    /\ UNCHANGED << cells, mutex >>

(* The steps a call takes by itself once it was made.                      *)
Step(a) ==
    \/ LockForStore(a) \/ Store(a) \/ Unlock(a)
    \/ LockForLoad(a) \/ Load(a)
    \/ Throw(a)

Next ==
    \E a \in Actor :
        \/ \E r \in Access : Call(a, r)
        \/ Step(a)
        \/ Return(a)

Spec == Init /\ [][Next]_vars

(* A running thread is scheduled again and again; nothing is assumed of    *)
(* the order in which the mutex is granted.                                *)
FairSpec == Spec /\ \A a \in Actor : WF_vars(Step(a))
-----------------------------------------------------------------------------
(* The state is well typed: containers keep their size, the mutex belongs  *)
(* to an actor or to nobody, and a call never gets ahead of its range.     *)
CallOK(c) ==
    \/ c = NoCall
    \/ /\ c \in [stage : Stages, req : Access,
                 got : Seq(Value[c.req.blk]), pos : Nat]
       /\ Len(c.got) <= c.req.cnt
       /\ c.pos <= c.req.cnt

TypeOK ==
    /\ \A b \in Block : cells[b] \in [Cell(b) -> Value[b]]
    /\ DOMAIN cells = Block
    /\ mutex \in [Block -> Actor \cup {NoActor}]
    /\ DOMAIN call = Actor
    /\ \A a \in Actor : CallOK(call[a])

(* Mutual exclusion, per block: an actor is inside the storing loop of a   *)
(* block exactly while it holds that block's mutex, so two stores to one   *)
(* block never overlap and no path leaves a mutex held.                    *)
MutexOwnership ==
    \A a \in Actor, b \in Block :
        mutex[b] = a <=> In(a, "store") /\ call[a].req.blk = b

(* Once a call is past its check, every cell it will index is inside the   *)
(* container: neither the storing loop nor the unlocked iterators and      *)
(* references ever leave it.                                               *)
InBounds ==
    \A a \in Actor :
        call[a].stage \in {"store", "load"} =>
            LET r == call[a].req IN Span(r.blk, r.addr, r.cnt) \subseteq Cell(r.blk)

(* While a call stores, the cells it has passed hold its buffer: nobody    *)
(* else writes behind it.                                                  *)
StoredPrefix ==
    \A a \in Actor :
        In(a, "store") =>
            LET r == call[a].req IN
            \A k \in 1 .. call[a].pos :
                cells[r.blk][Index(r.blk, r.addr) + k - 1] = r.buf[k]

(* The inductive invariant of the safety properties: with them, a call     *)
(* only gets past its check if the check holds, and only a call that       *)
(* writes stores.                                                          *)
Checked(c) ==
    /\ c.stage = "lock" => c.pos = 0
    /\ c.stage \in {"lock", "store"} => Len(c.got) = 0
    /\ c.stage = "store" => Writes(c.req) /\ Valid(c.req)
    /\ c.stage = "load" =>
         ~Writes(c.req) /\ Valid(c.req) /\ Len(c.got) < c.req.cnt
    /\ c.stage = "ok" =>
         Valid(c.req) /\ Len(c.got) = IF Writes(c.req) THEN 0 ELSE c.req.cnt
    /\ c.stage = "throw" => ~Valid(c.req)

IInv ==
    /\ TypeOK
    /\ \A a \in Actor : Checked(call[a])
    /\ MutexOwnership
    /\ StoredPrefix

(* A mutex that was taken is released again, by a return or by a throw,    *)
(* whatever the other threads do.                                          *)
MutexReleased ==
    \A b \in Block : mutex[b] # NoActor ~> mutex[b] = NoActor

(* No call is stuck for good: if from some time on nobody makes a new      *)
(* call, every call under way comes to its end.  (std::shared_mutex grants *)
(* no order, so while others keep calling one thread may starve.)          *)
NewCall == \E a \in Actor : In(a, "idle") /\ ~In(a, "idle")'
CallsEnd ==
    <>[][~NewCall]_vars =>
        \A a \in Actor :
            call[a].stage \in {"lock", "store", "load"} ~>
                call[a].stage \in {"ok", "throw"}

-----------------------------------------------------------------------------
(* The table as AtomicTable sees it: a store that has begun has already    *)
(* happened, and the cells still to be written count as written.           *)
AbsCells ==
    [b \in Block |->
        IF mutex[b] = NoActor THEN cells[b]
        ELSE Written(cells[b], call[mutex[b]].req)]

AbsWant ==
    [a \in Actor |->
        IF In(a, "idle") THEN [phase |-> "idle"]
        ELSE [phase |-> CASE call[a].stage \in {"lock", "load"} -> "asked"
                          [] call[a].stage \in {"store", "ok"} -> "done"
                          [] call[a].stage = "throw" -> "refused",
              req |-> call[a].req]]

AT == INSTANCE AtomicTable WITH table <- AbsCells, want <- AbsWant

(* Every call of the table takes effect at one instant, or not at all.     *)
AtomicSpec == AT!Spec
=============================================================================
