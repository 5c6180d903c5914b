---------------------------- MODULE AtomicTable ----------------------------
(***************************************************************************)
(* What a data table promises the threads that share it, whatever its      *)
(* implementation does with locks and loops: a writing call stores its     *)
(* whole buffer at one instant between the call and the return, at most    *)
(* once and only if its range is valid; a refused call and a reading call  *)
(* leave the table as it is.                                               *)
(***************************************************************************)
EXTENDS DataBlock

CONSTANTS Actor, Access

VARIABLES
    table,      \* what each block holds
    want        \* what each actor has asked for, and how far it got

vars == << table, want >>

Nothing == [phase |-> "idle"]

Init ==
    /\ table = [b \in Block |-> Initial(b)]
    /\ want = [a \in Actor |-> Nothing]

Ask(a, r) ==
    /\ want[a].phase = "idle"
    /\ want' = [want EXCEPT ![a] = [phase |-> "asked", req |-> r]]
    /\ UNCHANGED table

Settle(a, phase) ==
    /\ want[a].phase = "asked"
    /\ want' = [want EXCEPT ![a] = [phase |-> phase, req |-> want[a].req]]

Commit(a) ==
    /\ Settle(a, "done")
    /\ LET r == want[a].req IN
         /\ Writes(r) /\ Valid(r)
         /\ table' = [table EXCEPT ![r.blk] = Written(table[r.blk], r)]

Answer(a) ==
    /\ Settle(a, "done")
    /\ ~Writes(want[a].req) /\ Valid(want[a].req)
    /\ UNCHANGED table

Refuse(a) ==
    /\ Settle(a, "refused")
    /\ ~Valid(want[a].req)
    /\ UNCHANGED table

Finish(a) ==
    /\ want[a].phase \in {"done", "refused"}
    /\ want' = [want EXCEPT ![a] = Nothing]
    /\ UNCHANGED table

Next ==
    \E a \in Actor :
        \/ \E r \in Access : Ask(a, r)
        \/ Commit(a) \/ Answer(a) \/ Refuse(a) \/ Finish(a)

Spec == Init /\ [][Next]_vars
=============================================================================
