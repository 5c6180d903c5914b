-------------------------- MODULE DataTableHistory --------------------------
(***************************************************************************)
(* DataTable with a history variable, to say what a get may return though  *)
(* its cells are read after its mutex is released: seen[a][k] collects the *)
(* values the k-th cell of a's slice has had, in the atomic view of the    *)
(* table, since a held the mutex.                                          *)
(***************************************************************************)
EXTENDS DataTable

VARIABLE seen

histvars == << cells, mutex, call, seen >>

Reading(a) ==
    call[a].stage \in {"load", "ok"} /\ ~Writes(call[a].req)

(* What the cells of a's slice hold in the atomic view.                    *)
Now(a) ==
    LET r == call[a].req
    IN [k \in 1 .. r.cnt |-> {AbsCells[r.blk][Index(r.blk, r.addr) + k - 1]}]

HInit == Init /\ seen = [a \in Actor |-> << >>]

Observe ==
    seen' = [a \in Actor |->
        IF ~Reading(a)' THEN << >>
        ELSE IF ~Reading(a) THEN Now(a)'
        ELSE [k \in DOMAIN seen[a] |-> seen[a][k] \cup Now(a)'[k]]]

HSpec == HInit /\ [][Next /\ Observe]_histvars

(* A get is regular, cell by cell: a value it returns is one the cell had  *)
(* between the instant its mutex was held and the last read, never one     *)
(* that a store complete before the call had replaced, nor one of a store  *)
(* that came later.                                                        *)
RegularRead ==
    \A a \in Actor :
        Reading(a) =>
            \A k \in 1 .. Len(call[a].got) : call[a].got[k] \in seen[a][k]

(* The inductive invariant: what a cell of the slice holds now has been    *)
(* seen, in the container, which a store may be about to overwrite, and in *)
(* the atomic view, where that store has happened already.                 *)
SeenCurrent ==
    \A a \in Actor :
        Reading(a) =>
            LET r == call[a].req IN
            /\ DOMAIN seen[a] = 1 .. r.cnt
            /\ \A k \in 1 .. r.cnt :
                 LET i == Index(r.blk, r.addr) + k - 1
                 IN {cells[r.blk][i], AbsCells[r.blk][i]} \subseteq seen[a][k]

HIInv == IInv /\ SeenCurrent /\ RegularRead
=============================================================================
