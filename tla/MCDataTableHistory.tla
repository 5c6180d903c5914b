------------------------- MODULE MCDataTableHistory -------------------------
(* One register block under three threads: stores that overlap one         *)
(* another, a reset, and readers of all of it and of its middle.           *)
EXTENDS DataTableHistory, TLC

CONSTANTS holding, a1, a2, a3

MCBlock == {holding}
MCStart == holding :> 1
MCCapacity == holding :> 3
MCReadLimit == holding :> 3
MCValue == holding :> 0 .. 2
MCDefault == holding :> 0
MCAccess ==
    {SetCall(holding, 1, << 1, 1 >>), SetCall(holding, 2, << 2, 2 >>),
     ResetCall(holding), SliceCall(holding, 1, 3), AtCall(holding, 2)}

Threads == Permutations(Actor)
=============================================================================
