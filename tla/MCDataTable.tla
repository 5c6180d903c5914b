---------------------------- MODULE MCDataTable ----------------------------
(* Small tables for DataTable: one register block and one coil block that  *)
(* do not start at address 0, and every kind of call on them, valid and    *)
(* invalid, with ranges that touch and pass both ends.                     *)
EXTENDS DataTable, TLC

CONSTANTS coils, holding, a1, a2

MCBlock == {coils, holding}
MCBitBlock == {coils}
MCStart == (coils :> 1) @@ (holding :> 1)
MCCapacity == (coils :> 2) @@ (holding :> 2)
MCReadLimit == (coils :> 2) @@ (holding :> 2)
MCValue == (coils :> 0 .. 1) @@ (holding :> 0 .. 1)
MCDefault == (coils :> 0) @@ (holding :> 0)

MCAccess ==
    {SetCall(holding, addr, << 1, 1 >>) : addr \in {1, 2}}
        \cup {SetCall(holding, 0, << 1 >>), SetCall(holding, 1, << >>)}
        \cup {SliceCall(holding, 1, n) : n \in 0 .. 3}
        \cup {AtCall(holding, addr) : addr \in {2, 3}}
        \cup {SetCall(coils, 2, << 1 >>), SetCall(coils, 1, << 1, 1 >>),
              SliceCall(coils, 1, 2), AtCall(coils, 2), AtCall(coils, 0)}
        \cup {ResetCall(b) : b \in Block}
=============================================================================
