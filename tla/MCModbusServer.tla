--------------------------- MODULE MCModbusServer ---------------------------
(* Two sessions on two io threads and an application thread, on a table of *)
(* two holding registers, two coils and one cell of each read-only block.  *)
EXTENDS ModbusServer, TLC

CONSTANTS s1, s2, app

MCBlock == {coils, discrete_inputs, holding_registers, input_registers}
MCBitBlock == {coils, discrete_inputs}
PerBlock(c, d, h, i) ==
    (coils :> c) @@ (discrete_inputs :> d)
        @@ (holding_registers :> h) @@ (input_registers :> i)
MCStart == PerBlock(0, 0, 1, 0)
MCCapacity == PerBlock(2, 1, 2, 1)
Coil == {off, on}
Register == SUBSET {0, 1}
MCValue == PerBlock(Coil, Coil, Register, Register)
MCDefault == PerBlock(off, off, {}, {})
MCReadLimit == PerBlock(2, 2, 2, 2)
MCWriteLimit == PerBlock(2, 2, 2, 2)

MCTwoThreads == (s1 :> 1) @@ (s2 :> 2)
MCOneThread == (s1 :> 1) @@ (s2 :> 1)

\* Refused packets: no function byte, unknown functions inside and outside
\* check_function, a bad coil value, a bad byte count, bad ranges.
Refused ==
    {ReadPacket(-1, 0, 0), ReadPacket(7, 0, 0), ReadPacket(100, 0, 0),
     WritePacket(write_single_coil, 0, 1, << {1} >>, 0),
     WritePacket(write_multiple_registers, 1, 2, << {0}, {0} >>, 2),
     ReadPacket(read_coils, 0, 0), ReadPacket(read_holding_registers, 1, 3),
     ReadWritePacket(2, 2, 1, 1, << {0} >>, 2),
     ReadWritePacket(1, 1, 2, 2, << {0}, {0} >>, 4)}

Reads ==
    {ReadPacket(read_coils, 0, 2), ReadPacket(read_discrete_inputs, 0, 1),
     ReadPacket(read_holding_registers, 1, 2),
     ReadPacket(read_input_registers, 0, 1)}

Writers ==
    {WritePacket(write_single_coil, 1, 1, << on >>, 0),
     WritePacket(write_single_coil, 1, 1, << off >>, 0),
     WritePacket(write_multiple_coils, 0, 2, << on >>, 1),
     WritePacket(write_single_register, 1, 1, << {0} >>, 0),
     WritePacket(write_multiple_registers, 1, 2, << {0, 1}, {1} >>, 4),
     WritePacket(mask_write_register, 2, 1, << {1}, {0} >>, 0),
     ReadWritePacket(1, 2, 2, 1, << {0} >>, 2)}

MCPacket == Refused \cup Reads \cup Writers
MCAppAccess ==
    {SetCall(input_registers, 0, << {0} >>), ResetCall(holding_registers)}
MCRefAccess ==
    {SetCall(holding_registers, 2, << {1} >>), SetCall(holding_registers, 3, << {1} >>)}
AccessOf(packets) ==
    MCAppAccess \cup
    UNION {{TableCall(p, k, << w >>) : k \in 1 .. Calls(p), w \in Value[BlockOf(p.fn)]} :
           p \in {q \in packets : q.fn # -1 /\ Verdict(q) = 0}}
MCAccess == AccessOf(MCPacket)
=============================================================================
