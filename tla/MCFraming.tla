----------------------------- MODULE MCFraming -----------------------------
(* Two coils from address 0 and a register at address 5, so that the bytes *)
(* of a frame may be taken for a function, an address or a length.         *)
EXTENDS Framing, TLC

MCBlock == {coils, discrete_inputs, holding_registers, input_registers}
MCBitBlock == {coils, discrete_inputs}
PerBlock(c, d, h, i) ==
    (coils :> c) @@ (discrete_inputs :> d)
        @@ (holding_registers :> h) @@ (input_registers :> i)
MCStart == PerBlock(0, 0, 5, 0)
MCCapacity == PerBlock(2, 2, 1, 1)
MCValue == PerBlock({off, on}, {off, on}, SUBSET (0 .. 15), SUBSET (0 .. 15))
MCDefault == PerBlock(on, on, {}, {})
MCReadLimit == PerBlock(2000, 2000, 125, 125)
MCWriteLimit == PerBlock(1968, 1968, 123, 123)

FrameReads ==
    {ReadPacket(read_coils, 0, 2), ReadPacket(read_holding_registers, 5, 1)}
FrameWrites ==
    {WritePacket(write_single_coil, 1, 1, << off >>, 0),
     WritePacket(write_multiple_coils, 0, 1, << off >>, 1),
     WritePacket(write_multiple_registers, 5, 1, << {0} >>, 2),
     WritePacket(mask_write_register, 5, 1, << {0, 1}, {0} >>, 0),
     ReadWritePacket(5, 1, 5, 1, << {8} >>, 2)}
MCPacket == FrameReads \cup FrameWrites
=============================================================================
