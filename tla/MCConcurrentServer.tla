------------------------- MODULE MCConcurrentServer -------------------------
(* The table of MCModbusServer, and every kind of request but the mask.    *)
EXTENDS ConcurrentServer, MCModbusServer

BlindPacket ==
    {ReadWritePacket(2, 2, 1, 1, << {0} >>, 2), ReadPacket(read_coils, 0, 2),
     WritePacket(write_single_coil, 1, 1, << on >>, 0),
     WritePacket(write_multiple_coils, 0, 2, << on >>, 1),
     WritePacket(write_multiple_registers, 1, 2, << {0, 1}, {1} >>, 4),
     ReadWritePacket(1, 2, 2, 1, << {0} >>, 2)}
BlindAccess == AccessOf(BlindPacket)

\* The application resets the registers, and stores through references.
BlindAppAccess == {ResetCall(holding_registers)}
BlindRefAccess ==
    {SetCall(holding_registers, 1, << {0} >>), SetCall(holding_registers, 2, << {1} >>),
     SetCall(holding_registers, 3, << {1} >>)}
=============================================================================
