--------------------------- MODULE MCSerialServer ---------------------------
(* The instance of MCModbusServer, both sessions on one io thread.         *)
EXTENDS SerialServer, MCModbusServer
=============================================================================
