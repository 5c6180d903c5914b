----------------------------- MODULE ModbusDefs -----------------------------
(***************************************************************************)
(* The numbers of the protocol as constants.hpp gives them: function       *)
(* codes, exception codes, and the two tests made on a received byte.      *)
(***************************************************************************)
EXTENDS Integers

read_coils == 1
read_discrete_inputs == 2
read_holding_registers == 3
read_input_registers == 4
write_single_coil == 5
write_single_register == 6
write_multiple_coils == 15
write_multiple_registers == 16
mask_write_register == 22
read_write_multiple_registers == 23

(* The functions request_handler::handle has a case for.                   *)
ReadFunction ==
    {read_coils, read_discrete_inputs, read_holding_registers,
     read_input_registers, read_write_multiple_registers}
WriteFunction ==
    {write_single_coil, write_single_register, write_multiple_coils,
     write_multiple_registers, mask_write_register,
     read_write_multiple_registers}
Supported == ReadFunction \cup WriteFunction

illegal_function == 1
illegal_data_address == 2
server_device_failure == 4

(* check_function of a byte: strictly between the two helper codes min and *)
(* max, so it also holds of codes no function has.                         *)
CheckFunction(byte) == 0 < byte /\ byte < 44

(* adu::decode_header leaves function_ at min, 0, for any other byte.      *)
DecodedFunction(byte) == IF CheckFunction(byte) THEN byte ELSE 0

(* An error reply without the 0x80.                                        *)
BareErrorFunction(byte) == DecodedFunction(byte)

(* response::error::encode answers with the function code plus 0x80.       *)
ErrorFunction(byte) == (DecodedFunction(byte) + 128) % 256
=============================================================================
