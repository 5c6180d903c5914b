------------------------------ MODULE Framing ------------------------------
(***************************************************************************)
(* One connection, byte by byte.  The client writes frames to a stream;    *)
(* TCP hands the server any part of it at a time, and on_receive takes     *)
(* each part for one whole packet: what the decoders find past its end is  *)
(* whatever lies in memory, and what they do not look at is lost.  When    *)
(* the connection breaks the rest of the stream is gone, and the client    *)
(* sends its last request again (bind_connect).                            *)
(***************************************************************************)
EXTENDS RequestEffect, Bits, SequencesExt

CONSTANTS
    MaxUnread,      \* bound: requests sent and not received in full
    Junk            \* bytes that may lie behind a packet

(* The words of a register, the numbers of a 16-bit field.                 *)
Register == SUBSET (0 .. 15)
Number == 0 .. 2 ^ 16 - 1

(* What encode makes a frame of: fields that fit, as many values as the    *)
(* request counts, and no more registers than its byte count can tell.     *)
Encodable(p) ==
    /\ {p.addr, p.cnt, p.waddr, p.wcnt} \subseteq Number
    /\ p.bytes \in 0 .. 255
    /\ p.vals \in Seq(Register)
    /\ \/ /\ p.fn \in ReadFunction \ WriteFunction
          /\ p = ReadPacket(p.fn, p.addr, p.cnt)
       \/ /\ p.fn \in {write_single_coil, write_single_register, mask_write_register}
          /\ p = WritePacket(p.fn, p.waddr, 1, p.vals, 0)
          /\ Len(p.vals) = IF p.fn = mask_write_register THEN 2 ELSE 1
          /\ p.fn = write_single_coil => p.vals[1] \in {off, on}
       \/ /\ p.fn = write_multiple_coils
          /\ p = WritePacket(p.fn, p.waddr, Len(p.vals), p.vals, p.bytes)
          /\ p.vals \in Seq({off, on})
       \/ /\ p.fn = write_multiple_registers
          /\ p = WritePacket(p.fn, p.waddr, Len(p.vals), p.vals, 2 * Len(p.vals))
       \/ p = ReadWritePacket(p.addr, p.cnt, p.waddr, Len(p.vals), p.vals,
                              2 * Len(p.vals))

ASSUME FramingAssumption ==
    /\ MaxUnread \in Nat \ {0}
    /\ Junk # {} /\ Junk \subseteq 0 .. 255
    /\ \A p \in Packet : Encodable(p)
    /\ {coils, holding_registers} \subseteq Block
    /\ Value[coils] = {off, on} /\ Value[holding_registers] = Register

VARIABLES
    table,          \* what each block holds
    unread,         \* the requests whose frames are not received in full
    offset,         \* the bytes of the first of them that are received
    current,        \* the request the client sent last
    done            \* the request of the last chunk, if it was a whole frame

vars == << table, unread, offset, current, done >>

NoRequest == [fn |-> -1]

-----------------------------------------------------------------------------
(* encode of each request.                                                 *)
Pair(n) == << n \div 256, n % 256 >>
Registers(vals) ==
    [j \in 1 .. 2 * Len(vals) |->
        Pair(NumberOf(vals[(j + 1) \div 2]))[1 + ((j - 1) % 2)]]
Coils(vals) ==
    LET packet == PackedBits(vals, Len(vals))
    IN [j \in DOMAIN packet |-> NumberOf(packet[j])]

Pdu(p) ==
    CASE p.fn = write_single_coil ->
            Pair(p.waddr) \o (IF p.vals[1] = on THEN << 255, 0 >> ELSE << 0, 0 >>)
      [] p.fn \in {write_single_register, mask_write_register} ->
            Pair(p.waddr) \o Registers(p.vals)
      [] p.fn = write_multiple_coils ->
            Pair(p.waddr) \o Pair(p.wcnt) \o << p.bytes >> \o Coils(p.vals)
      [] p.fn = write_multiple_registers ->
            Pair(p.waddr) \o Pair(p.wcnt) \o << p.bytes >> \o Registers(p.vals)
      [] p.fn = read_write_multiple_registers ->
            Pair(p.addr) \o Pair(p.cnt) \o Pair(p.waddr) \o Pair(p.wcnt)
                \o << p.bytes >> \o Registers(p.vals)
      [] OTHER -> Pair(p.addr) \o Pair(p.cnt)

(* header_packet: transaction, protocol, length, unit, function.           *)
Frame(p) ==
    << 0, 0, 0, 0 >> \o Pair(Len(Pdu(p)) + 2) \o << 0, p.fn >> \o Pdu(p)

-----------------------------------------------------------------------------
(* decode of each request, on a packet that may end too soon.  A byte past *)
(* the end is one of Junk, by the parity of its place, so that the two     *)
(* halves of a word may differ.                                            *)
header_length == 7
Byte(packet, junk, i) == IF i < Len(packet) THEN packet[i + 1] ELSE junk[i % 2]
Word(packet, junk, i) == 256 * Byte(packet, junk, i) + Byte(packet, junk, i + 1)

(* The coils of everything that follows, whatever the byte count says.     *)
CoilsFrom(packet, i) ==
    UnpackedBits([j \in 1 .. Len(packet) - i |-> BitsOf(packet[i + j], 8)])

RegistersFrom(packet, junk, i, bytes) ==
    [k \in 1 .. (bytes + 1) \div 2 |->
        BitsOf(Word(packet, junk, i + 2 * (k - 1)), 16)]

CoilValue(n) == IF n = 0 THEN off ELSE IF n = 65280 THEN on ELSE {1}

Decoded(packet, junk) ==
    LET w(i) == Word(packet, junk, i)
        reg(i) == BitsOf(w(i), 16)
        bytes(i) == Byte(packet, junk, i)
        fn == packet[header_length + 1]
    IN CASE fn = write_single_coil ->
              WritePacket(fn, w(8), 1, << CoilValue(w(10)) >>, 0)
         [] fn = write_single_register ->
              WritePacket(fn, w(8), 1, << reg(10) >>, 0)
         [] fn = mask_write_register ->
              WritePacket(fn, w(8), 1, << reg(10), reg(12) >>, 0)
         [] fn = write_multiple_coils ->
              WritePacket(fn, w(8), w(10), CoilsFrom(packet, 13), bytes(12))
         [] fn = write_multiple_registers ->
              WritePacket(fn, w(8), w(10),
                          RegistersFrom(packet, junk, 13, bytes(12)), bytes(12))
         [] fn = read_write_multiple_registers ->
              ReadWritePacket(w(8), w(10), w(12), w(14),
                              RegistersFrom(packet, junk, 17, bytes(16)), bytes(16))
         [] OTHER -> ReadPacket(fn, w(8), w(10))

(* The requests a packet may be taken for.                                 *)
Readings(packet) == {Decoded(packet, junk) : junk \in [0 .. 1 -> Junk]}

-----------------------------------------------------------------------------
Init ==
    /\ table = InitialTable
    /\ unread = << >> /\ offset = 0
    /\ current = NoRequest /\ done = NoRequest

Frames == [p \in Packet |-> Frame(p)]
Stream(requests) == FlattenSeq([i \in DOMAIN requests |-> Frames[requests[i]]])
Rest == SubSeq(Stream(unread), offset + 1, Len(Stream(unread)))

Send(p) ==
    /\ Len(unread) < MaxUnread
    /\ unread' = Append(unread, p)
    /\ current' = p
    /\ UNCHANGED << table, offset, done >>

(* The frames that end within the first n bytes of the stream.             *)
Ended(n) ==
    Max({i \in 0 .. Len(unread) : Len(Stream(SubSeq(unread, 1, i))) <= offset + n})
Consume(n) ==
    /\ unread' = SubSeq(unread, Ended(n) + 1, Len(unread))
    /\ offset' = offset + n - Len(Stream(SubSeq(unread, 1, Ended(n))))

(* The next chunk starts with a frame and has all of it.                   *)
Whole(n) == offset = 0 /\ Ended(n) > 0

(* on_receive with the next n bytes: they are handled as one request.      *)
Receive(n) ==
    /\ IF n <= header_length THEN UNCHANGED << table, done >>
       ELSE \E p \in Readings(SubSeq(Rest, 1, n)) :
              /\ table' = TableAfter(table, p)
              /\ done' = IF Whole(n) THEN Head(unread) ELSE NoRequest
    /\ Consume(n)
    /\ UNCHANGED current

Reconnect ==
    /\ current # NoRequest
    /\ unread' = << current >> /\ offset' = 0
    /\ UNCHANGED << table, current, done >>

Next ==
    \/ \E p \in Packet : Send(p)
    \/ \E n \in 1 .. Len(Rest) : Receive(n)
    \/ Reconnect

Spec == Init /\ [][Next]_vars

-----------------------------------------------------------------------------
(* Whatever bytes arrive, cut wherever, the table keeps its shape and its  *)
(* cells their types: no reading of a chunk gets past the checks of decode *)
(* and execute with a value or a range a block cannot hold.                *)
TypeOK ==
    /\ DOMAIN table = Block
    /\ \A b \in Block : table[b] \in [Cell(b) -> Value[b]]
    /\ Len(unread) <= MaxUnread
    /\ offset = 0 \/ offset < Len(Frames[Head(unread)])

(* The same with what makes it inductive: what is unread are requests, the *)
(* offset lies within the first of them, and the request of the last chunk *)
(* would not change the table if it were carried out again.                *)
IInv ==
    /\ TypeOK
    /\ unread \in Seq(Packet) /\ offset \in Nat
    /\ unread = << >> => offset = 0
    /\ current \in Packet \cup {NoRequest}
    /\ done # NoRequest => TableAfter(table, done) = table

(* The bytes the step takes from the stream, and a step that is on_receive *)
(* with a chunk that begins at the beginning of a frame.                   *)
Taken == Len(Rest) - Len(Rest')
AtFrame == offset = 0 /\ Taken > 0 /\ Receive(Taken)

(* A chunk that begins with a whole frame is handled as the request its    *)
(* sender meant, whatever follows it in the chunk and whatever came before *)
(* (a fragment, a lost connection): the decoders give back what encode was *)
(* given, and the server finds its way back by itself.                     *)
WholeFrameHandled ==
    [][AtFrame /\ Whole(Taken) => table' = TableAfter(table, Head(unread))]_vars

(* A request that is sent again after a reconnect, and is handled twice    *)
(* with nothing in between, changes nothing the second time.               *)
DuplicateHarmless ==
    [][AtFrame /\ Whole(Taken) /\ done = Head(unread) => table' = table]_vars

(* The first piece of a split frame may be carried out with fields nobody  *)
(* sent, but only on the block its function writes; that of a read changes *)
(* nothing.                                                                *)
FragmentStaysInBlock ==
    [][AtFrame =>
          \A b \in Block :
              table'[b] # table[b] =>
                  /\ Head(unread).fn \in WriteFunction
                  /\ b = IF Head(unread).fn \in {write_single_coil, write_multiple_coils}
                         THEN coils ELSE holding_registers]_vars

(* What handle is given is a request packet: a client that only reads      *)
(* leaves the table as it is.                                              *)
ReadsLeaveTable ==
    (\A p \in Packet : p.fn \notin WriteFunction) => table = InitialTable
=============================================================================
