--------------------------- MODULE ClientExchange ---------------------------
(***************************************************************************)
(* A client of the library on one connection.  It sends requests when it   *)
(* likes, also before the last one is answered; the server answers in      *)
(* order; the client decodes whatever arrives as the response of the       *)
(* request it sent last (bind_recv).  The connection may break: replies    *)
(* under way are lost, and the client sends its request again as soon as   *)
(* it is connected (bind_connect), though it may have been carried out.    *)
(***************************************************************************)
EXTENDS Wire, Sequences

CONSTANTS
    Request,        \* the requests the client's user builds
    MaxInFlight,    \* bound: replies under way at once
    FreshIds        \* does the user give every request its own transaction?

ASSUME ClientExchangeAssumption ==
    /\ \A q \in Request : WellFormed(q)
    /\ MaxInFlight \in Nat \ {0}
    /\ FreshIds \in BOOLEAN

VARIABLES
    current,        \* the request the client waits on
    wire,           \* the replies under way, each with the request it answers
    coil,           \* the coil a write_single_coil writes
    outcome         \* what the last decode gave, on which request and reply

vars == << current, wire, coil, outcome >>

NoRequest == [fn |-> 0]
NoOutcome == [kind |-> "none"]

Init ==
    /\ current = NoRequest
    /\ wire = << >>
    /\ coil \in {bits_off, bits_on}
    /\ outcome = NoOutcome

(* The server handles the request and its reply is on its way.             *)
Handled(q, replies) ==
    /\ wire' = Append(replies, [reply |-> Response(q, coil), to |-> q])
    /\ coil' = IF q.fn = write_single_coil /\ Accepts(q) THEN q.word ELSE coil

IsFresh(q) ==
    /\ current # NoRequest => q.tr # current.tr
    /\ \A i \in 1 .. Len(wire) : q.tr # wire[i].to.tr

(* An encode that does not count the values it was given.                  *)
SendUncounted(q) ==
    /\ Len(wire) < MaxInFlight
    /\ FreshIds => IsFresh(q)
    /\ Handled(q, wire)
    /\ current' = q
    /\ outcome' = NoOutcome

Send(q) ==
    /\ Len(wire) < MaxInFlight
    /\ FreshIds => IsFresh(q)
    /\ Encodes(q)
    /\ Handled(q, wire)
    /\ current' = q
    /\ outcome' = NoOutcome

(* encode throws bad_data: nothing is sent.                                *)
Unsendable(q) ==
    /\ ~Encodes(q)
    /\ outcome' = [kind |-> "unsendable", req |-> q]
    /\ UNCHANGED << current, wire, coil >>

(* The chunk bind_recv is called with: k replies, that came close together *)
(* if they are more than one, as one packet with the header of the first.  *)
Chunk(k) ==
    LET size[i \in 0 .. k] ==
            IF i = 0 THEN 0 ELSE size[i - 1] + wire[i].reply.size
    IN [wire[1].reply EXCEPT !.size = size[k]]

Receive(k) ==
    /\ outcome' = [kind |-> Decoded(current, Chunk(k)), req |-> current,
                   to |-> Head(wire).to, reply |-> Chunk(k), alone |-> k = 1]
    /\ wire' = SubSeq(wire, k + 1, Len(wire))
    /\ UNCHANGED << current, coil >>

(* The connection breaks and is made again.                                *)
Reconnect ==
    /\ current # NoRequest
    /\ Handled(current, << >>)
    /\ outcome' = NoOutcome
    /\ UNCHANGED current

Next ==
    \/ \E q \in Request : Send(q) \/ Unsendable(q)
    \/ \E k \in 1 .. Len(wire) : Receive(k)
    \/ Reconnect

Spec == Init /\ [][Next]_vars

-----------------------------------------------------------------------------
Decoding == outcome.kind \in {"passed", "exception", "bad_data"}

(* The reply decoded is the one to the request the client waits on.        *)
Own == Decoding /\ outcome.alone /\ outcome.to = outcome.req

(* An exception the server sends is never taken for a result, nor a result *)
(* for an exception, whichever request the reply belongs to; and the       *)
(* client recognises the exception its own request earned.                 *)
ExceptionsRecognised ==
    Decoding /\ outcome.alone =>
        /\ outcome.kind = "exception" => ~Accepts(outcome.to)
        /\ outcome.kind = "passed" => Accepts(outcome.to)
        /\ Own /\ ~Accepts(outcome.req) => outcome.kind = "exception"

(* With a transaction of its own for every request, a late reply is never  *)
(* taken for the answer of a later request; nor is a chunk that holds both *)
(* the late reply and the right one, and both are lost.                    *)
LateReplyRejected ==
    FreshIds /\ Decoding /\ ~Own => outcome.kind = "bad_data"

(* A request the user gave as many values as it counts, and that encode    *)
(* refuses nevertheless, is one the server would refuse too, or it writes  *)
(* more than 255 coils.                                                    *)
UnsendableWereInvalid ==
    outcome.kind = "unsendable" /\ outcome.req.n = outcome.req.wcnt =>
        \/ ~Accepts(outcome.req)
        \/ outcome.req.fn = write_multiple_coils /\ outcome.req.wcnt > 255

(* The replies to its own requests that a client does take: all of them,   *)
(* but those of coil reads, of a single coil that changes, and of 64       *)
(* registers or more on a machine whose char is signed.                    *)
Understood(q, r) ==
    /\ q.fn \notin ReadBits
    /\ q.fn = write_single_coil => r.word = q.word
    /\ q.fn \in ReadRegisters /\ SignedChar => q.cnt < 64
RepliesUnderstood ==
    Own /\ Accepts(outcome.req) =>
        (outcome.kind = "passed" <=> Understood(outcome.req, outcome.reply))

(* A frame fits an ADU: no reply is too long, and the only request the     *)
(* client sends and the server carries out that is too long is a           *)
(* read_write_multiple_registers that writes more than 121 registers.      *)
FramesFit ==
    \A i \in 1 .. Len(wire) :
        LET q == wire[i].to IN
        /\ wire[i].reply.size <= max_adu_length
        /\ Accepts(q) => \/ RequestSize(q) <= max_adu_length
                         \/ q.fn = read_write_multiple_registers /\ q.wcnt > 121

(* The inductive invariant: the client has sent what it waits on, and the  *)
(* wire carries the server's replies to requests that were sent, none of   *)
(* them with the transaction the client waits on but that one's own.       *)
Sendable == {q \in Request : Encodes(q)}
Reply ==
    [tr : Word, len : Nat, fn : Nat, size : Nat, first : Nat, addr : Word, word : Word]
Answers ==
    {a \in [reply : Reply, to : Sendable] :
        \E c \in {bits_off, bits_on} : a.reply = Response(a.to, c)}
IInv ==
    /\ coil \in {bits_off, bits_on}
    /\ current \in Sendable \cup {NoRequest}
    /\ wire \in Seq(Answers)
    /\ wire # << >> => current # NoRequest
    /\ FreshIds => \A i \in 1 .. Len(wire) :
                     wire[i].to.tr = current.tr => wire[i].to = current

-----------------------------------------------------------------------------
(* What the documentation says of an exchange, and the code does not do.   *)

(* Every supported function of the README, in an exchange of this library  *)
(* with itself: a request the server carries out is answered with a reply  *)
(* the client takes.                                                       *)
SupportedFunctions ==
    Own /\ Accepts(outcome.req) => outcome.kind = "passed"

(* check_stage, step 5: the expected function code equals the function     *)
(* code of the packet, unless it is an exception.                          *)
FunctionsMatch ==
    Decoding /\ outcome.kind = "passed" => outcome.reply.fn = outcome.req.fn
=============================================================================
