# Verification of modbus-cpp

This directory holds TLA+ models of modbus-cpp, a Modbus TCP master and slave
library in C++ on asio2: TLC checks them on small instances, and TLAPS proves
theorems about the data table, the server's handlers, the server's process, the
client's decoding and the packing of coils for every value of their constants. Paths below are relative to the
repository; `M` stands for `include/modbuscpp/modbuscpp`.

## 1. The system

| Component | State | Operations | What makes it correct |
|---|---|---|---|
| data block (`M/data-table.hpp`, `M/data-table.inline.hpp`) | a container, its start and capacity, a mutex | `set` (buffer or value), `reset`, `get` (slice or cell), `ref`, `validate` | stores are atomic and never mix; a refused call changes nothing; no index leaves the container; every call ends and releases the mutex |
| data table (`source/data-table.cpp`) | four blocks | accessors | each function works on its own block |
| requests, server side (`source/bit-*.cpp`, `source/register-*.cpp`) | the fields of one packet | `decode`, `execute`, and `encode` of the response, which does the table accesses | a refused request writes nothing; a request changes what it names and no more; the reply is what the request asked for |
| request handler (`source/request-handler.cpp`) | none | `handle` | every packet with a function byte gets one reply |
| server (`source/server.cpp`) | sessions, the table, two callbacks | construction, `bind_connect`, `run`, `stop`, destruction; `on_start`, `on_stop`, `on_connect`, `on_disconnect`, `on_receive` | requests of several clients behave as if handled one by one; each is answered; what a callback uses is alive |
| requests, client side | the fields of one request | `encode`, sizes, byte counts | what a valid request needs can be sent |
| response decoding (`source/response.cpp`, `decode_passed` of each response) | the expected header, the result | `check_stage`, `decode` | an answer is taken for what it is: the right request's, a result or an exception |
| ADU header, constants, counts | header fields | `decode_header`, `header_packet`, `check_function` | both ends agree on sizes and codes |
| bit packing (`source/operation.cpp`) | the byte and the bit a loop is at | `pack_bits`, `unpack_bits` | the receiver has the coils the sender read |
| client and server programs (`standalone/source`) | a connection | send on connect, decode on receive, reconnect | as above, over a connection that breaks |
| server program (`standalone/source/server.cpp`) | the logger, the server | `main` | a line ends it, whatever the clients do |
| logger (`source/logger.cpp`) | the process-wide instance | `create`, `get` | one logger is used |
| utilities | none | enum casts, dumps | not modelled |

How they interact: asio2 calls `server::on_receive` on an io thread for each
chunk a session receives; it runs `request_handler::handle` to its end, and
`handle` makes a request object, lets it `decode` the packet and `execute`
(checks against the table's limits, no access to its contents), and lets the
response `encode`, which reads and writes the shared table. A session is bound
to one io thread, so the handlers of one thread never overlap; handlers of
different threads interleave between any two accesses of the table. The
application has the same table: its callbacks are given it, and
`server::data_table()` returns it. There is one mutex per block; `set` and
`reset` hold it throughout, the two `get`s only while they validate: what they
return (iterators, or a reference) is read later with no lock.

What is hard here: these unlocked reads; handlers that make two calls on the
table (`write_single_coil`, `mask_write_register`,
`read_write_multiple_registers`); exceptions thrown with a mutex held; ranges
at the ends of blocks that do not start at 0; counts narrowed to 8 bits or
widened from a signed char; replies that come late or belong to a request
given up; a request sent again after a connection was lost; a stream that is
not cut where requests end; io threads that run callbacks while `main` ends.
`PROJECT.json` lists each hazard at its line, with the properties that cover
it.

## 2. The modules

    ModbusDefs        constants.hpp, check_function, the error function code
    DataBlock         the pure part of a block: ranges, indices, calls
      AtomicTable     what a table promises its threads
      DataTable       the table as threads run it         implements AtomicTable
        DataTableHistory   + the values a slice could have seen
          DataTableProofs    invariants, the refinement, and what a read may
                             return, proved
      Requests        the ten requests: checks, table calls, answers
        RequestEffect   what a request makes of a table, and answers
          AtomicServer    what a client expects of a server
          ModbusServer    DataTable + RequestEffect: sessions, io threads, application
            ServerProofs     the invariants of ModbusServer, proved
            SerialServer     one io thread                implements AtomicServer
              SerialProofs     the refinement, proved
            ConcurrentServer several, for most functions  implements AtomicServer
              ConcurrentProofs the refinement, proved
          Framing         a connection byte by byte, cut at any place
            FramingProofs    decode undoes encode; its invariants, proved
    Bits              bits, bytes and numbers
      Packing         pack_bits and unpack_bits, bit by bit
        PackingProofs   their results, proved
    Wire              the sizes, counts and checks of both ends of an exchange
      ClientExchange  a client, a server and a connection that breaks
        ClientProofs    what the client makes of every reply, proved
    ServerProcess     main, the callbacks of the io threads, the logger
      ProcessProofs   its invariants, proved

`MC*.tla` give the constants values for TLC. Definitions with a comment that
begins "A ... that ..." and are used nowhere (`UnlockTooSoon`, `LoadShort`, ...)
are slips a change of the code could make, which the properties are tried on.

**DataTable.** `cells` is `container_`, `mutex` is `mutex_` of each block,
`call` the call each thread is in: `lock` (waiting for the mutex), `store` (in
the loop of `std::transform` or `std::fill`), `load` (reading through what a
`get` returned), `ok`, `throw`. `LockForStore`, one `Store` per cell and
`Unlock` are `set` and `reset`; `LockForLoad` and one `Load` per cell are the
`get`s and their callers. Lock, validation and unlock of a `get` are one step,
since nothing they do is visible to another thread in between. A coil is
copied under the mutex (`vector<bool>::const_reference` is a `bool`), a
register is a reference read after it. A read of one cell during a store is
atomic here and gives the old or the new value.

**Requests** and **ModbusServer.** A packet is a record of the fields `decode`
extracts. `Verdict` is what `decode` and `execute` make of it; these look at
the constants of the table only, so with the first call of `encode` they form
one step, `Admit`; a refusal is `Refuse`, and a packet too short for a
function byte is dropped (`Drop`). `encode` is `Calls(p)` calls on the table,
with `Resume` and `Proceed` between them, then `Finish`, then `Send`. Coils
are `{}` and `{0}`, registers sets of bits, so that `&` and `|` of a mask are
intersection and union. `IoThread` assigns sessions to threads, and
`ThreadFree` keeps handlers of one thread apart. The application makes calls
of its own (`AppStep`), and stores without the mutex through the references
and iterators that `ref()` hands out (`RefStore`).

**RequestEffect.** `Effect(t, p)` and `Reply(t, p)`: the meaning of a request
on a whole table. **AtomicServer** handles requests with them at one instant.
`SerialServer` and `ConcurrentServer` add to `ModbusServer` what the two
refinements need. In the first a request takes effect when its handler is done
with the table (`pre`, a history variable, is the table it was admitted on).
In the second a write takes effect when the mutex of its one storing call is
taken: the cells it has still to store count as stored (`Pending`, `AbsTable`).
What a reply has read is hidden, since it need not be of one instant.

**Framing.** `Frame(p)` is `encode`, byte by byte; `Decoded(packet, junk)` is
`decode` of every function on a packet that may end too soon. A byte past its
end is one of `Junk`. `Receive(n)` is `on_receive` with the next `n` bytes of
the stream, for every `n`; what the request does to the table is
`RequestEffect`'s, which `AtomicRequests` justifies. `Reconnect` loses the
stream and sends the last request again. `Encodable` says which requests
`encode` makes a frame of.

**Packing.** The loops of `pack_bits` (`Pack`, `PackLast` for the byte left
over), `unpack_bits` (`Unpack`) and the `resize` of the decoder (`Resize`), one
iteration to a step; `Flip` is another thread's store to a coil of the slice,
which `pack_bits` reads in place. `seen` is what its iterator has read.

**Wire** and **ClientExchange.** Requests and responses are records of the
fields the two ends compare, with real counts and sizes; `uint8`, `uint16` and
`Widened` are the conversions of the code. The client may send again before it
has an answer, as the code allows; it decodes whatever arrives as the answer
of its last request (`bind_recv`), also two replies that come as one packet.
`Reconnect` loses the replies under way and sends the request again
(`bind_connect`). The server is `Response`: one request, one reply, in order,
as TCP keeps them.

**ServerProcess.** `program` is the list of `main`'s statements, with and
without the creation of a logger, and `pc` the next one. The members of the
server are created and destroyed one by one; `stop` waits until asio2 has told
every session of its end. Each io thread runs at most one callback, in the
steps (`Stages`) in which it uses the server's members (`Uses`: `on_start` asks
`server_` for its address, `on_receive` takes the pointer out of `data_table_`),
looks for the logger, creates it and writes to it, and, in `on_receive`, handles
the packet on the table (`Handle`).

## 3. What TLC checks

| Run | Instance | Properties |
|---|---|---|
| `data_table` | 2 threads, a coil and a register block of 2 cells from address 1, valid and invalid calls at and past both ends | `TypeOK`, `MutexOwnership`, `InBounds`, `IInv`; `MutexReleased`, `CallsEnd`; the refinement `AtomicSpec` |
| `data_table_history` | 3 symmetric threads, one block of 3 cells, overlapping stores, reset, readers | `HIInv`, `StoredPrefix`, `RegularRead` |
| `server` | 2 sessions on 2 io threads, every function, refused packets of every kind | `SessionsOK`, `NoRefusalHalfWay`, `ReplyComplete`, `WritesInFrame`, `RequestsAnswered` |
| `concurrent_server` | 2 sessions on 2 io threads, every kind of request but the mask, an application that resets a block and stores through references to two registers of it and one outside | the refinement `AtomicWrites` |
| `serial_server` | 2 sessions on 1 io thread | `SerialOK`; the refinement `AtomicRequests` |
| `client` | every function, counts at 1, 8, 63/64, 121/122, 125/126, 255/256 and the limits, 3 transactions, 2 replies under way | `IInv`, `ExceptionsRecognised`, `LateReplyRejected`, `RepliesUnderstood`, `FramesFit`, `UnsendableWereInvalid` |
| `framing` | 1 connection, 7 kinds of request, 2 of them unread, cut at any byte | `TypeOK`, `IInv`, `WholeFrameHandled`, `DuplicateHarmless`, `FragmentStaysInBlock` |
| `packing` | slices of 0 to 10 coils, 3 of them shared | `PackedRight`, `UnpackedRight`, `RoundTrip`, `IInv` |
| `process` | 2 clients, 3 io threads, `main` with and without a logger of its own | `IInv`, `TypeOK`, `MembersAlive`, `CallbackWhole`, `OneLogger`, `LineEnds` |
| `supported_functions`, `functions`, `split_reads` | the client and the connection on the requests in question | one violated property each, section 4 |

What they show. Stores to a block never mix and take effect at one instant; a
refused call leaves no trace and no locked mutex. A slice is *regular* cell by
cell: each value it returns was in its cell at some time between the lock and
the last read (`RegularRead`). That is all it is: the cells of a slice may come
from different instants, so with two io threads a reply to a multiple read can
show half of another client's write. No request is ever refused after its
first table access, so an exception reply means nothing was written. A handler
changes only cells its request names.

Whole requests, replies included, are atomic **only if one io thread runs all
sessions and the application does not write**: `AtomicRequests` holds in
`serial_server`, and its mutant (`OwnTurn`: sessions no longer wait for each
other) shows what two threads do. `server::server` uses twice as many threads
as processors unless told otherwise (`M/server.hpp`). What is left then is
`AtomicWrites`: every writing function but `mask_write_register` still changes
the table once, at one instant, to what it says, also beside an application
that stores through references; only the words its reply reads may be of other
instants. `mask_write_register` alone can lose an update, because it stores
what it computed from an earlier read.

A chunk that begins with a whole request is handled as that request, whatever
came before (`WholeFrameHandled`); what follows it in the chunk is lost. The
first piece of a split one is carried out, refused or dropped with whatever
lies behind it, but changes only the block of its function
(`FragmentStaysInBlock`); what remains is a packet of its own, of any function,
yet no packet at all breaks the types of the table (`TypeOK`). A request that
is sent again, and handled twice with nothing in between, changes nothing the
second time (`DuplicateHarmless`).

`pack_bits` on a slice that changes under it packs each value it read at its
own place (`PackedRight`), and what the receiver ends with are these values
(`RoundTrip`); the bytes alone do not tell the count, so the decoder's resize
is needed.

The client tells results from exceptions by the function code alone, and with
fresh transactions no late reply is taken for the answer of another request,
also when it arrives in one packet with the right one. `RepliesUnderstood`
says exactly which good answers it understands: all but those of section 4.
`UnsendableWereInvalid` says the same of requests that `encode` refuses.

While io threads run callbacks, the members they use are alive
(`MembersAlive`), since the destructor's body stops the server before any
member goes; the callback a program binds before `run` is whole when it is
called (`CallbackWhole`); and all messages go to one logger (`OneLogger`): the
one the standalone program creates first, or, for a program that leaves it to
`logger::get`, the default one, which any number of threads may create and
store, one after the other. A program that creates its logger too late, when
callbacks have logged, uses two: that is the mutant.

**Bounds.** A block of 2 or 3 cells has a first, a last and a middle cell, and
ranges that overlap in part; two threads show every pairwise race of one lock,
the third a reader beside two writers. Nothing in the table depends on a count
beyond its comparison with the limit, which the models reach (`ReadLimit` and
`WriteLimit` 2). In the server each block has at most 2 cells and registers
have 2 bits, enough for a mask that keeps one and sets the other. In the
client the values are the real ones, chosen at the places where a byte, a sign
bit or a limit is passed; `MaxInFlight` bounds replies under way at 2, one
late and one due. In `Framing` registers have their 16 bits and limits are the
real ones; `MaxUnread` is 2, so that a chunk can end one request and begin the
next, and `Junk` is `{0, 1}`: a byte past the end is one of them by the parity
of its place, so the halves of a missing word may differ. In `Packing`
`MaxCount` 10 gives two bytes, the second not full, and `Shared` the first
coil and those at both ends of the bytes. In `ServerProcess` two io threads
race to create the logger and the third finds what they made. `MaxInFlight`,
`MaxUnread`, `MaxCount` and the size of `Transaction` are the only bounds on
runs that otherwise do not end.

**Fairness.** `FairSpec` of `DataTable` and `SFairSpec` assume weak fairness of
each thread's own steps: a thread that can run is eventually run, which the
operating system gives. Nothing is assumed of callers: no client has to send,
no thread has to make a new call. Nothing is assumed of the mutex either:
`std::shared_mutex` grants no order, so one thread may starve while others keep
calling. That is why `CallsEnd` and `RequestsAnswered` are conditional: *if
from some time on no new call is made*, every call under way ends, and so does
every handler, whether its request is carried out or refused.
`MutexReleased` holds unconditionally. `FairSpec` of `ServerProcess` is the
same for `main` and for the steps each io thread takes inside a callback;
asio2 need not deliver anything. `LineEnds` begins with a line typed: nobody
has to type one.

Calls and requests come from the environment, so a state in which no one calls
is not a deadlock: deadlock checking is on in every run but two. `packing` runs
one call and `process` one program, and both end.

## 4. Where the code and its documents differ

Runs that TLC ends with a counterexample, each of one property that a document
or a comment of the repository states:

- **Coil reads** (`supported_functions`; `M/bit-read.inline.hpp:89`): the client
  compares the byte count with the number of coils and then the padded list
  with it. No answer passes, though the README lists the function.
- **Functions** (`functions`; `source/response.cpp:67`): the comparison of the
  expected function with the packet's compares the packet's with itself. With
  the default transaction 0 a late reply to another function is decoded.
- **Split reads** (`split_reads`; `source/server.cpp:56`): each chunk of the
  stream is taken for a request packet. A client that only reads, one of its
  reads cut in two, changes a coil.

Limits that a passing property states exactly:

- **Single coil** (`source/bit-write.cpp:188`, `231`; `RepliesUnderstood`): the
  server answers with the old value and the client insists on the new one: a
  write that changes the coil is done, and reported as bad data.
- **64 registers or more** (`M/register-read.inline.hpp:86`;
  `RepliesUnderstood`): the byte count is read from a `char`; where that is
  signed the answer is refused.
- **256 coils or more** (`source/bit-write.cpp:157`; `UnsendableWereInvalid`):
  the byte count is computed at 8 bits, so a valid count cannot be encoded.
- a `read_write_multiple_registers` with 122 or 123 written registers is longer
  than 260 bytes (`FramesFit`).

Further observations, not runs: the default table refuses address 0xFFFF;
`generate_exception` slices the exception it returns; `count_.validate()` in
`execute` is always true; `main` of the server program spins when its input
ends without a line (`standalone/source/server.cpp:66` looks for a newline
only); `adu::operator==` (`source/adu.cpp:115`), which nothing calls, joins its
comparisons with a logical and.

## 5. What is proved

**The table.** `DataTableProofs` proves, for any blocks, starts, capacities,
limits, threads and calls that satisfy `DataBlockAssumption` and
`DataTableAssumption`:

- `TableInvariant`: `Spec => []IInv`;
- `TableTypes`, `TableMutex`, `TablePrefix`, `TableBounds`: `TypeOK`,
  `MutexOwnership`, `StoredPrefix`, `InBounds`.

The assumptions say that starts, capacities and limits are natural numbers,
that a default value is a value, that the marker `NoActor` is no thread, and
that calls have the shape the C++ interface gives them (`WellFormed`: a store's
count is the length of its buffer, a reset covers the block, `at` is one cell).

`MutexOwnership` is not inductive alone. That `Unlock` frees only its own mutex
needs to know that a call in `store` is past its check and that its block is
the one it locked; that a `Store` stays inside the container (`TypeOK`) needs
`Valid(req)` to have been remembered from the check; that `StoredPrefix`
survives another thread's `Store` needs `MutexOwnership`. `IInv` is their
conjunction with `Checked`, which says for each stage what is known of the
call: nothing read or stored yet in `lock`, a valid writing call in `store`, a
valid reading call that is not finished in `load`, a complete result in `ok`,
an invalid range in `throw`. The step lemma `IInvStep` has one case per
conjunct (`CallsOKStep`, `CellsOKStep`, `OwnershipStep`, `PrefixStep`), each
split by action. Two facts carry them: `StoringSteps` (which actions change a
cell or a mutex) and `RangeInside` (a valid range lies inside its container).

The same module proves `TableIsAtomic`: `Spec => AtomicSpec`, the
refinement that `data_table` checks on its instance. `LockForStore` maps to
`Commit`; `Store` and `Unlock` map to stuttering, since the cells a call has
still to store already count as stored (`AbsCells`) and, by `StoredPrefix`,
those it has passed agree; a `Throw` maps to `Refuse`, the end of a read to
`Answer`, `Call` and `Return` to `Ask` and `Finish`; a `Load` that is not the
last is a stuttering step.

And it proves `ReadsAreRegular`: `HSpec => []RegularRead`, of the table
with the history `seen`. A read is regular because what it finds in a cell was
there since the history began to watch it, so the invariant `HIInv` adds to `IInv`
that, for every cell of the slice of a call that reads, the history holds both
the cell's word in the container and its word in `AbsCells` (`SeenCurrent`). The
two differ while a store is in progress: the reader may come before or after it,
so both must have been seen. `HistoryInvariant` states it by itself. A step that
changes a cell adds the new word to every reader's history, whichever of the two
views it changes.

**The handlers.** `ServerProofs` proves of `ModbusServer`, for any number of
sessions, io threads and applications, any table and any packets:

- `HandlersInStep`: `SSpec => []SessionsOK`;
- `NeverHalfRefused`: `SSpec => []NoRefusalHalfWay`;
- `RepliesComplete`: `SSpec => []ReplyComplete`;
- `SessionsWriteInFrame`: `SSpec => WritesInFrame`.

`ServerAssumption` adds to the table's assumptions that the four blocks exist,
that a session's thread is not the application's, that addresses and counts of
admitted packets are naturals, and that the calls a response makes are typed
as calls (`Access` holds them; it need not be finite).

The invariant is `TablesOK` (types, `Checked` and `MutexOwnership` of the table,
which `CallsOKStep` and the other step lemmas give for the calls of sessions
and applications too) with `SessionsOK`: a session whose handler encodes
is in the table call that its response makes next, `TableCall(pkt, step, got)`,
or between two; a mask has read a register before it stores; any other session
is in no call. `StoredPrefix` is not part of it: a store through a reference
breaks it. `CallFits` does the work: for an admitted packet every `TableCall` is
`Valid`, because `execute` has checked both ranges, and the range of one that
stores is `WriteSpan`. Hence no call is refused (`Checked` says that a call in
`throw` was not valid), and a cell that changes under a session's mutex is in
its frame (`StoredCell`). `ReadFacts` gives replies their length and type.

**One io thread.** `SerialProofs` proves `SerialIsAtomic`:
`SerialSpec => AtomicRequests`, for any number of sessions, any table and any
packets. `SerialAssumption` says what the run instantiates: all sessions have
one io thread, there is no application thread, and a mask is of one register.

The invariant adds `SerialOK` to `ServerProofs`' own. It says that at most one
session is handling, and of its handler, by the call it is in and how far that
has come: the table is `pre`, the one it was admitted on, with the cells of
`StoredBy` replaced by what the request makes of them (`Partly`); what the call
has read is in the table (`ReadRight`); and the coil or register that the first
of two calls read is still in `pre` (`KeptRight`). `SerialTable` states it as a
theorem of its own. Each stage of a call has a lemma
(`LockProgress`, `StoreProgress`, `UnlockProgress`, `ReadProgress`), and so has
each step between calls. When the last call has returned, `StoredBy` is the
whole `WriteSpan`, so the table is `Effect(pre, p)`, and what was read makes
the reply `Reply(pre, p)` (`FinishEffect`). `Finish` maps to `AHandle`,
`Admit` to `ARequest`, `Refuse` to `ARefuse`, `Send` to `ADone`; everything
else, the packets that are dropped included, is a stuttering step.

**Several io threads.** `ConcurrentProofs` proves `WritesAreAtomic`:
`SSpec => AtomicWrites`, for any sessions, io threads, applications, table and
packets. `ConcurrentAssumption` leaves out `mask_write_register`, for which it
is false, and takes a store through a reference to be of one cell, which is what
a reference or an iterator is to.

The invariant is `ServerInv` of `ServerProofs` with `AppsOK`: what an application
does under a mutex is one of its own calls. `LockSeen`, `StoreUnseen`,
`UnlockUnseen`, `QuietStep` and `RefSeen` say what each step does to `AbsTable`:
only taking the mutex for a store, and a store through a reference, change it.
A store through a reference to a cell that the owner of the mutex has still to
store is lost at once in `AbsTable`, and soon after in the table; to any other
cell it happens when it is made. By `StoresThen` a response has one storing call,
the `StoringCall`th, and `StoreShape` gives its buffer, so taking the mutex is
`AHandle` (`LockHandles`) and the handler's end changes nothing any more; a
request that only reads is handled at its end (`FinishHandles`). The calls of an
application are `AAppStore` (`AppSteps`, `RefSteps`).

**Packing.** `PackingProofs` proves `PackBitsRight`, `UnpackBitsRight` and
`UnpackGivesBack` (`PackedRight`, `UnpackedRight`, `RoundTrip`) for slices of any
length and any set of shared coils. The loops' invariant, `IInv`, says what the
bytes pushed and the byte begun hold of the values read so far, and that
`shift` is their number modulo 8; no word of it is about the coils themselves,
which is why stores under the loop do not matter.

**A connection.** `FramingProofs` proves of `Framing`, for any requests that
`encode` takes, any starts, capacities and limits, and any cut of the stream:

- `FramingInvariant`: `Spec => []IInv`;
- `TableKeepsItsTypes`, `WholeFramesAreHandled`, `DuplicatesAreHarmless`,
  `FragmentsStayInTheirBlock`: `TypeOK`, `WholeFrameHandled`,
  `DuplicateHarmless`, `FragmentStaysInBlock`;
- `RepeatedRequest`: on any table, handling a request twice leaves what handling
  it once does. A mask is where it could fail: `(w & a | o) & a | o = w & a | o`.

`FramingAssumption` says that every packet is `Encodable`: 16-bit fields, words of
16 bits, as many values as the count, no more registers than 8 bits of byte count
can tell, a coil that is on or off; and that coils and holding registers are
blocks of such values.

Three arguments meet. *Decode undoes encode* (`FrameUnderstood`): `BitsAreNumbers`
shows that every word is the bits of a number, bit by bit; the `...Frame` lemmas
say at which byte of its frame a request has which field, `FieldRead`,
`RegisterRead` and `CoilsBack` that a decoder finds it there again in any packet
that starts with the frame (`Starts`), and so each `Decoded...` lemma that the
request comes back. All but `write_multiple_coils` come back as they were; that
one decodes what follows its frame too, but no further than its count do the
coils matter (`SameCoils`). *Any packet at all* (`ReadingFits`, `TableKept`,
`OtherBlocksKept`): what the decoders make of any bytes, of what lies behind them
too, are values of the block that the function byte names, and `execute` keeps
the range inside it. *The stream* (`Streams`, `EndedFrames`, `PlaceKept`):
`FlattenSeq` defines it by recursion, which is undone by induction on a set of
numbers (`Everywhere`); hence a chunk that ends the first frame starts with all of
it (`ChunkAtFrame`), and the offset never leaves the first request.

`IInv` adds to `TypeOK` that what is unread are requests and that the one
handled last would change nothing more: the first is needed to know that the
stream is made of frames, the second, which `RepeatedRequest` gives, is
`DuplicateHarmless` of the next step.

**The client.** `ClientProofs` proves of `ClientExchange`, for any requests that
the types of the fields let a user build, any number of replies under way, char
signed or not, and transactions reused or not:

- `ExchangeInvariant`: `Spec => []IInv`;
- `ExceptionsAreTold`, `LateRepliesAreRejected`, `WhichRepliesAreTaken`,
  `RefusalsAreJustified`, `FramesFitTheADU`: `ExceptionsRecognised`,
  `LateReplyRejected`, `RepliesUnderstood`, `UnsendableWereInvalid`, `FramesFit`.

The assumptions are `WellFormed` of each request: a supported function, 16-bit
fields, any number of values, and one of the two coil words in a
`write_single_coil` (`value::bits` is an enumeration).

What the run tries on the counts at which something happens, these state of all
65536. `AcceptedCounts` and `ReadSizes` bound the counts a server accepts, so that
no byte count of its replies is cut to 8 bits; `ResultReply` and `ExceptionReply`
give each reply field by field; `OwnResult` says which of them `decode_passed`
takes, function by function. `IInv` says that each reply on the wire is the
server's answer to a request that `encode` took, and, with transactions of their
own, that only the answer to the request waited on carries its transaction; the
latter needs that `IsFresh` compares with every request under way, not only the
last. The size of a chunk is a recursive sum; `SumsExist` and `SumsGrow` do the
induction it needs on a set of numbers (`Everywhere`), so a chunk of several
replies is longer than the header of the first says, and `Rejected`. Only
`Receive` and `Unsendable` conclude anything (`ConclusionsStep`).

**The server program.** `ProcessProofs` proves of `ServerProcess`, for any number
of clients and io threads, and a `main` with or without a logger of its own:

- `ProcessInvariant`: `Spec => []IInv`;
- `ProcessTypes`, `CallbacksUseMembersThatLive`, `CallbacksCalledWhole`,
  `MessagesToOneLogger`: `TypeOK`, `MembersAlive`, `CallbackWhole`, `OneLogger`.

`IInv` ties everything to the statement `main` is at: which members live
(`MembersOK`: none before the server is made, all from then to the destructor,
fewer only when the server has stopped), when the server runs, and so when
callbacks may (`CallbacksOK`: none before `run`, none once `stop` has returned,
those of start and stop with the server to themselves), and who may have made the
logger (`LoggerOK`: in the standalone program `main`, before any io thread; else
only `logger::get`, whose loggers are all the default one). None of the three
properties is inductive without it: that a callback uses live members rests on
when the server stopped, not on what any one callback or statement checks.

Only model-checked: liveness (`MutexReleased`, `CallsEnd`, `RequestsAnswered`,
`LineEnds`), which is out of the prover's reach. Every safety property of a run
that is expected to pass is stated by a theorem.

## 6. Not modelled

- The words that neighbouring coils share in a `vector<bool>`: the model's cells
  are independent, and a store to one coil through `ref()` is left out. Two
  threads in one word are a data race whose outcomes the code does not bound.
- The unit and protocol identifiers, which every end copies; dumps and the text
  of messages; `utilities.hpp`.
- The throw of `server_device_failure` when `check_response_packet` finds a reply
  of another size than `response_size()` (`source/register-write.cpp:610` and its
  like): both are computed from the counts of the request, and agree for every
  request that `execute` admits.
- Unknown functions on the client: `request::illegal::encode` gives an empty
  packet (`source/request.cpp:26`), so no request of this library carries one.
  On the server they are modelled (`Refuse`).
- The end of `main`'s input: `LineEnds` begins with a line that is typed, and
  says nothing of an input that ends without one, where `main` spins.
- `generate_exception`'s slicing: the models keep that an exception was thrown.
- Setters, increments and comparisons that nothing on a request's path calls;
  `logger::set` and `set_debug`; `response::error::decode`.
- The build, the documentation and the test suite, which checks constants and
  traits.

asio2 is external: it is taken to call the handlers of a session one at a time
on that session's thread, to deliver bytes in order, and to return from `stop`
when every session was told of its end.

## 7. Plan

Done: every component of section 1 but the utilities; the table, the handlers,
the atomicity of a server on one io thread and of the writes on several, what a
read may return, the packing, the connection, the client's decoding and the server
program proved.

Left: that the client and the stream agree on the shape of a request, which
`Wire` gives by its sizes and `Framing` by its bytes
(`RequestSize(q) = Len(Frame(p))`); and that the effect of a request on the table
in `Framing` is the one a session of `SerialServer` has, stated as a refinement
instead of by the shared `RequestEffect`.
