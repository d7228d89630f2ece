# Verification of the serialization demo

The demo (`src/main.c`) encodes a description of a WiFi SoftAP with one of three
libraries, tpl, mpack or nanopb, decodes it again, measures how long that takes,
and sends encodings from a client to a server over TCP. This directory models the
program and the three libraries in TLA+, checks the models with TLC and proves
the most important properties with TLAPS. Paths below are relative to `src/`.

Contents: [inventory](#inventory) · [modules](#modules-and-the-code) ·
[runs](#runs-and-what-they-show) · [bounds](#bounds) · [fairness](#fairness) ·
[proofs](#proofs) · [findings](#findings) · [not modelled](#not-modelled) ·
[plan](#plan)

## Inventory

| Component | State | Operations | What makes it correct |
|---|---|---|---|
| Commands, benchmark, statistics: `main.c` | arguments, `ret`, three arrays of durations, the loop variables, `total_time` | `main`, `calculateAverage`, `calculateMedian`, `calculateStdDev`, `do_no_socket_test`, `do_array_no_socket_test` | exit code 0 exactly when nothing failed; every printed number is a statistic of what its loop measured |
| Dispatch: `main.c` | none | `encode`, `decode`, `encode_array`, `decode_array` | what one library encodes it decodes; bytes of another are refused |
| Socket transfer: `sample_structure.h` | per process: descriptors, `sent` or `got`, the length, the buffer; per connection: bytes on the way | `send_all`, `recv_all`, `socket_send`, `socket_receive`, `do_client`, `do_server` | a success of the server stands for one client's whole payload, a failure of a client excludes it; no write past `MAX_BUFFER`; everything opened is closed; both ends come to an end |
| Sample data: `sample_structure.h` | none | `getSingleSampleData`, `fulfillSampleData` | strings are terminated, sizes checked |
| Usage files: `MPACK/mpack_usage.h`, `TPL/tpl_usage.h`, `NANOPB/nanopb_usage.h` | writer, reader, node tree or message struct; the caller's structs | an encode and a decode, each also for arrays | decode after encode returns the same structs; what does not fit or is cut short is an error |
| mpack writer, reader, expect: `MPACK/mpack/` | writer: buffer, position, error; reader: data, end, error | writes, expects, `flag_error`, `destroy` | positions stay inside the buffers; the stream has no gap; the first error is final |
| mpack node | pages and pool of nodes, parse stack, buffer, limits, state, error | parse, try_parse, destroy; some fifty getters, lookups and copies | the tree is the message, however it came in; nodes do not overlap; nothing leaks; a getter's answer is exact or an error |
| tpl: `TPL/tpl.c` | the node tree and its flags, lists of packed elements, the loaded image; a gather's fragment | map, pack, dump, load, unpack, Alen, peek, jot, free; gather in three modes | values packed come back in order in every legal sequence of calls; only good images are taken; images are handed over once, whole and in order |
| nanopb: `NANOPB/nanopb/` | output and input streams, the field iterator, the message struct | varints and tags, the iterator, `pb_encode`, `pb_decode` and their `_ex` forms, submessages, callbacks, extensions | decode after encode is the identity, also across versions; both passes over a submessage agree; what is accepted is whole and usable |
| Generated descriptors, build files | none | none | |

How they interact: `main` calls everything else. In the `server` and `client`
commands two processes meet over TCP; everything else is one process and one
thread, and there are no callbacks into `main.c`. The client encodes, then
`do_client` sends 8 bytes of length and the payload; the server collects exactly
these bytes into the one global buffer, then decodes. The two processes choose
their libraries independently. mpack's node API, tpl's gather, jot and peek and most
of nanopb's field kinds are built (the `Makefile` compiles whole directories) but
not called by the program; they are modelled as an API under any caller.

What is hard here: short sends and receives, several clients at a server that
accepts one, processes that end in the middle of a frame, resets and signals
(transfer); errors that are recorded and looked at much later (mpack); parsing that
pauses anywhere and goes on later (mpack node, gather); blocks of memory handed
between trees and images (tpl, mpack node); addresses and sizes computed from
format strings and packed descriptors (tpl, nanopb); the many bounds of the
encodings; long sequences of calls on one mutable tree (tpl); and statistics that
depend on a side effect of each other (`main.c`). `PROJECT.json` lists the hazards at
their lines, with the properties that cover them.

## Modules and the code

| Module | Models |
|---|---|
| `FrameTransfer`, `Delivery` | the client and server commands and the kernel between them; what they promise together, without sockets or framing, which `FrameTransfer` implements |
| `Main` | `main()` with its commands, loops, statistics and exit code |
| `SampleData`, `SampleMessages` | `wifi_softap_info_t` and the data of the commands; the generated descriptors |
| `MpackFormat`, `MpackCalls` | mpack's tags; its writer and reader as records and the functions the program calls on them |
| `MpackStream` | any program of write calls on a writer, then of expect calls on a reader that gets all or some of the bytes |
| `MpackTree`, `MpackTreeDoc` | the node parser; the tree that MessagePack gives a message, read by recursion |
| `MpackNode` | the getters of a parsed tree |
| `TplFormat`, `TplMap`, `TplCalls` | tpl: words, preambles, flags; `tpl_map`; pack, dump, free; load, unpack, peek, jot |
| `Tpl`, `TplDoc` | any sequence of calls on one tpl; the document that these calls promise, without nodes or bytes, which `Tpl` implements |
| `TplFormats` | every format string up to a length, against a grammar and C's struct layout |
| `TplGather` | a writer that dumps images to a descriptor and `tpl_gather` at the other end |
| `PbBits`, `PbWire`, `PbVarint` | numbers as sets of bits; nanopb's wire format; the varint loops, a turn a step |
| `PbField`, `PbIter` | packed descriptors; the field iterator under any calls |
| `PbMessage`, `PbEncode`, `PbDecode` | messages in memory; the encoder; the decoder |
| `PbCodec` | encode, send (whole, cut, with unknown fields, joined with another), decode over old contents |
| `MpackUsage`, `TplUsage`, `NanopbUsage` | the three usage files, one step per call to mpack or tpl, one per function for nanopb |
| `MC...` | values of the constants for TLC; `MCUsage` puts the three libraries beside each other as the program has them; `MCDemo` (`Main` and `MCUsage`), `MCMpack` (`MpackStream`, `MpackTree`, `MpackNode`), `MCTpl` (`Tpl`, `TplFormats`, `TplGather`) and `MCPbCodec` (`PbCodec`, `PbVarint`, `PbIter`) explore several modules in one run, each while the others rest (`part`) |
| `...Proofs` | theorems |

**FrameTransfer.** `cliPc`, `sent`, `cliFds` and `srvPc`, `got`, `netlen`, `size`,
`buffer`, `srvFds` are the functions' positions and variables; `queue`, `peer`,
`link`, `wire`, `taken`, `fin` are the kernel's. One action is one system call and
the code up to the next: `send_all(c, k)` is a `send` that takes `k` bytes,
`RecvLen(r)` and `RecvPayload(r)` a `recv` that returns `r`. `do_client` stands for
its argument check and `socket`, `inet_pton` for the check of the address with that
socket open; `socket_receive` for `socket`, `BindListen` for `bind` and `listen`, which
fail with the listening socket open. The labels `cleanup`, `cleanup_all` and
`cleanup_lsock`, which the second falls into, are part of the action that leaves through
them, and say what they close. The retry after `EINTR` leaves every variable as it was and is a stutter.
The kernel: a connection is established without the server's `accept`; closing a
socket sends FIN, or RST if data was unread or nobody had accepted; data for a
closed connection is answered by RST, after which `send` raises SIGPIPE. `faults`
says which failures the environment may produce: failing set-up calls, `send`,
`recv`, a killed client, a vanished client host, a killed server.

**Main.** One test, exchange, encode or decode is one step, or `Fail`. Doubles are
exact: an average is kept as n times the average, a median as twice the median, the
deviation as the sum of squares times n². `qsort` is external: it puts every element at
the place that the number of smaller ones gives it.

**mpack.** A writer is the bytes before its position, the size of its buffer and its
error. A write that does not fit sets `too_big` and stores nothing; a later write that
fits is stored. A reader is the data, position, end and error; the first error closes
the data (`reader->end = reader->data`). The build (`-D MPACK_STDLIB=0`) has no
`malloc`, files, extensions, builder or tracking; assertions are off.

**MpackTree.** One action is one turn of `mpack_tree_continue_parsing` up to the point
where data may be missing: `ParseHead` reads the first byte and reserves the header,
`ParseBytes` and `ParseChildren` are the contents. `left`, `reserved`, `nodes`,
`nodes_left`, `stack`, `size` are the parser's fields; a node's address is its page and
number. `Reserves` gives every answer that `mpack_tree_reserve_bytes` may get: from the
buffer, from a read function that returns any number of bytes, fails, or blocks. "bare"
is the build of the `Makefile` (a pool, no `malloc`), "pool", "data" and "stream" the
three init functions in a build with `malloc`. Lengths from 2^24 on are one value (`HUGE`).
`Grown` is the capacity that `mpack_tree_reserve_fill` gives the buffer; `Pending` counts the nodes that headers have announced and that are not read.

**MpackNode.** `flagged` is the tree's error, `held` the node the caller was given last. Every
getter is an action; `Gets` is the shape they share: neutral value
after an error, result if the node is right, otherwise the function's error. Numbers
are eight bytes, compared by bytes; conversions to floating point are named, not
computed. `mpack_utf8_check` is the length of the character that starts at each byte
(`CharLen`, the arms of the loop in `mpack-common.c:601`) and the condition that these
characters cover the string.

**tpl.** A tpl is a record of the map and what the calls change: nodes, lists of
elements with their blocks, flags, the text that was loaded. The caller's memory is a
function from addresses to values, an address a variable and an offset, so that
`calc_field_addr` is modelled by the address it computes. `tpl_map` reads one item at a
time with the locals of `tpl_map_va`. A format that makes it follow a stale or null
pointer ends as "undefined" (for example `)#` after an `A` or inside `$`), and so does a
tpl whose `tpl_free` looks behind the pointers of a string node: `Freed` is the number of
pointers it looks at, which goes by the last `#` behind the node whichever structure that
repeats, and `ReadsBehind` that there are fewer.
`Image` in `Tpl` are the images that may be loaded: the one dumped, the same from a machine
of the other byte order, and nine kinds of damage.

**TplGather.** `gs` is the fragment kept between calls, `img` and `at` the locals of a
call. One step is one `write`, one `read` or one turn of the loop that hands over images.

**nanopb.** A stream is a record of buffer, position, limit and state, a struct the
function from its members' offsets to values, so that members of a union share a place.
Descriptors are packed into words bit by bit and taken apart again, as `PB_FIELDINFO_*`
and `load_descriptor_values` do. `pb_encode` and `pb_decode` are operators, since nothing
interleaves with them; the varint loops and the iterator's search have a step per turn.
The build has neither `PB_ENABLE_MALLOC`, `PB_VALIDATE_UTF8` nor
`PB_CONVERT_DOUBLE_FLOAT`, is little endian, and `pb_size_t` has 16 bits.

**Usage files.** Encoding with mpack goes on after an error and asks for it at the end.
Decoding stores what each call returns, 0 after an error. `Stale` is what the caller's
structs hold before decoding: `main.c:219` passes uninitialised memory.

## Runs and what they show

| Run | Distinct states | Shows |
|---|---|---|
| `Transfer` | 11219 | two clients and a server, without faults, with killed processes, and with every fault: `PayloadIntact`, `ReportsAgree`, `DescriptorsClosed`; `Delivery` is implemented; `ServerAnswers` and `ClientsEnd` (nobody waits for ever, vanished hosts excepted); `EndToEnd` (without faults a payload that fits is delivered) |
| `Demo` | 213680 | `Main`: every command line, every step failing, one to three tests of three durations in every order: `ExitCode`, `LineDescribesLoop`, `DeviationOfLoop`. The usage files: the functions that `main` calls, in each library, with the structs of its commands, structs at both ends of every type and buffers that some of them miss by one byte: `RoundTrip`, `ForeignIsRefused`, `FitsOrFails` (with the sizes of the table in `README.md`) |
| `Mpack` | 1090387 | writer and reader: up to four calls at the bounds of every encoding, on a buffer that runs full, every cut, the same or other expect calls: `NoGap`, `ReadsWhatWasWritten`, `CutIsNoticed`, `FirstErrorStays`. The parser over every sequence of up to 3 bytes of eleven kinds and up to 4 of five, and over 17 messages in pieces with wide and tight limits, `malloc` and reads failing or not: `TreeIsMessage`, `NodesApart`, `NothingLeaks`, `ErrorsDeserved`. The getters: `IntegersExact`, `LookupsExact`, `TextsExact` |
| `Tpl` | 228123 | up to five calls on four nested formats with good and damaged images: `DocSpec` (`TplDoc` is implemented), `OnlyGoodImagesAreTaken`, `BlocksAreReachable`. Every format of up to eight items of two alphabets: `MapFitsMemory` (the datum of an array holds an element, and the fields of structures without nested ones of several widths are where C puts them). Gather: three streams, three modes, pipe and file, any cut, failing reads, writes and callbacks: `ImagesInOrder`, `NoneHeldBack`, `AllHandedOver`, `FileHoldsImages` |
| `Nanopb` | 27571 | every field type, presence and allocation, buffers of every size, readers with other, narrower and wider members: `RoundTrip`, `Joined`, `NoneMistaken`, `AcceptedIsWhole`, `AcceptedIsUsable`, `AnnouncedSizes`; the varint loops: `VarintsExact`; the iterator: `Finds` |
| `TransferSigPipe`, `PbFixed`, `TplSlots`, `TplRootBin`, `TplNested`, `MpackNodesLimit`, `MpackSizeLimit` | | findings 1 to 7 |

Three of these properties are narrower than one would like, because the code is; what is cut
out is a comment the code keeps (the first) or a finding (the others):

* `NoneMistaken`: a reader with another width gets a number right or refuses the message,
  but of a plain varint a member of at most 32 bits is given the lower 32 bits first
  (`pb_decode.c:1466-1475`, on purpose, for negative numbers of old encoders).
* `ErrorsDeserved`: under the limit of nodes a whole message is refused only if it has more
  nodes or was paused and gone on with; under the limit of bytes, of which half are always
  taken, only in a stream. Findings 6 and 7 are the difference to the documents.
* `BlocksAreReachable` is checked for formats whose last `#` of a level is that of its
  strings, and with `B` in arrays only; `MapFitsMemory` lays out a nested structure only
  if its fields have one width. Findings 3 to 5 are the formats beyond.

Every property of a passing run has a mutant in `PROJECT.json`: an operator with a
suffix (`Piece_NoOffset`, `StackFull_Early`, ...) that stands beside the definition it
changes, as a plausible slip in the code would.

`CHECK_DEADLOCK FALSE` in every configuration: the program ends, calls are bounded, and a
server that no client reaches, or whose client's host vanishes, waits for ever by design.

## Bounds

* **Transfer.** Two clients suffice for one accepted and one waiting in the backlog. Bytes
  are 0..2 and the length has two of them, so that the length, too, arrives in pieces and
  values beyond `MaxBuffer` exist; one payload fits the buffer, one does not. `SendBuf` 2
  makes a frame longer than what the kernel holds, so that clients wait.
* **Main** (in `Demo`). `test_number` up to 21 covers both branches of the warm-up rule except
  `test_number / 1000 > 10`, which changes only how many warm-up tests are made. Three
  durations, one in the middle, give every order and equal elements.
* **MpackStream** (in `Mpack`). `MCProgram` allows two calls at every pair of bounds and up to four of a
  few; 12 bytes make an overflow followed by a smaller write that fits.
* **MpackTree** (in `Mpack`). Pages of 3 nodes, a stack of 2 and a buffer of 2 bytes, so that messages of
  seven bytes take pages, own pages and grown stacks in several orders; pools of 1 to 5.
  The getters' trees have numbers one beside every limit of every width, maps with keys
  equal in value and different in encoding, and first and second bytes on either side
  of every bound of UTF-8. `failing` is chosen at the start, so that errors are looked at with
  and without the excuse that `malloc` or a read failed. A tree of numbers or text is asked once, one of maps any
  number of times.
* **Tpl.** `MaxCalls` 5: pack twice, dump, load, unpack. `MaxItems` 8 is the shortest that
  has an array in a structure in an array with `#`. Two contents of memory, and values that
  differ in every element.
* **TplGather** (in `Tpl`). Streams of two or three images of 9 to 12 bytes (the preamble has 8),
  `BufLen` 10, `Room` 12, `GatherMax` 20: an image in several reads and two in one.
* **Nanopb.** Structs with every type at its limits; `HugeSize` is 2^30; messages are joined
  only when they have no callbacks; a program that decodes a submessage in its own callback
  is excepted from `RoundTrip` and `Joined` (`Intercepted`), because it has the bytes.
* **Usage** (in `Demo`). `MAX_BUFFER` and `MAX_ARRAY` are the code's; 72, 64, 117 and 790 bytes are
  exactly, or one less than, what some structs take.

## Fairness

`FrameTransfer`: weak fairness of `Server`, of each `Client(c)` and of `RstArrives(c)`. The
first two say that a process whose next system call can return is scheduled: both are
ordinary processes that block only in calls the guards describe. The third says that
the kernel of the server's host answers data for a closed connection. `faults` is chosen
at the start, and the sets without `recv` are there so that no failing call ends a wait
that the code should end. Vanished hosts are excepted: the code sets no timeout.

`TplGather`: weak fairness of the writer, whose loop (`tpl.c:1045`) goes on until all is
written, and of the reader, which the program calls as long as there is something to
read. Nothing else has liveness properties: their steps follow each other without waiting
for anybody.

## Proofs

All theorems hold for every value of the constants that the named assumptions allow.

| Theorem | States |
|---|---|
| `FrameTransferProofs!TypeCorrect` | `[](TypeOK /\ WritesInBounds)`: `recv_all` never writes past the caller's buffer |
| `FrameTransferProofs!PayloadIntactAlways`, `ReportsAgreeAlways` | the two safety properties of the transfer |
| `FrameTransferProofs!DescriptorsClosedAlways` | every path closes what it opened, if `FirstFd # 0` |
| `FrameTransferProofs!Implements` | `Spec => ImplementsDelivery` |
| `MainProofs!ExitCodeHonest` | `Spec => []ExitCode` |
| `MainProofs!LinesAreTrue` | `Spec => []LineDescribesLoop`: the printed shortest, longest and middle duration |
| `MainProofs!DeviationsAreTrue` | `Spec => []DeviationOfLoop`: the deviation is that of the durations measured |
| `MpackProofs!PositionsInBounds` | `Spec => []TypeOK` of `MpackStream` |
| `MpackProofs!StreamIntact`, `ErrorsAreFinal` | `Spec => []NoGap`, `Spec => FirstErrorStays` |
| `MpackProofs!WrittenIsRead`, `CutIsAlwaysNoticed` | `Spec => []ReadsWhatWasWritten`, `Spec => []CutIsNoticed` |
| `MpackUsageProofs!OwnBytesComeBack` | `Spec => []RoundTrip` of `MpackUsage`: mpack's part of the `RoundTrip` that the run `Demo` checks for three libraries |
| `MpackTreeProofs!TreeFreesAll`, `NodesStayApart` | `Spec => []NothingLeaks`, `Spec => []NodesApart` |
| `MpackTreeProofs!IntegersReadExactly`, `LookupsFindTheOne`, `TextsAreUtf8` | `IntegersExact`, `LookupsExact`, `TextsExact` |
| `PbProofs!VarintsAreExact` | `VarintSpec => []VarintsExact`: nanopb's varint loops, for every value and every input |
| `PbProofs!IteratorFinds` | `IterSpec => Finds`: the field iterator over any message, under any calls |
| `TplGatherProofs!GatherTypes` | `Spec => []TypeOK` of `TplGather` |
| `TplGatherProofs!NothingIsLost`, `HandedOverInOrder` | what was read is what was handed over and what is held; images are handed over whole, once and in order |
| `TplGatherProofs!NothingWaits`, `NothingIsRetained`, `FilesHoldImages` | `NoneHeldBack`, `NothingRetained`, `FileHoldsImages` |

*Assumptions.* `FrameTransfer`: `NoClient` is no client, payloads are sequences of bytes,
sizes are positive numbers, and `htobe64` and `be64toh` are inverse on the sizes sent.
`Main`: arguments are numbers, durations natural ones. `MpackStream`: sizes are numbers,
each call's value fits the parameter of its function. `MpackTree`: sizes, limits and pools
are positive, sources are bytes. `TplGather`: streams are images one behind the other, and
then perhaps bytes that are no image (`IsStream`). `MpackNode`: the children of a node are
nodes, a map has two for each pair, strings and numbers are bytes. `MpackUsage` is used
inside of `MCUsage` only and has no `ASSUME` of its own: its theorem names the condition,
`InputsOK`, and `MCDemo` assumes it, so that TLC evaluates it for the instance it runs.
It says that the structs have the C types of `wifi_softap_info_t`, that there are at most
`MAX_ARRAY` of them, and one if it is not an array.

`PbVarint`: values have 64 bits, inputs are bytes. `PbIter`: a message has fields, in the order
of their tags as the generator writes them, whose parts have their C types and pass
`PB_FIELDINFO_ASSERT` of their format (`IsMessage`). In the wide formats the
assert looks at `size_offset` after its cast to a signed byte, which leaves 0 to 127. The
theorem is about descriptors of less than 2^16 words: the counters of the model do not wrap.

*Transfer.* `PayloadIntact` speaks of the end only and is not inductive: that the buffer
is right at the end needs that it was right at every byte, that the bytes on the wire
are the right ones, and that the two ends agree where the length stops and the payload
starts. `FrameInv` says so: `Handed(c)` ties each client's program counter and `sent`
to the bytes it has handed over, a prefix of its frame; `ReceiverInv` ties the server's
program counter, `got`, `taken`, `netlen` and `buffer` to a prefix of what one client
handed over. The refinement maps a client to *submitted* when its frame is on the wire
completely, and shows per group of actions that a step is a `Submit`, `Report`, `Deliver`,
`GiveUp` or a stutter. `DescriptorsClosed` needs `DescriptorsInv`: before
`accept` nothing but the listening socket is open, so that `cleanup_lsock`, by which a failing
`bind` or `listen` leaves, closes everything.

*main.* `Outcome`: until the last step `ret` is -1 and nothing has failed. For the
lines, `BenchInv`: while loops run, `times` of a loop holds what was measured in it, warm-up
left out; while lines are printed, the arrays of the loops still to come are what was
measured; and the lines there are belong to the first loops, each computed from all
that its loop measured. The lemmas on `qsort` show that sorting by rank is in order for
arrays of any length, so that first, last and middle element are the minimum, the maximum
and a median of the array as it was; and that a duration with B others below it and U up to it
has the places B+1 to U, as many as it had before (`Occurrences`). A sum over an array is one
over the values, each as often as it occurs (`Grouped`), so sorting changes neither the
sum nor the sum of squares (`Rearranged`), and from these two come the deviation of the
code and, by Lagrange's identity, the squared differences of each to each.

*mpack.* `MpackCallProofs` shows of every write call that its encoding consists of bytes
and starts with a tag that `mpack_parse_tag` takes for its kind, of its size; and of every
expect call what it returns at the start of an encoding, in front of one that is cut, and at a
tag of another kind. In particular every number of 32 bits comes back from the shortest of
its encodings. `Inv == TypeOK /\ NoGap` is inductive: a write appends its encoding to
buffer and stream or flags an error. Reading needs `Progress`: the accepted calls have
offsets in the stream (`LaidOut`), and while the reader has no error it stands at the offset
of the next call and has read the values of the ones before; when it was given
fewer bytes, it can not have reached the last offset.

*mpack usage.* `UsageInv`: while encoding, the buffer is a prefix of the fields of the
schema in their order, or the writer has an error; while decoding own bytes, the reader
stands at the offset of field `field` of struct `elem`, and the caller's structs have what
was encoded before that place and what they held before behind it. Each expect call is then
at its own encoding, by the lemmas of `MpackCallProofs`. Conversions (`uint8_t` channel,
`uint16_t` frequency) are the identity by the types in `InputsOK`.

*mpack node.* `LeakInv` adds to the accounts (blocks are the pages and the stack if it has
grown) that a destroyed tree has neither; each action allocates, frees or moves blocks
together with what it does to the two lists. `TreeInv` is for `NodesApart`: while there is no
error, every node read, every child of one (`TreeOK`) and every node that a level of the
stack still waits for (`StackOK`) was handed out, that is, it lies in a page, and in the
current one before `nodes`; no two nodes share a child, and the root is nobody's; `nodes` and
`nodes_left` make up the current page (`PagesOK`); and nodes read plus `Pending(stack)` are
within both `node_count` and the bytes that were reserved for them (`CountOK`). The two
limits of `NodesApart` are not inductive by themselves: a header announces nodes before
their bytes are there, and what carries the limits is that no more nodes were read than
`size` bytes, and no more counted than `node_count`.

*mpack getters.* `NodeInv` says that root and last node are nodes of the tree, `Nil` or
`Missing`; the rest is one step. The lemmas are about bytes: eight bytes that begin with
zeros, or with the sign, are exactly the numbers that fit the width (`FirstDifference`,
`BoundAt`); and the arms of `mpack_utf8_check_impl`, which compute a code point and compare
it with the overlong, surrogate and last bounds, accept exactly the rows of the Unicode
table (`Utf8IsUnicode`).

*tpl gather.* `GatherInv`: the kinds of all variables; `WriterInv`, the bytes written are a
prefix of the stream and a file ends at a cut when it is closed; `ReaderInv`, fragment and
chunk are the bytes of the stream behind what was handed over, which ends at a cut; and
`NoneHeldBack`. The lemmas on words show that a length read from bytes of the stream is
the length of the image there, in both byte orders.

*nanopb's varints.* `VarintsExact` speaks of the end. `VarintInv` says where each loop is:
of the encoder, that the bytes put out so far are the marked groups of the value and the
rest is still in the low word, in the high one, or between them (`InLowWord`, `InHighWord`);
of the decoders, that `bitpos` is seven times the bytes read, that all of them were marked and
those beyond bit 31 or 63 harmless, and that `result` holds exactly what they say
(`Running`); and it names why a loop ended. The lemmas are about bits: a number is the
set of its bits (`PbBits`), a byte is seven of them and its mark, and eight groups of
seven bits make seven bytes, which is how `AsModelled` compares a loop with the operators of `PbWire`.

*nanopb's iterator.* `IterInv`: the descriptor is the one that `PB_BIND` makes of the message;
the four counters belong to the same field (`Counted`: the index, and as sums over the
fields before it the words of the descriptor, the submessages and the required fields); a
caller sees the field at those counters loaded (`HasLoaded`); and a find that is under way has
passed no field it should have stopped at, going round from where it started (`Looking`).
`Finds` is not inductive because of the last: that "not found" is right needs every field passed so
far, and these are an interval that may wrap around the end. Under it lie the four formats
of a descriptor: what was packed in 1, 2, 4 or 8 words is what is loaded (`Unpacked`), if the
asserts of the format hold, and the words of a field are found at the sum of the widths
before it (`Described`).

Induction over the numbers is done by a least counterexample (`Least`, from `WFMin`):
recursive functions over `Nat` such as `Pending`, sums and offsets are within reach of the
provers, recursion over messages, formats or values is not. What stays with TLC:

* liveness and what rests on `ENABLED`: `ServerAnswers`, `ClientsEnd`, `EndToEnd`,
  `AllHandedOver`;
* properties whose definitions, or whose model, is recursive over formats, trees or messages:
  `DocSpec`, `OnlyGoodImagesAreTaken`, `BlocksAreReachable`, `MapFitsMemory` (tpl);
  `TreeIsMessage`, `ErrorsDeserved` (mpack node); all of `PbCodec` (nanopb), and with them the parts of `RoundTrip`, `ForeignIsRefused` and `FitsOrFails` of
  `MCUsage` that are about tpl and nanopb;
* the sizes of `FitsOrFails`, which are numbers of the program's tables, and `ForeignIsRefused`,
  which is about three given buffers: TLC has all their cases.

## Findings

With a run that shows it:

1. **SIGPIPE** (`sample_structure.h:107`, `TransferSigPipe`). A client whose server has closed
   is killed by the signal inside `send`; the comment of `socket_send` promises a return value.
2. **Fixed arrays** (`pb_decode.c:901`, `PbFixed`). `pb_decode.h:73` says that all fields but
   callbacks are initialized; an array of fixed length that is not in the message keeps what
   the struct held.
3. **Strings beside a loop** (`tpl.c:721`, `TplSlots`). `tpl_free` counts the pointers of a string
   node by the last `#` behind it, also when that repeats another structure. With `sS(c)#` it
   reads and frees behind the node's block; with `S(s)#S(c)#` and a smaller second number packed
   strings stay allocated. The comment: "free any packed (copied) string".
4. **Root `B`** (`tpl.c:619`, `TplRootBin`). `tpl_free_keep_map` drops the `tpl_bin` of a `B` at the
   root, which is then never freed; `tpl_load` calls it to "reset it as if newly mapped".
5. **Nested structures** (`tpl.c:313`, `TplNested`). They are placed without C's padding for
   their widest field; the comment at `tpl.c:288` says that the padding is taken into account.
6. **Limit of nodes** (`mpack-node.c:284`, `MpackNodesLimit`). An array whose bytes were missing is
   counted again each time `mpack_tree_try_parse` comes back, so that a message within
   "the maximum number of nodes per message" is refused.
7. **Limit of bytes** (`mpack-node.c:95`, `MpackSizeLimit`). What has arrived of a node is counted
   together with all that was reserved for it, so that whether a message is within "the maximum
   size of a message in bytes" depends on where its pieces end.

Noticed while modelling; the models do what the code does, and no run checks the doc's
words:

* `main.c:64`: `calculateMedian` sorts the array, against its comment. MIN and MAX are right only
  because it does, which is what `LineDescribesLoop` is about.
* `main.c:387`: nanoseconds are printed as "us"; the comment at `main.c:383` says they are
  converted.
* `tpl.c:1551`: an image that was read for `TPL_FD` and then refused is freed by nobody.
* `tpl.c:1547`: `tpl_load` assigns the flags anew after `tpl_sanity` has set
  `TPL_OLD_STRING_FMT`, so strings of 1.2 images lose their last character.
* `tpl.c:2343`: `gather_max` is "max tpl size" (`tpl.c:241`), but two of the modes compare
  fragment plus chunk with it.
* `mpack-node.c:1089`: in memory the limit of bytes is not looked at (doc at
  `mpack-node.h:435`).
* `mpack-node.c:1233`: `mpack_tree_size` is not zero after an error (`mpack-node.h:518`).
* `mpack-node.c:1573`: a string that does not fit raises `too_big`, not `data`
  (`mpack-node.h:1081`).

Limits of the promises, not contradicted by any document: a client's 0 says that the kernel
took its bytes, not that a server returned them (`Delivery` states what remains); a process
started with descriptor 0 closed leaks a socket, because `if (sock)` takes 0 for none; a tpl
that refused an image must be freed, a second load would go by what the first one left.

## Not modelled

* mpack's flush and fill functions, growable buffers, builder, in-place reads, tracking, the
  writes and expects of strings, maps, floats, 64-bit numbers and enums: the program calls
  none of them, and most are not built. Of the node API: trees of files, printing,
  timestamps and extensions (not built), error callbacks and teardown, changing the limits
  while a message is parsed.
* tpl: running out of memory, which ends the process; the image of a refused `TPL_FD` load; negative or huge counts in images and
  images shorter than a preamble given to `tpl_load` with `TPL_MEM`.
* nanopb: what needs `PB_ENABLE_MALLOC`, `PB_VALIDATE_UTF8` or `PB_CONVERT_DOUBLE_FLOAT`,
  streams with functions of their own, extensions with encoders of their own. How often a
  callback is called and what it is given is in `PbDecode`, but no property compares it; the
  limit of 64 in the set of required fields is not reached.
* The usage files' checks for null pointers, which no caller passes.
* `SHOW_STRUCTURE`, `SHOW_CAL` and all printing except the statistics; the parsing of numbers
  and addresses (`atoi`, `inet_pton`), whose failure is a step.
* The stack: three arrays of `test_number` doubles may exceed it (`main.c:291`), and
  `nanopb_encode_array` does not look at its count, which no caller makes larger than the
  list (`InputsOK`).
* Rounding of doubles and the clock.

## Plan

1. *Transfer*, *commands*, *mpack writer and reader*, *node API*, *tpl*, *tpl gather*,
   *nanopb*, *usage files*: modelled and checked. **Done.**
2. Theorems: those of the table above. **Done**: transfer, benchmark, mpack's stream, parser,
   getters and usage, gather, nanopb's varint loops and field iterator. Left: mpack's part of
   `FitsOrFails`, and the layout that `tpl_map` gives a structure (`FieldsWhereCPutsThem`), for
   formats of any length.
3. mpack's writer and reader beyond what the program calls: flush and fill functions, strings
   and maps, over the same `MpackStream`.
4. *Composition*: the two commands over an abstract codec (encode then decode is the
   identity, foreign bytes may be refused), refined by each of the three usage modules, over
   the one buffer of `main.c`.
