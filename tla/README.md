# A TLA+ model of the stock demo

The repository is a demonstration of sockets, pcap and CUDA: a client makes up
stock quotes and sends them over the loopback device, a server captures them
with libpcap, keeps a window of prices for the stocks it follows, and looks for
the pair of stocks with the smallest correlation factor on a GPU.  This
directory holds a model of it, its TLC runs, and proofs checked by TLAPS.

Line numbers refer to `src/server/main.cpp` unless another file is named.

## 1. Inventory

| Component | State | Operations | Hard behaviour |
|---|---|---|---|
| **Quote generator**, `client/main.cpp` `udpClient` | loop `lc`, group `i`, next `stock_id` | `sendto` of a group, next loop, `Die()` when `sendto` fails | dies in the middle of a loop; does not know whether the server listens |
| **Wire format**, `common/global.h` `stock` | the byte buffer and the pointer moving through it | `writeInt`, `readInt`, `encode`, `decode` | signs and unsigned bytes |
| **Opening the capture**, `pcap_open_live`, `pcap_close`, `pcap_close_all` | the handle's fields, what is really allocated, promiscuous mode | one step per resource, with its failure | two packet interfaces, several cleanup routines, exit handler |
| **Ring**, `create_ring` | the request to the kernel, the pointers to the slots | compute sizes, ask, ask for less, fill | sizes that must add up after every retry |
| **Installing the filter**, `pcap_setfilter_linux_mmap` | filter on the socket, read position, number of frames to filter in user space | attach, drain, attach, count backward | the kernel fills the ring meanwhile |
| **Filter compiler**, `pcap_compile` | flow graph, program | reductions, layout, long branches | open branches threaded through themselves; a layout that starts again |
| **Filter machine**, `bpf_validate`, `bpf_filter` | program counter, registers, scratch memory | one case per instruction | the validator's arithmetic is not the interpreter's |
| **Device list**, `pcap_findalldevs` | sorted list of devices and addresses | getifaddrs, `/sys/class/net` or `/proc/net/dev`, "any", USB | sources are separate snapshots; failure half way |
| **Loopback capture**: kernel receive queue, packet ring, libpcap's `pcap_loop` and `pcap_read_linux_mmap` | queue, ring slots and their owner, read and fill position, packets still wanted | a copy in, a copy out, poll and its timeout, hand over, give the slot back | a ring shared with the kernel, loss when queue or ring is full, each packet seen twice |
| **Header checks**, `my_callback` | pointer and remaining length in the slot | one step per header, the write, the records | signed and unsigned lengths, a payload nobody measures |
| **stocks.db** | stdio buffer, disk | `fopen`, `fwrite`, flush, `fclose`, `abort` | no result is looked at; crash and restart |
| **Server callback**, `my_callback`, `allPriceOK`, `main` | `g_priceMap`, `g_ready`, `g_current_stocks`, `g_last_loop`, `g_last_done_loop`, `stocks.db` | check headers, save, decode a record, complete a round | trimming scan that stops early; readiness cached for ever; a counter no loss is allowed to upset, and every loss does |
| **Pair search**, `coefficient.cu` `coefficient` | `min_cof`, `stock_x`, `stock_y`, device arrays | copy windows, compare a pair, report, abort | NaN factors, uninitialised result |
| **Correlation of a pair**, `coefficient_single` | one device word, one host word, five sums | launch, copy, add | no error is checked and both buffers are reused |
| **Reduction kernels**, `dot`, `sum`, `sumSquare` | shared array, stride | load, barrier, add the neighbour, write the output | threads race between two barriers |

How they interact: the client only ever calls `sendto`.  The kernel puts a copy
of the datagram into the ring as it goes out and another one as it comes in, the
latter after a bounded queue.  The server is a single thread: `pcap_loop` calls
`my_callback` with a pointer *into the ring slot*, and the slot goes back to the
kernel when the callback returns.  `my_callback` calls `coefficient`, which ends
in `abort()`, so the first completed search is the last thing the server does.

What is not modelled, and why, is section 7.

`prepare/` and the slides are unrelated exercises; `build/` holds build products.
One of these, `build/stocks.db`, is the output of a real run: 3299 payloads of
404 bytes, in order, none twice, with one gap of 721 payloads.  It is
the evidence for treating the transport as a FIFO that loses in bursts.

## 2. Modules

| Module | Models | Lines of TLA+ to know first |
|---|---|---|
| `Client` | `udpClient` | `Sendto`, `SendtoFails`, `NextLoop` |
| `Capture` | loopback queue and ring (external), `pcap_loop`, `pcap_read_linux_mmap` | `Transmit`, `Receive`, `PassToUser`, `CallbackReturned`, `ReadReturns`, `LoopReturns` |
| `Server` | `my_callback`, `allPriceOK`, `main`, against *any* sequence of datagrams | `Written`, `PushPrice`, `StoreRecord`, `GetAll`, `GetAllAndCompute` |
| `ServerFile` | properties of `stocks.db` and of the round counter | `Framed`, `FileReplaysPrices` |
| `LossyFifo` | abstract specification of the transport | `Send`, `Lose`, `HandOver` |
| `StockSystem` | composition of `Client`, `Capture` and `Server` | `FeedIsLossyFifo`, `Fairness` |
| `FrameParse` | header checks, file write and decoder pointer in one ring slot | `CheckOptions`, `Payload`, `Owner` |
| `StocksDb` | the file between stdio and the disk, over restarts | `Main`, `Flush`, `Abort`, `Kill` |
| `Activation` | opening and closing the capture | `held` against `ptr`, `Cleanup`, `PcapClose` |
| `RingLayout` | `create_ring` | `MatchBlocks`, `Less`, `FillBlock` |
| `FilterSwap` | `pcap_setfilter` on a running capture | `WalkFree`, `Count`, `ReadFrame` |
| `Bpf`, `BpfRun` | `bpf_validate`, `bpf_filter` | `TargetOk`, `Beyond`, `Ja` |
| `Gencode` | the flow graph: `backpatch`, `merge`, `gen_and`, `gen_or` | `Link`, `gen_and` |
| `Grammar` | the parser's reductions on top of `Gencode`, and what the graph means | `AndTerm`, `Accept`, `Outcomes`, `Met` |
| `Layout` | `icode_to_fcode`, `convert_code_r`, `install_bpf_program` | `Retry`, `LongCode` |
| `FilterCompiler` | `pcap_compile`: composition of `Grammar` and `Layout` | `Parse`, `CompileEnds` |
| `ServerFilter` | the server's own filter, from its text to the verdict | `Filter`, `Frames` |
| `DeviceList` | `pcap_findalldevs` and its sources | `add_or_find_if`, `NoMemory`, `AddressFrees`, `GoesBefore` |
| `ServerProcess` | `pcapServer`: composition of `DeviceList`, `Activation`, `RingLayout` and `FilterSwap` | `MakeRing`, `FilterDone`, `StartEnds` |
| `Codec` | the bytes of a datagram | `writeInt`, `readInt` |
| `Datagram` | composition of `FrameParse` and `Codec`: from the client's records to the server's | `Overwritten`, `RoundTrip` |
| `Recording` | `Datagram` and `StocksDb`: a payload from its frame to the disk | `Callback`, `File` |
| `Reduction` | one block of a kernel | `ReadCells`, `WriteCell`, `Barrier` |
| `Correlation` | `coefficient_single` | `Launches`, `Take` |
| `Coefficient` | `coefficient`, calling `Correlation` for each pair | `Call`, `ComparePair` |
| `MCServer`, `MCRecording`, `MCFilter`, `MCLoads`, `MCServerProcess` | values of the constants for TLC | |
| `ServerProofs`, `StockSystemProofs`, `DatagramProofs`, `StocksDbProofs`, `ServerProcessProofs`, `FilterProofs`, `CoefficientProofs`, `ReductionProofs` | theorems, section 5 | `IInv` |

A definition whose comment starts with "Mutant" is a deliberately wrong variant
of the definition that follows it.  No specification uses it; putting it in the
place of the original shows that the property meant to catch the mistake does.

### Server

The variables carry the names of the globals.  `packet` and `slot` are the local
state of `my_callback`; `callbacks` is the number of packets `pcap_loop` has
handed over; `quoted` is auxiliary, the complete history of prices stored.

The callback is cut into one action per record, so that properties speak about
the state between two records, where the windows differ in length:

| Code | Action |
|---|---|
| 110–163, a header check fails | `CallbackReject` |
| 178–183, the loop is already computed | `CallbackDone` |
| 178–190 | `CallbackEnter` |
| 192–198, id not followed | `SkipRecord` |
| 198–205, count not reached | `StoreRecord` |
| 205–213, count reached, a window short | `GetAll` |
| 205–208, count reached, all windows full | `GetAllAndCompute` |
| end of the loop over records | `CallbackReturn` |
| `abort()` inside `coefficient` | `Abort` |
| `pcap_loop` returns, file closed | `Finish` |

`allPriceOK` has a side effect: it trims windows as it scans.  The model
therefore has its answer (`allPriceOK`) and its effect (`TrimScan`) as two
operators, and a record that completes a round applies them twice, as the code
does (once before the price is pushed, once after).

What is written and what is decoded are two things: line 180 writes the captured
bytes behind the UDP header, line 192 decodes `GROUP_STOCK` records whatever was
captured.  A datagram therefore has, beside its records, the number of its bytes
(`len`), and the file gets `Written(d)`, the records that lie wholly in them.  For
the client the two agree.  After a shorter or a longer datagram of somebody else
the file, which has no marks between payloads, can no longer be read in steps of
a payload, and `FileReplaysPrices` claims nothing of what follows.

`g_last_done_loop` is assigned only after the call of `coefficient`, which never
returns; it keeps its initial value, which is part of the type invariant.

### FrameParse, Datagram, StocksDb and Recording

`FrameParse` is the inside of the two actions `CallbackReject` and
`CallbackEnter` of `Server`, on its own because lengths need other values than
prices do.  A frame is its captured length and the two fields the callback looks
at; the slot remembers the lengths of all frames it has held, so that `Owner`
can say who wrote a byte last.  The comparison of the signed `capture_len` with
an unsigned size is `TooShort`, which a negative length passes.

The payload's length is not checked by the code.  What the model says about it:
the records are read inside the slot (`DecodeInsideSlot`), those of the client
come from the client's datagram (`ClientRecordsOwn`), and a shorter datagram of
somebody else is decoded from what an earlier frame left behind.

`Datagram` puts the bytes of `Codec` into that slot and lets `FrameParse` find
its way: `RoundTrip` is about the numbers at both ends, with headers of any
length before them and an older frame below them.

`StocksDb` knows bytes by the run that wrote them and by their number.  Between
`fwrite` and the disk is a buffer that is written out in pieces of any size;
`abort()` may or may not write it, a signal does not.  A payload has any length up
to `PAYLOAD`, none included, since the callback checks only the headers.

`Recording` puts the two next to each other.  They share a single number, the
length given to `fwrite`; no check of a frame depends on the stream and nothing in
the stream on the frame.  So the two are not interleaved: one part is run for
every length of frame, the other for every sequence of payload lengths.

### Opening, filtering and closing a capture

`Activation` keeps apart what is allocated (`held`) and what the handle's fields
say (`ptr`), because the cleanup routines go by the fields.  `pcap_activate_linux`
tries the new packet interface, then the old one; the ring comes last; each has
errors that clean up themselves, errors that jump to `fail`, and one that does
neither.  `RingLayout` is `create_ring`, `FilterSwap` is `pcap_setfilter`, and
the reading part of `FilterSwap` is that of `Capture` with the filter put back.

`ServerProcess` runs them in the order of `pcapServer`: the list of devices, the
opening, with `RingLayout` taking its steps while `Activation` stands at
`create_ring`, the filter while frames already arrive, and reading until the loop
ends or the callback aborts.  A failure of one part decides how the next one
starts: a ring that cannot be made leads to the plain interface, where no frame
is ever stored in a ring, and a filter that cannot be attached to an exit that
leaves the handle to the exit handler.  The filter is only looked at on the ring.
`DeviceList` comes before them; the server prints the list and never frees it.

In `DeviceList` the memory is kept by block: the `pcap_if_t`, its name and its
description, the `pcap_addr_t` and the up to four `sockaddr` copies it points to.
Any allocation may fail; what was allocated before it is in use, and what the code
frees on that path (`EntryFrees`, `AddressFrees`) is taken away.  A path that frees
too little leaves blocks nobody points to, one that frees too much leaves a mark
(`Free`); `NothingLost` excludes both.  Which of the four a `getifaddrs` entry has is
`sockaddrs`, a parameter, since any of them may be null.

An entry of `/sys/class/net` whose `ifindex` cannot be looked at is passed over
without an error, whatever the reason: an interface without addresses, which no
other source has, is then missing from a list returned with success.  `unread`
remembers these, and `SteadyListed` makes the exception.

`FilterSwap` shows a window the code cannot close: a frame that has passed the
old filter when the new one is attached, and reaches the ring after libpcap has
begun to count, is not filtered by anybody.  `ForeignOnlyLate` says that there
is no other way for a foreign frame to reach the callback.  That the callback is
safe with such frames is what `FrameParse` says.

`Activation` shows one leak (`NothingLeft`): for an Ethernet device the list of
link types is allocated a second time, and the first one lost, when the bind of
the new interface fails and the old one is tried.

### The filter: compiler and machine

`Gencode` gives the blocks of gencode.c as a sequence and every pointer as an
index, so that the lists of open branches, threaded through the branches, are
the code's.  A list is the set of blocks met when its links are followed, and
`backpatch` changes them all at once.  `Grammar` has one action per reduction; its
value stack carries, beside the block, the packets the expression is true of.
`Layout` places the blocks one per action, from the end of the array to its beginning, and starts again when a branch does not fit its field;
`Bpf` runs the result, one action per instruction.  Programs come from three
sources.  `FilterCompiler` takes every small expression `Grammar` can reduce, from
terms that look at one byte, and lays it out with branch fields narrow enough to
need long branches;
`ServerFilter` builds "port 4567 and udp", with the blocks the `gen_` functions
make for it on Ethernet; and arbitrary programs enter at `install_bpf_program`,
where only the validator stands before the machine.

The machine checks a packet load by a sum that wraps, so a load at a small
negative offset passes and reads before the packet (finding 4).  The value it gets
is any word.  `CompiledLoadsInside` says that no program of the compiler here does
this, also where an index comes from the packet, and `LoadsEndInside` proves what
the check does guarantee for every program.

The filter also passes UDP over IPv6, which `my_callback` then reads as IPv4;
these are foreign frames to `FrameParse`.

### Capture and StockSystem

`pcap_read_linux_mmap` is five actions (enter, poll, skip, pass on, return) and
`pcap_loop` is the counting in `ReadReturns` and `LoopReturns`.  The kernel is
modelled from how libpcap uses it: it fills a slot only when the slot has been
given back, and drops the frame otherwise.  In `StockSystem` three threads of
control interleave: the client, the kernel's receive path, and the server with
libpcap in its call stack.  The client may start before the capture is open:
`run.py` waits for one second and checks nothing.

In the composition a price *is* the loop it was quoted in, which lets a property
ask from which loop a stored price comes.

### Abstract specification

`LossyFifo` says what the server relies on: datagrams are numbered in the order
of sending, any of them may vanish, and those handed over are handed over in
order.  `StockSystem` maps its state to it: the queue is
the set of the numbers of the incoming copies in the ring that have not been
passed on and of the datagrams in the receive queue; what has been delivered is
what has been written to `stocks.db`.

### The GPU part

`Reduction` keeps, instead of a number, how often the term of each input is
contained in it.  The three kernels differ only in that term, so one module
stands for all of them and every claim is about every input.  The addition of
the neighbour's cell is cut into its reads and its write, since two threads may
run them in any order between two barriers.

`Correlation` leaves the kernels' results open and lets each launch and each
copy fail silently.  `Coefficient` calls it for each pair: a stock has one sum, the
same in all its pairs, a pair has a dot product of its own, and the factor is what
the formula of the code makes of the numbers that arrived, kept as a squared
fraction.  NaN, infinite factors and factors of 1 and above all come out of it.

## 3. Runs

| Run | What it shows |
|---|---|
| `server` | Against any sequence of datagrams: windows are exactly `PRICE_LIST_SIZE` long when they are read by index; a window is the newest part of the history; a window grows beyond the limit only behind a starved lower stock; once ready, windows only slide; `stocks.db` replays to the stored prices, up to the first payload of another length than the client's; the round counter is the number of stored prices modulo `SERVER_STOCK` |
| `recording` | The remaining length is exact and never negative; the decoder stays in the slot; the client's records are its own, and are the numbers it encoded, also in the file.  On the disk the file is in order and of one run; a crash loses at most the buffer and the payload in hand; a clean end loses nothing |
| `system` | The transport implements `LossyFifo`; the slot under the callback is never refilled; every datagram is accounted for and counted once; the windows of two stocks drift apart by at most the number of losses plus one |
| `system_shipped` | With the ordering of the shipped constants, `coefficient` is unreachable; the server stops unless too much is lost; nothing received stays in the ring |
| `process` | A steady interface is listed, unless its `ifindex` cannot be looked at; whichever allocation of the listing fails, what is in use is the list, and nothing after a failure; no double free or use after free; nothing left after a failure but the list named above; promiscuous mode is restored; slots are disjoint and as many as allocated; which foreign frames get through; the capture is not left deaf; the start ends in `pcap_loop` or in the end of the process; the ring is drained |
| `filter` | Graph and verdict agree with the expression, and with the server's text on truncated frames, fragments and IPv6; a validated program stays inside itself and its scratch memory, a compiled one also inside the packet; the layout's restarts end |
| `reduction` | No uninitialised cell is added; which inputs reach the output in every schedule; the kernel ends |
| `coefficient` | The report is the first minimum below 1 of all pairs, or names stocks nobody chose; a number taken by the host is its launch's own or, after a failure, left over from an earlier one of the same call |
| `get_all`, `reduction_sum`, `correlation_formula`, `filter_loads` | violations, see section 4 |

**Bounds.**

- `server`: 3 stocks, of which each datagram quotes 2, windows of 2, up to 6
  packets.  Three stocks are the fewest with one below, one at and one above the
  short window at which the scan stops; six packets are enough to fill all
  windows with two of them overlong, to complete several rounds, and to slide.
  One stock that is not followed and one payload with the loop id -1 exercise the
  two ways a record or payload is passed over.  Two datagrams of foreign lengths,
  one with a single whole record and one with more bytes than the loop decodes,
  come between the others.
- `system`: 4 stocks in groups of 2, of which 3 are followed, so that a group is
  half followed and a round does not end with a datagram; 4 loops with windows of
  2, so that loss can postpone readiness and still leave time for it; a ring of 3
  slots, so that the two copies of a datagram wrap at changing positions; a queue
  of 1, so that it overflows.  `SERVER_STOCK_COUNT` is all 8 datagrams, so the
  server may also be left waiting.
- `system_shipped`: `global.h` has 100 loops and windows of 4096, and the server
  wants 12500 of 50000 packets.  The run keeps the order: 2 loops, windows of 3,
  3 of 4 packets.
- `reduction`: the shipped 8 threads.  Ten inputs give two lanes two inputs and
  the others one.  The shared array has 9 cells instead of 256: those beyond
  the ninth could only be reached past the ninth.
- `coefficient`: 3 stocks, so that a row has more than one pair and there is more
  than one row; the sums and products 0, 1 and 3 with length 5 give factors that
  are equal, below 1, above 1, infinite and NaN; one failure per call.
  `correlation_formula` has three numbers a kernel can return and length 2.
- `recording`: numbers at the boundaries of the sign and of each byte, in every
  field; two records of 20 bytes, so that the second one starts behind the first;
  foreign lengths on both sides of every boundary of the checks, all 16 header
  lengths, two frames, of which the first may leave bytes behind.  For the disk,
  payloads of up to 3 bytes and a buffer of 4, so that a payload is split by the
  buffer; 2 starts, each with more bytes than the buffer holds twice over.  The
  proofs have no bound.
- `process`: the four types of device are the branches of the code.  Three
  interfaces, of which two have an address list, two share a number and one is a
  loopback device, a USB bus, and one change at any moment.  Among the entries of
  `getifaddrs` are some with all parts and some where one or more are null.  Pages of 256 bytes
  and snapshot lengths such that a slot is just below, at and above a fraction of
  a block; more frames than the 20 at which the step of the retries changes.
  Reading has 3 slots, 4 frames and 2 in flight: the ring fills, wraps, and is
  overrun while it is counted.  The ring of the reading part is not the one that
  was laid out: lengths and positions are told apart by different properties.
- `filter`: 4 terms over 2 bytes, 1 negation, and branch offsets below 3 instead
  of 256, so that most programs need several long branches.  For the server's
  filter the real offsets, the real port and fields of 256; frames cut at both
  sides of each field, IPv4 headers of 0, 5 and 6 words, the three kinds of
  fragments, and the protocols the program tests.  Arbitrary programs have three
  free instructions of 25 forms, with constants at the limits of each check.  Registers have
  16 bits, and the sums wrap.
- `filter_loads`: loads of each size, direct and indexed, at the offsets around both
  ends of the range of a word, on an empty packet and on one of 5 bytes.

Every action of every module fires in a passing run; the two of `Server` that the
composition does not use (`CallbackReject`, `CallbackDone`) fire in `server`.

**Deadlock** is not checked: a server that has ended, a kernel that has returned
and a search that has aborted all stop by design.  That the program does not stop
*early* is what `ServerStops`, `Drained`, `StartEnds` and `Terminates` say.

**Fairness.**  In `StockSystem`, weak fairness of the client's steps, of the
kernel's receive path and of the server's steps: three schedulable activities
of an operating system.  The server's poll has a timeout of a second
(`pcap_open_live` is given 1000 ms), so it returns also without a frame.  Nothing
is assumed of failures, and nothing of the network: a datagram may be lost
every time.  In `ServerProcess`, weak fairness of the next step of the one
thread there is, but neither of the end of `pcap_loop`, which may wait for ever,
nor of the network; in `ServerFilter`, of the compiler and the machine, which wait
for nobody.  A system call that returns an error is a step; none that blocks is
assumed to return.  In `Reduction`, weak fairness of each thread and of the barrier: the
device runs a block to its end.

**Why the windows drift by `lost + 1` and not by `lost`.**  Let the call of
`coefficient` happen while loop `c` is decoded and let `P` be the window length.
Prices are stored in the order of loops, one per stock and loop at most, so entry
`k` of a window is of loop `c - (P - k)` at the latest.  A stock that has not yet
been decoded in loop `c`, and all of whose losses fall into its window, has at
entry `k` loop `c - 1 - (P - k) - lost` at the earliest.  Without any loss the
count ends with the last followed stock of a loop, and both are the same loop.

## 4. Findings

1. `get_all`: line 206 prints "server get all" and computes when
   `g_current_stocks` reaches `SERVER_STOCK`.  The counter counts prices of any
   stock in any loop and no new loop resets it.  After one lost datagram a round
   ends, from then on, in the middle of a loop, while followed stocks still
   have no price of that loop.
2. `reduction_sum`: the reduction adds `cache[cacheIndex+1]`
   (`coefficient.cu`, line 104) where a halving stride needs
   `cache[cacheIndex+i]`.  The output misses the upper lanes altogether
   (`OutputLanes`), and what it contains of the others depends on the schedule.
3. `correlation_formula`: the comment at `coefficient.cu`, lines 114 and 115,
   states the formula.  The code divides the whole numerator by the length and
   takes the sums of squares from the kernel `sum` instead of `sumSquare`.
4. `filter_loads`: `bpf_validate` lets any load offset through, because "the runtime
   packet length check suffices" (`bpf_filter.c`, lines 579 to 581).  The check
   adds the size to the offset, an `int`, and compares as unsigned (line 258): a word
   at -4 has the sum 0, which is never above the length, and the word before the
   packet is read.  The same holds for words at -3 .. -1 and half words at -2 and -1
   whose end is inside the packet.

Also shown, by passing runs: with the constants of `global.h` the windows never
fill, so the GPU part is never reached (`NeverReady`); and if no factor is below
1, the report names two uninitialised numbers (`ReportIsMinimum`).

## 5. Proofs

The proof modules state their theorems for every value of the constants that
satisfies the named assumptions, all of which TLC evaluates in the runs.  A
property in the table is the one the run checks.

| Module | Theorem | States |
|---|---|---|
| `ServerProofs` | `TypeCorrect` | `TypeOK` of the server |
| | `WindowsExact` | `WindowExact` |
| | `WindowsAreNewest` | `WindowIsNewest` |
| | `GrowthIsStarvation` | `GrowthNeedsStarvation` |
| | `WindowsSlide` | `SlideByOne`, an action property |
| | `RoundsAreCounted` | `RoundIsCount` |
| | `FileIsLog` | `FileReplaysPrices` |
| `StockSystemProofs` | `FrameIsStable` | `FrameStable` |
| | `CaptureIsLossyFifo` | the refinement `FeedIsLossyFifo` |
| | `FileInOrder` | `stocks.db` neither repeats nor reorders |
| | `DatagramsConserved` | `Conservation` |
| | `ServerImplemented` | the server in the composition is `Server` |
| | `ShippedNeverReady` | `NeverReady`, if a window is longer than the loops |
| | `SkewIsBounded` | `SkewBoundedByLoss`: windows apart by loss plus one at most |
| `DatagramProofs` | `IntRoundTrip` | `readInt` undoes `writeInt` |
| | `LengthsTracked` | `LengthTracksPacket` |
| | `FilesCaptured` | `FileIsCaptured` |
| | `DecodesInside` | `DecodeInsideSlot` |
| | `ClientRecordsKept` | `ClientRecordsOwn` |
| | `NumbersArrive` | `RoundTrip` |
| `StocksDbProofs` | `FileNeverMixed` | `DiskInOrder` |
| | `LossIsBuffer` | `CrashLosesTail` |
| | `FileComplete` | `CleanEndComplete` |
| `ServerProcessProofs` | `NeverBadFree` | `NoBadFree` |
| | `EverythingFreed` | `NothingLeft` |
| | `ModeRestored` | `PromiscRestored` |
| | `RingLaidOut` | `SlotsDisjoint` |
| | `TotalComesOff` | `TotalOnlyIfStuck` |
| | `ForeignFramesLate` | `ForeignOnlyLate` |
| | `ListAccounted` | `NothingLost` |
| | `SteadyInterfaces` | `SteadyListed` |
| `FilterProofs` | `ValidatedConfined` | `Confined` |
| | `LoadsEndInside` | `EndsInside`: what the check of a load guarantees, see finding 4 |
| | `GraphIsExpression` | `GraphMeansExpression`, for every expression |
| `CoefficientProofs` | `FirstMinimumReported` | `ReportIsMinimum` |
| | `FailureLeavesStale` | `WrongIsStale` |
| `ReductionProofs` | `SumsInitialised` | `ReadsInitialised` |
| | `LanesOfOutput` | `OutputLanes` |

### Assumptions

Most say that a size is positive.  The others:

- `ServerAssumption`: a datagram has an integer loop id, `GROUP_STOCK` records and
  any number of bytes.
  Nothing is assumed of order, repetition or loss.
- `StockSystemAssumption`: the groups divide the stocks, as 20 divides 10000 in
  `global.h`, and the server follows at most the stocks there are.
- `FrameAssumption`: a slot has room for the largest header and a whole payload,
  which `BUFSIZ` gives.  `DatagramsAssumption`: the numbers of a record are ints.
- `KernelAssumption`, and the like in `ReductionAssumption` and
  `ProcessAssumption`: the mark of a slot owned by the kernel is not a frame, the
  mark of an unwritten cell is not a sum.
- `ProcessAssumption` also: finitely many interfaces have addresses.
- `GrammarAssumption`: what an accepting program returns is a word other than 0,
  which `pcap_compile` checks of the snapshot length.
- `WordAssumption`: a word has an even number of values, at least 8; the code's has
  2^32.  The program and the packet are shorter than half of that.

### Server

The inductive invariant `IInv` is the conjunction of the type invariant,
`WindowExact`, `WindowIsNewest` and `GrowthNeedsStarvation`.  None of the last
three is inductive alone:

- `GrowthNeedsStarvation` says that a stock below an overlong window has been
  *quoted* little.  The scan only sees that its window is *short*; that a short
  window means few quotes is the second half of `WindowIsNewest`.
- `WindowIsNewest` is kept by a pop only if the window is full at that moment,
  which for a cached `g_ready` is `WindowExact`.
- `WindowExact` needs that the scan which sets `g_ready` has trimmed *every*
  window.  It trims only up to the first short one, but it answers true only
  when there is none.

The argument is in three lemmas about the operators, one on top of the other:
`KeepNewestLemma` (trimming one window), `ScanLemma` (the scan of all windows)
and `PushLemma` (scan, pop, push).  `NextIInv` then has one step per action, and
the actions that complete a round use `ScanLemma` on top of `PushLemma`, because
the code scans twice.

`RoundsAreCounted` is inductive by itself once `StoredPrices` is known to be finite
(`CountInv`).  A stored price adds one element to it, and `CountWraps` says what one
more does to a count modulo `SERVER_STOCK`: the round is full exactly when the sum
wraps, which is where the code compares; `GetAll` then resets it, and
`GetAllAndCompute` leaves it full, since `coefficient` does not return.

`FileIsLog` is about the first payloads that all have the client's length (`Framed`).
It reads the file by the numbers of its records (`PayloadOf`, `RecordOf`)
and gives a record its place in a window's history by counting the records of the
same stock up to it.  `LogIs` says this of a file, a number of records looked at and
a history; `LogInv` adds that the packet being decoded is the last payload of the
file and that its loop is not the initial `g_last_done_loop`, without which
the records still to come would not be in the replay.  The step of
the invariant is one of four lemmas on `LogIs`: a payload is written (`LogAppend`), or
one of a computed loop (`LogDone`), a record is skipped (`LogSkip`) or stored
(`LogStore`).

### The composition

`StockSystemProofs` has one inductive invariant for capture, ring and file:

- `Contiguous`: the slots the kernel has filled are the ones from the reader on,
  up to the kernel's position, around the end of the ring;
- `Held`: the slot under the callback is still the frame that was handed over;
- `Phase`: the server and `pcap_loop` are one thread, so where one is says where
  the other can be;
- `Order`: the numbers of the received copies grow along the slots in that order,
  then along the receive queue;
- `Counted`: the packets counted by `pcap_loop` and by the read in progress are
  those in the file.

`FrameStable` needs `Contiguous`: a full ring has the kernel's position on the
reader's slot, and only the owner of that slot keeps the kernel off it.
The refinement of `LossyFifo` has one step per action; most are stutters, because
the queue of the abstract specification is the set of numbers in ring and receive
queue and does not see a datagram move from one to the other.  The outgoing copy
is in nobody's set.  `FileInOrder` follows from the refinement and from `Ordered`,
the invariant of `LossyFifo` itself.  `Conserved`, the sum of filed, waiting and
lost, is kept by each action given `IInv`; only there do cardinalities enter.

`ShippedNeverReady` uses the theorems of `ServerProofs`, instantiated with the
client's datagrams: `ServerImplemented` shows that every step of the composition
is one of `Server` or leaves it alone.  What it adds is `Stored`: a stored price
is of a datagram in the file, and none is of the loop being decoded before its
record is; since numbers in the file grow, a stock has one price per loop at most.

`SkewIsBounded` compares what is stored with what could have been.  The newest
datagram of the file and the record being decoded say how often the record of each
stock has gone by, had all datagrams come (`Passed`); `Missing` counts the datagrams
up to the newest that are not in the file.  `Skew` is the invariant (`SkewAt` over
these values): a stock has at most `Missing` prices fewer than records of it went
by; read backwards from the newest, its prices get at least one loop older with each
entry; and with nothing missing `g_current_stocks` is the number of followed records
of this loop, so the round ends with the loop.  The step that matters is the call
of `my_callback` with a later datagram: `GroupsBetween` bounds how often a group
comes by between two numbers by the numbers left out.  `MissingIsLost` then counts:
everything in the ring and in the queue is newer than the file and no two numbers
are equal, so by `Conserved` what is missing is lost.  With `OnePerLoop` for the
other stock this bounds the difference of two windows at every index.

### The datagram

None of the four properties of `FrameParse` is inductive.  `Position` says for each
check where the pointer stands and what the length counts (at the payload it
still counts the UDP header, after which the code subtracts it), and
`ClientShape`, that a frame of the client has no options and is whole.
`ClientRecordsKept` also needs `OwnerIsLast`: a byte below the captured length was
written by the last frame.

`NumbersArrive` rests on `IntRoundTrip`: the digits of a number in base 256 add up
to it again if the topmost one is taken as signed.  `DatagramFields` says where
each field lies in the datagram, `Decoded` that a sequence of bytes with these at
any base is read back, and the invariant that the slot has them at byte 42
(`WireInv`) and that the callback has found the first `i` records (`FoundInv`).
`Decoded` is used twice, for the slot and for the bytes given to `fwrite`.

### stocks.db

One picture of the stream gives all three properties: the bytes of a run are
numbered, the last ones are in the buffer, the file holds earlier ones, and, while
no write has failed, all of the earlier ones.  What a crash loses is then the
buffer, and `Room` bounds it.

### The process

`ServerProcessProofs` has an invariant for each part, and one lemma for each that
the composition keeps it:

- opening: `Pointers` (a field that is set is held, but for the ring, which is
  `RingHeld`), `Progress` (what the place in `pcap_activate_linux` implies of
  them), `ListLost` (the list of link types is the only thing with a second copy)
  and `ModeNoted` (if the interface is promiscuous, the exit handler knows or the
  code is about to note it);
- ring: `SizeInv` (the arithmetic of `create_ring` after every retry) and
  `FillInv` (the slots filled so far are the first ones, one frame apart in a
  block);
- filter: `Dense` (the frames in the ring are consecutive), `WalkAt` (where the
  walk is) and `LateInv` (a foreign frame among those not counted was stored
  late);
- list: `Covered`, which says for each place in `pcap_findalldevs` which steady
  interfaces are in the list, and that they never leave it, by the lemma that
  inserting at the sorted place keeps all entries; and `NothingLost` itself, which is
  inductive.  Its steps are `EntryUndone` and `AddressUndone` (the frees of each
  failing allocation undo exactly the ones before it, because the blocks of a new
  entry or address are not in the list: `NewEntryBlocks`, `NewAddressBlocks`),
  `InsertedHeap` and `AppendedHeap` (a new entry adds its own blocks) and `FreedAll`
  (`pcap_freealldevs` frees the blocks of the list and no other).

The kernel's answer to `getifaddrs` is left open: any sequence of addresses that
has all steady interfaces.

### The filter machine

For `ValidatedConfined` the invariant is that the program is validated, the
counter inside it, and the scratch memory complete.  The step is in the jumps:
`TargetInside` shows that a sum which is below the length in unsigned arithmetic is
inside the program in signed arithmetic, for offsets on both sides of the wrap.
A step to the next instruction stays inside because the last instruction is a
return.

`LoadsEndInside` has one lemma, `CheckedLoad`, with two cases: the sum in the check
does not wrap, and the load lies inside the captured bytes; or it wraps, and the load
ends where the check says, but begins before them.  A byte has only the first case.
That all loads lie inside (`LoadsInside`) is what the comments of the code say and
`filter_loads` refutes.

### The flow graph

`GraphMeansExpression` has two parts, one for the terms on the stack during the parse
and one for the finished graph.  `GraphIsExpression` is about `GrammarSpec`, the parser on its own: in `FilterCompiler`
the same reductions are the only steps in phase "parse", and nothing returns to it.
Terms, negations and bytes are unbounded.

A term occupies consecutive blocks of the heap, `lo .. b`, and the terms on the
parser's stack lie side by side (`StackIs`).  `TermIs` describes one of them:

- `Shape`: its open edges are two lists `T` and `F`, which have only the root `b` in
  common and run downwards (`Threaded`); every other edge leads upwards inside the
  term.  So a list ends, and a walk leaves the term;
- `Means`: for every packet there is a set `V` of blocks, those from which the packet
  ends on `T`, that agrees with every edge (`Leads`), and the head is in it exactly if
  the expression holds.

`ListIs` shows that the code, following the links, finds the whole of `T`; `RepointLemma`,
`FlipLemma` and `MergeLemma` say what `backpatch`, a flip of `sense` and `merge` do
to links, other edges and heads.  `JoinMeans` is the conjunction; `OrMeans` does not
repeat it but shows that `gen_or` is `gen_and` with both terms and the result
negated, as the flips of `sense` make it.  `ShapeKeeps` is the frame condition: a
reduction leaves the terms below it alone.

That the packet's walk ends on the right list (`OutcomeIs`) takes no induction over
the walk: it stays in the blocks that agree with the head about `V` (`FollowLemma`),
its greatest block has no successor, hence an open edge, and `Leads` says which.
`FinishedIsExpression` has the same argument for the graph `finish_parse` leaves
(`Closed`), where the greatest block is one of the two returns.

Where a proof needs induction, as in `FollowLemma` and `ListIs`, it takes a least or
greatest counterexample (`Least`, `Greatest`, from the library's well-founded minimum), since
the provers cannot use the induction theorems, which have an operator as parameter.
For this the lists of `Gencode` are given by a recursive function and a set, not by
a recursive operator.

### The GPU part

`CoefficientProofs`: `LoopInv` says that the pairs compared so far are those before
`<<i, j>>` (`Visited`), `MinInv` that `min_cof` is their first minimum, `CallInv`
that the device buffer belongs to the last launch that did not fail.  Factors are
fractions; `FractionOrder` is the transitivity of their order, which needs
denominators above 0 and so a candidate below 1.

`ReductionProofs`: `Content` describes cell `c` up to the middle: only lanes from
`c` to the middle, and in cell 0 lane 0 once.  Adding the right neighbour keeps it,
since the neighbour of a cell below the stride is at most the middle.  It holds
between the reads and the write of the same addition, whatever the neighbour did
meanwhile, so the race between two barriers needs no argument of its own.

### Only model-checked

- liveness (`ServerStops`, `Drained`, `StartEnds`, `RingDrained`, `Terminates`,
  `CompileEnds`): it needs fairness and `ENABLED`, out of the proof system's reach.
  `RingDrained` partly rests on the bound on the frames: a network that never
  pauses would keep the ring from ever being empty, with or without the code's help;
- `CompiledLoadsInside`, which needs the program the compiler makes;
- `VerdictIsExpression`, from the expression to what the machine returns.
  `GraphIsExpression` proves the half up to the finished flow graph; the order in which
  `convert_code_r` places the blocks is a recursive operator, which the proof system
  does not support, and so is the construction of the server's own filter.

## 6. Plan

Done: all modules, and the proofs above.  Every safety invariant and action property
that a run checks is also proved, but for `VerdictIsExpression` and
`CompiledLoadsInside`.  What is left there
is `Layout`: `Placed` as a function of the heap, and an invariant that says of the
instructions placed so far what `Met` says of the blocks.

## 7. Not modelled

Of the repository's own code:

- the **TCP client** and `HandleClient`: dead code, no caller;
- `cuda_test` and its kernel `add`: dead code;
- timestamps and printing: output only;
- random prices (`stockGenerate`): the server stores them without looking;
- floating-point rounding in `coefficient_single`;
- `cudaFree(array[loop])` at `coefficient.cu`, line 215, behind the array's end:
  the process aborts two lines later.

Of **libpcap**, which is nearly all of the repository's lines, the modules cover
what the server runs.  The rest is:

- capture code of other platforms (`pcap-bpf.c`, `pcap-dlpi.c`, `pcap-snf.c`,
  `pcap-dos.c`, `pcap-win32.c` and others), not built on Linux;
- `scanner.c` and `grammar.c`, generated tables and their driver;
- the optimizer, most of `optimize.c`: the server compiles with `optimize = 0`;
- the primitives of the filter language the server's filter does not use, and
  link types other than Ethernet, most of `gencode.c`;
- savefiles, Bluetooth, CAN, netfilter and USB capture, packet injection,
  statistics, monitor mode and the wireless extensions: never called;
- the compiler's allocator (`newchunk`, `freechunks`): the server compiles once in
  its life, from empty chunks;
- in `Activation`, the list of time stamp types, which `pcap_create_interface`
  allocates (`pcap-linux.c`, lines 370 to 390) only under a macro that the build
  leaves undefined, and the warnings that do not change a resource;
- in `FrameParse`, the cap of the slot by the mtu of an Ethernet device without
  offload (`pcap-linux.c`, lines 3326 to 3334): the mtu of the loopback device is
  above the snapshot length.

Two things are said more simply than they are: `Correlation` gives two launches of
one kernel on one window the same result, although the race in the reduction
may make them differ, which no property depends on; and that `fopen` empties the last
recording before the capture is known to open is a step of `StocksDb` which no property
calls wrong, because nothing in the repository says that it is.

A model of these would be about libpcap and not about this system: no state of
theirs is reachable from `main`.
