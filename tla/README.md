# Verification of the network project

TLA+ models of the user-space network programs in this repository: the
`network-driver` that moves frames between network interfaces and a child
program, the `loop()` every child runs, three of the children (the VLAN switch
`vswitch`, the IPv4 `router` and the ARP tool `arp`), and the test harness that
plays the driver for a program under test. TLC checks the models on small
instances; TLAPS proves the switch, the router and the ARP tool correct for every
table size, command line and set of frames, the driver with its child a lossless
channel for every number of interfaces, pipe, buffer and message size, and the
verdicts of the test harness right for every program under test. Every definition is translated from the C
source; `PROJECT.json` maps each one to its lines.

## The system

    interface 1 ─┐                     child_stdin  (pipe)    ┌──────────────┐
    interface 2 ─┼─► network-driver  ───────────────────────► │ loop()       │
      ...        │◄─ run(): select() ◄─────────────────────── │  handle_frame│
    operator   ──┘   1 buffer/interface child_stdout (pipe)   │  handle_mac  │
                                                              │  handle_control
                                                              └──────────────┘

Both pipes carry `GLAB_MessageHeader` messages: 16 bits of size (header
included) and 16 bits of type, which is an interface number or 0 for control.
The first control message to the child is the list of the interfaces' MAC
addresses; later ones are the operator's lines. Control messages from the child
are text to print.

| part | state it keeps | operations | interaction |
|---|---|---|---|
| `network-driver.c` | a socket per interface, a one-frame buffer per interface, the operator's text, one *job* being written to the child, one stream buffer from the child with at most one job for an interface | opening and binding the sockets, the MAC list, giving up privileges; one round of `select()`: read stdin, write the job, send a frame, queue a line, read the child, dispatch, read the interfaces | blocking pipes to and from the child, sockets, terminal; `main()` forks the child first, writes the MAC list before `run()` and kills the child after it |
| `loop.c`, `print.c` | a buffer of 65535 octets, was the MAC list seen? | read, handle each complete message, `memmove`; `write_all` | calls the child's three handlers; `write_all` blocks on a full pipe |
| `vswitch.c` | ports with VLANs, a direct-mapped table (MAC, VLAN) → port with time of learning | argument parsing, `handle_frame`, `handle_mac`, `handle_control` | callbacks of `loop()`; `time()` |
| `router.c` | interfaces with address and MTU, a table of routes, an ARP cache | argument parsing, `handle_frame`, `handle_mac`, `route add`, `route del` | callbacks of `loop()` |
| `arp.c` | interfaces with address and MTU, a direct-mapped ARP cache | argument parsing, answering requests, storing replies | callbacks of `loop()` |
| `hub.c`, `switch.c`, `parser.c` | interface numbers | stubs: no frame is forwarded yet | callbacks of `loop()` |
| `crc.c` | none | checksums | not called by any program yet |
| `harness.c` | the pipes to a program under test, a static buffer of what came from it | starts the program, sends frames, expects frames or silence until a deadline | commands of `test-hub.c`; the program's `loop()` |

What is hard in it:

* **Interleaving and blocking.** Two processes in a ring of two bounded,
  blocking pipes. `select()` promises `PIPE_BUF` octets, `write()` is given a
  whole message.
* **Partial reads and writes.** Both readers reassemble messages in a buffer; a
  job of the driver points into buffers that are being filled at the same time.
* **Ordering and fairness.** Every interface has one frame buffer and all share
  one job; the operator's lines compete with frames.
* **Timeouts.** The harness computes a deadline and the time left to it anew
  before every `select()`; answers arrive before, with and after it.
* **Failure.** The driver may give up in the middle of its start-up, when the
  child is already there. The child may end at any moment, also in the middle of a message
  or while it is written to; calls of the driver may fail.
* **Stale state.** Stations move, addresses collide in the table, entries age
  while they are looked at, neighbours announce new addresses, caches overflow.
* **Numeric edges.** Sizes, MTUs and VLAN numbers in 16 bits.

The list of hazards, line by line and with the properties that cover each, is
in `PROJECT.json`.

What makes each part correct:

* *driver, pipes and loop*: streams stay framed; a job always is the buffer it
  was made from; the MAC list is first; what the driver takes in is handled
  once, in the order of its source and under the interface it came in on;
  neither process waits for ever or outlives the other;
* *vswitch*: the table never names a wrong port; no station that was heard is
  cut off; a frame never changes its VLAN; entries live as long as they should;
* *router*: the cache agrees with the last announcement and has one entry per
  address; a known neighbour is reached; commands change exactly the route they
  name; packets leave whole; no frame ends the program;
* *arp*: a request is answered exactly for the address of its interface; the
  cache says what it was last told and forgets only by collision; no frame ends
  the program;
* *harness*: a test is passed only by a program that did what the test wants,
  fails only for something the program did or for a deadline, and ends.

## Modules

| module | what it is |
|---|---|
| `Pipes` | messages as streams of units, the two pipes, framing |
| `Loop` | `loop()` and `write_all()` of the child (`loop.c`, `print.c`) |
| `Driver` | `main()` and `run()` (`network-driver.c`) |
| `System` | `Driver` and `Loop` composed, crash, kill, end of input, fairness, properties |
| `Channel` | abstract: one lossless numbered FIFO per source; `System` implements it |
| `MCSystem` | instances of `System`: what the child may answer |
| `StreamProofs` | lemmas about streams: cutting, joining, dropping a message, what it says |
| `SystemProofs` | the invariants of `System`, and that it implements `Channel`, proved |
| `VSwitch` | `vswitch.c` |
| `Bridge` | abstract: a learning VLAN bridge with no table; `VSwitch` implements it |
| `MCVSwitch` | instances of `VSwitch`: ports, stations, frames |
| `VSwitchProofs` | invariants and action property of `VSwitch`, proved |
| `VSwitchRefinement` | `VSwitch` implements `Bridge`, proved |
| `Router` | `router.c` |
| `Forwarder` | abstract: routes by handle and a map of neighbours; `Router` implements it |
| `MCRouter` | an instance of `Router` |
| `RouterProofs` | invariants and action property of `Router`, proved |
| `RouterRefinement` | `Router` implements `Forwarder`, proved |
| `Arp` | `arp.c` |
| `MCArp` | an instance of `Arp` |
| `ArpProofs` | invariants and action property of `Arp`, proved |
| `Harness` | `harness.c`, with `Loop` as the program under test |
| `TestHub` | the tests of `test-hub.c` as commands |
| `HarnessProofs` | the invariants of `Harness`: framing, and what its verdicts are worth, proved |
| `MCHarness` | instances of `TestHub`: what the program may answer, which tests run |

### Driver, Loop, System

`pc` is the stage of `main()`: for each interface `OpenSocket` and `BindSocket`
(`init_tun` before and from `SO_BINDTODEVICE` on; `fd` is the socket), then
`SendMacs` and `DropPrivileges`, any of which may fail (`GiveUp`). A socket
that is open and not bound takes frames of every interface of the machine;
`waiting` remembers where a frame came from, as `recvmsg()` will report it.
The child is forked before all this. `GiveUp` does not kill it: the descriptors
close, and the child finds the end of its input (`InputEnds`). After `run()`,
`Kill` does. From `select` on `pc` is the stage of one round of the `while` loop in `run()`; each `if` block
of the loop is an action in the order of the code: `Select` (building the
descriptor sets and the call), `ReadStdin`, `WriteChild`/`SkipWrite`,
`SendFrame`, `QueueCommand`, `ReadChild`, `Dispatch` (one turn of `rbuf_again`)
and `ReadInterfaces` (one interface of the final loop, `at`). `ready` is what
`select()` reported and, as in the code, what the later stages rely on although
the world moves on. `current_read` is the job for the child (0: the operator's
line, `i`: the frame of interface `i`), `unwritten` what is left of it,
`current_write` the interface for which the start of `bufin` waits. `write()`
to the child blocks, so `WriteChild` is repeated until the job is out, one step
for what fits, with `pc` at `"writing"` in between. If the child dies before the
write began, `EPIPE` stops the driver; if it dies in the middle, `write()` returns
the part that went out and the round goes on with the rest still to be written
(the third branch of `SkipWrite`).

On the other side `LoopRead`, `LoopHandle` and `WriteAll` are the outer loop,
the inner loop and `write_all`; `pending` is what `write_all` still has to
write. What a handler sends is a constant: `Reply[t]` is the set of sequences of
message types a child may answer a message of type `t` with.

Messages are counted in *units*, with `HDR` of them the header, so that a read
or a write can stop at any unit. A frame carries an identity out of `Id`,
given in turn, which tells a lost, repeated or overtaken message from a good
one. Abstractions to know of:

* a socket that `select()` is asked about for writing is ready, and `sendto()`
  either takes the frame or fails (`StopRun`, the second branch of `SendFrame`);
* an interface holds one unread frame (`waiting`); what the kernel drops before
  `read()` is not counted;
* a VLAN tag the kernel stripped is put back before anything else sees the
  frame; the model's frames have it already;
* the header's size has no width here: messages of the instances are short.
  With 16 bits a line of more than 65535 octets, or a frame of more than 65531,
  would announce a shorter message than it is.

### VSwitch

`phase` is where `main()` is: parsing arguments, waiting for the MAC list,
running, exited. `ParseArg` is one round over the arguments, an argument being
the outcome of splitting its text. `handle_frame` is the whole call: parsing,
learning, lookup, flooding or forwarding, retagging. It reads the clock twice
(`learn_mac` and `lookup_mac` each call `time()`), so the clock may move in the
middle. `handle_mac_abort` is a MAC list longer than the command line; a list that
is shorter, from a driver started with fewer interfaces, is not modelled, here or
in the router and the ARP tool. `mac_table` has the code's hash and the code's slots, where one slot
serves every VLAN of an address. `heard` is a history variable: where and when
each (address, VLAN) was last learnt. The properties compare table and history.

### Router

An IPv4 address is a number of `Width` bits, a netmask its length.
`handle_frame` covers `parse_frame`, `handle_arp`, `add_to_arp_cache`, `route`
and both `forward` functions; what aborts in there is `handle_frame_abort`.
Commands are the outcome of splitting a line: `words` says how many of the words
of a route were there and wellformed. `handle_control_crash` is the command that
ends after `dev`. `neighbour` is a history variable: the hardware address each
IPv4 address announced last. Packets keep destination and length only: time to
live and checksum are not touched by the code, and the octets after the header
of a forwarded packet are not the packet's (see the findings).

### Arp

Addresses are written in pieces of two octets because of the call
`add_to_arp_cache(&ah.sender_ha, &ah.sender_pa)`: the parameters are an IPv4
address and a hardware address, in this order. The function reads four octets
where the hardware address is (`KeyOf`) and six where the IPv4 address is, the
last two of which are the next field of the header (`ValueOf`). The cache does
what it should with what it is given (`CacheSound`, `CacheKept`), only that is
not what the reply said (`arp_sender`). The length of a frame is checked for the
Ethernet header only, so the ARP header of a shorter frame is any value of
`Header`, which stands for what earlier messages left in the buffer of `loop()`.
`AnsweredForOwnAddress` says of such a frame only that the answer fits the header
that was read in its place; that it is answered at all is what the code does.
`learnt` is a history variable. `remove_from_arp_cache` has no caller and
`lookup_arp_cache` none either: the `arp` command ends where the lookup should
be, so the properties ask `lookup_arp_cache` in its place.

### Harness, TestHub

`pc` is the function the test program is in. `Launch` is the fork, `SendMacs`
the MAC list, `RunCommand` the next command of the test; `Write` is `tsend`,
`TryMessage`, `Exhausted` and `BreakSilence` are what `trecv` and
`expect_silence` do with a complete message, `CallSelect` to `TimedOut` what they
do without one. `left` is the time to the deadline, which `Tick` takes from at any
moment; it goes below zero, where `select()` fails. `asleep` separates the call
of `select()` from its return, so that data, the deadline and the end of the
program may come in any order in between. `ReadChild` may return any part of
what is in the pipe, because the program's `write()` may have got no further.

`expect_multicast` keeps the expected interfaces in a mask of 64 bits and lets types
up to 63 through, but tests and clears bits with `1 << (ifc - 1)`, the shift of an
`int` (`INT_BITS`). `Bits` is what that comes to: the type itself below 32; from 33
to 63 undefined, on usual hardware the bit of the interface 32 below (`Interface`),
or none; nothing from 64 on. So a message of type 34 may pass for one of interface 2,
and `PassIsEarned` says what a message counts for, not what it is for. A test must
not expect an interface above 31 (`HarnessAssumption`); those of `test-hub.c` go to 5.

The end of a silence is not always kept as one. `expect_silence` returns 0 when
`select()` times out, but computes the timeout anew before each call: if a text was
read as the deadline passed, or the test program was slow to get there, the timeout is
negative, `select()` fails and so does the test (`harness.c:403-413`), whatever the
program under test did. `FailureHasCause` names this exception (`DeadlinePassed`), and
no other: `trecv` fails at its deadline rightly, and before a deadline nothing but the
program fails a test.

The program under test is `Loop` with any of the answers in `Reply`: right, in
another order, with texts between the frames, too few, twice, back to where the
frame came from. It may be slow, hang (it has no fairness) or end. A frame is an
identity that differs from test to test, for the random content the tests make.
`made`, `taken`, `faulty` and `fresh` are history: what the program said in this
test, how much of it was taken out of `child_buf`, whether it ever answered a frame
wrongly, and whether `child_buf` was empty when the test was launched.

## Runs

All runs have `CHECK_DEADLOCK FALSE` because these programs do stop: the switch
and the router exit at the end of input or abort, the driver stops when a call
fails or the child ends, and an idle system waits for frames the environment
need not send. Waiting for each other is an invariant of its own (`NoDeadlock`).

| run | checks | shows |
|---|---|---|
| `vswitch` | `TypeOK`, `TableSound`, `StationReached`, `VlanPreserved`, `EntriesKept`, `ImplementsBridge` | with two stations in one slot, three ports, access and trunk, good and bad command lines: no outdated binding, no black hole, tags in order, entries lost only to collision or age |
| `vswitch_per_vlan` | `EntryPerVlan` violated | an address heard in two VLANs keeps the entry of one |
| `system_safety` | `TypeOK`, `StreamsFramed`, `MacListFirst`, `FramesAttributed`, `JobMatchesBuffer`, `NoDeadlock`, `LoopHasRoom`, `ImplementsChannel` | two interfaces and a flooding child from the opening of the sockets on, reads that end inside messages, an end of either process at any point: nothing is torn, lost, repeated, overtaken or taken for another interface's |
| `system_operator` | `StreamsFramed`, `JobMatchesBuffer`, `ImplementsChannel`, `LineIsSent` | lines of several lengths, typed on while the previous one is written from the same buffer, share the pipe with frames; a `write()` goes out in pieces and the child may end between two |
| `system_liveness` | `BufferDrains`, `JobEnds`, `ChildDrains`, `ChildNotLeft`, `DeathNoticed` | both directions make progress, two interfaces take turns, and neither process outlives the other |
| `system_jumbo` | `NoDeadlock` violated | messages beyond `PIPE_BUF` let parent and child block each other |
| `router` | `TypeOK`, `CacheSound`, `NeighbourReached`, `FrameSurvived`, `CacheKept`, `ImplementsForwarder` | three neighbours for two cache slots, one of which changes its address, routes added, deleted and added again; no MTU that does not wrap lets a frame end the router |
| `router_packet` | `PacketKept` violated | a routed packet leaves 20 octets short |
| `arp` | `TypeOK`, `CacheSound`, `AnsweredForOwnAddress`, `FrameSurvived`, `CacheKept` | two interfaces, requests and replies, whole and short, for the own address and for others; keys that share a slot; MTUs of 20, 400, 65530 and 65536 |
| `arp_sender` | `SenderStored` violated | the cache does not know the sender of a reply |
| `harness` | `TypeOK`, `StreamsFramed`, `PassIsEarned`, `FailureHasCause`, `TestsEnd` | each of the four tests against hubs that are right, wrong, chatty, hung or dead, or answer with types 32 above an interface or beyond the mask |
| `harness_carry` | `FailureHasCause` violated | a second test fails for what the first program left in the buffer |

### Bounds, and why they are enough

* `vswitch`: two slots and two stations of one slot give every collision; the
  ageing time is 1 and the clock stops at 2 (`MaxTime`), so entries are fresh,
  at the limit and beyond. Three ports are the least on which a move, a wrong
  port and a right port differ. Interface numbers go to 4, one more than there
  are (`MaxType`). Two VLANs besides the default.
* `system_*`: `PIPE_CAP` 3 or 4 and messages of 2 or 3 units, so that the pipe
  holds between one and two messages and every read and write may be partial. In
  `system_operator` the pipe has 2 units and `PIPE_BUF` is 1: there
  `select()` reports room for less than a message, and a frame that meets a pipe
  with something in it, and a line of two characters always, is written in pieces.
  `BUF_SIZE` and `MAX_SIZE` are 3: one message and part of the next. Frames are
  at most `PIPE_BUF`, as in the real system, where `PIPE_BUF` is 4096 and an
  Ethernet frame with its header 1522; `system_jumbo` and `system_operator`
  drop this. `MaxKeys`
  bounds the characters typed; two of them make one line of two or two of one.
  `N` is 2 (1 in `system_operator`): enough for the interfaces to compete. With
  three the code is not fair to the third (see below).
* `harness`: tests of up to five interfaces and seven commands, as in the code;
  `CHILD_BUF` 4 and messages of 1 to 3 units, so that the buffer holds a message
  and part of others; `WAIT` 2, so that time passes before, at and after the
  deadline. `PIPE_CAP` 5 holds all that one of these tests sends, as in the code
  (64 KiB for at most three frames). With a smaller pipe `tsend` would
  wait for ever for a hung program. Among the answers are types 32 above an
  interface, which the mask confuses with it, and 64 above.
  `harness_carry` needs two tests of one exchange and nothing else.
* `arp`: two slots and pieces of three values give collisions and none; two
  interfaces, and a third number that does not exist.
* `router`: two slots in each table make both overflow, addresses of two bits
  have a default route, two networks and hosts; two hardware addresses
  let one neighbour change. `MaxType` is one more than the interfaces. Route
  commands include a network with host bits, which no packet ever matches.

### Fairness

`system_liveness` and `system_operator` assume weak fairness of `Parent`, of
`Child` and of `Kill`. Both are processes the operating system schedules, and
a step that stays possible (a write to a pipe with room, a read from one with
data) is eventually taken; `Kill` is the call `main()` makes after `run()`.
Nothing is assumed of the network, of the operator or of crashes. No strong
fairness is needed. `harness` assumes weak fairness of the test program and of
time; nothing of the program under test, which may hang. Within `Parent` the order is that of the code, so a
starving interface would be the code's doing, and there is one: `ReadInterfaces` lets
the lowest interface with a full buffer become the job (`network-driver.c:790-796`).
Two interfaces alternate, because the one just served is empty in that round, but with
three busy interfaces the first two alternate and the third is never served; and an
operator who never stops typing goes before all of them (`network-driver.c:578`).
`BufferDrains` therefore promises a turn to the two lowest interfaces, and only as long
as the operator is silent (`MaxKeys = 0`). It holds in `system_liveness`; with `N = 3`
(a larger instance, not among the runs) it holds too, while the same promise to the
third interface is violated. No text of the repository promises the third its turn, so this
is a hazard and not a finding.

## Findings

Five runs end in a violation of what a comment of the code says:

1. `vswitch.c:462` hashes the address only, where the comment at line 318 wants
   one entry per (MAC, VLAN). Frames still arrive, by flooding.
2. `network-driver.c:494`: the blocking `write()` of messages beyond `PIPE_BUF`
   can deadlock with a child that is itself blocked in `write_all`.
3. `router.c:477`: the forwarded frame takes its start from the copy of the
   header and its length from the payload; it is 20 octets short and its
   content after the header is not the packet's.
4. `arp.c:266`: the arguments of `add_to_arp_cache` are swapped, so the cache
   never knows a neighbour under its address.
5. `harness.c:47`: `child_buf` is never reset, so a test may fail for what the
   program of an earlier test said.

Met on the way and kept as hazards, because no text of the repository says
otherwise or because the property names the exception: the MTU that wraps
in `router.c:1034` and `arp.c:479` and then ends the program at the first frame
(`FrameSurvived` excepts it), the size that wraps in `vswitch.c:624`, commands
that pass `NULL` to `strcasecmp` (`router.c:817`, `arp.c:500`), the third
interface that starves (`network-driver.c:792`), the mask of 64 bits whose bits are
made with an `int` (`harness.c:97`, `PassIsEarned` says what that lets through), the
silence that fails for a text at its deadline (`harness.c:403-413`, an exception of
`FailureHasCause`).

## Proofs

`VSwitchAssumption` is all that is assumed: a table with at least one slot, at
most 4094 VLANs, frames made of the addresses in `Mac`, natural numbers for
times and sizes. Nothing bounds the table, the ports, the frames or the clock
otherwise.

`VSwitchProofs` proves for `Spec`:

* `TypeCorrect`: `[]TypeOK`;
* `TableIsSound`: `[]TableSound`;
* `EveryStationReached`: `[]StationReached`;
* `VlanIsPreserved`: `[]VlanPreserved`;
* `EntriesAreKept`: the action property `EntriesKept`.

The argument: `IInv` is the conjunction of `TypeOK`, `TableSound`,
`HeardOnMember` (who was heard, was heard on a port of that VLAN) and a clause
that nothing was learnt before traffic. `TableSound` alone is not inductive: a
new entry's port is in the VLAN only because `VlansOf` says so of the frame, and
the MAC list changes `gifc` while the table must be empty. `HeardOnMember` is
what `StationReached` needs: a flood reaches the station because its port is a
member. The step has a lemma per action; `handle_frame` is split into a frame
that is dropped (`DropInv`) and one that is switched (`SwitchInv`). `StationReached`
is then shown to survive each step, given `IInv` before and after it: for a frame
that is switched (`SwitchReaches`) a flood reaches every member, and a hit goes where
the history says. `VlanPreserved` follows from what the two tagging steps do to a frame with
at most one tag (`RetagKeeps`, where a VLAN number below 4096 survives the split of
the tag's 16 bits). `EntriesKept` follows from `IInv` and the two places that change
the table (`SwitchKeeps`). TLC checks the same properties on the small instance.

`VSwitchRefinement` proves `SwitchIsABridge`, `Spec => B!Spec`: initial states
map to initial states, and with `IInv` every action maps to a step of `Bridge`
or a stutter. Parsing and the MAC list are `Configure`; a hit is `Direct`
(through `TableSound`, the entry is the history), a miss is `Flood`, a dropped
frame, a command and a tick are `Ignore`, each exit is `Stop`.

`ArpProofs` proves for `Spec` of `Arp`, from `ArpAssumption` (pieces of addresses
are numbers, the frames and headers are made of them, the cache has a slot):

* `TypeCorrect`, `CacheIsSound`, `AnswersForOwnAddress`, `FramesAreSurvived`:
  the four invariants of the run;
* `CacheIsKept`: the action property.

`IInv` adds two parts to the invariants. `SetUp`: the interfaces parsed so far
agree with their arguments, which were accepted, and `loop()` is entered with
all of them; this is why an answer from `gifc` is one for `argv`, and why its MTU
holds a reply (`AnswerFits`, with `NoWrap`). `Unused`: nothing is cached or
answered before traffic, so the steps of the start-up cannot break a promise of
the cache (`UnusedInv`). A reply is where the cache changes: `AddSound` shows that the
slot written is that of the key and that every other slot keeps its key.

`RouterProofs` proves for `Spec` of `Router`, from `RouterAssumption` (both tables
have a slot, frames, commands and arguments are wellformed, and the powers of two
up to `2^Width` are positive numbers, a fact of arithmetic the provers do not
know and TLC evaluates):

* `TypeCorrect`, `CacheIsSound`, `NeighbourIsReached`, `FramesAreSurvived`: the
  four invariants of the run;
* `CacheIsKept`: the action property.

`IInv` adds `SetUp` and `Unused`, as for `Arp`, and `AllCached`: while at most as
many addresses were announced as there are slots, each of them has one. Without
it `NeighbourReached` could fail in the next step for an address the cache
dropped earlier. That a reply keeps `AllCached` is the one argument that counts
(`NoRoom`): when slot 0 of a full cache is taken, the slots hold as many different
announced addresses as there are slots (`Single`, `Current`), so the new one is
one too many. `SlotForSpec` says which slot `add_to_arp_cache` writes and is
where `Prefix` matters; `FirstIsLeast` is what a search from slot 0 on finds.
`ParseFrameSends` bounds what leaves, for `TypeOK` and for `FrameSurvived`.

`RouterRefinement` proves `RouterIsAForwarder`, `Spec => F!Spec`: a packet is
`Forward` or `Ignore` (`MaskedCovers`: the masked address is the network that
covers it), a reply `Announce`, a request `Answer`, a command `Add`, `Delete` or
`Ignore`, each exit `Stop`, the start-up `Configure` or a stutter.

`SystemProofs` proves for `Spec` of `System` the seven invariants of
`system_safety` and `ImplementsChannel`. It assumes `PipesAssumption`, `LoopAssumption`,
`DriverAssumption` and `SystemAssumption`: sizes are numbers, a header has at
least a unit, frames and the MAC list are no shorter than one, `loop()`'s buffer is
longer than one, there is an interface, and the child answers every type.

* `TypeCorrect`, `StreamsStayFramed`, `MacListComesFirst`,
  `FramesAreAttributed`, `JobsMatchBuffers`, `SystemIsAChannel`: from these alone;
* `NoMutualWait`: if besides `SmallJobs`, that is, the frames and lines the
  driver writes are at most `PIPE_BUF`. `system_jumbo` shows that this is needed.
  In the code it is true of frames and not of lines beyond 4092 characters;
* `LoopNeverStuck`: if besides `Fitting`, that is, no message is larger than
  `loop()`'s buffer. True of frames; a line of 65532 characters breaks it.

`IInv` has a named part per concern. `InStream` and `OutStream` type both streams
and say that each is `Chained` (every unit is followed by the next of its message
or the first of another) and `Whole` (the last message is complete). `Chained` is
`Framed`, unit by unit (`FramedIsChained`); `Whole` is what `StreamsFramed` lacks
to be inductive, because a message may only be appended after a complete one.
Reads and writes move units within a stream (`MoveUnits`), a handled message
leaves at the front (`DropMessage`), a job or the answers of a handler come in at the
end (`ChainedConcat`). `Job` says of every unit of a job what `JobMatchesBuffer`
says of the first, and that more text does not change the first line
(`FirstLineKept`). `Reported` and `Room` carry what `select()` reported to the
stage that relies on it: only the driver fills the pipe to the child, so the room
it saw can only grow. `NothingSent` is why the MAC list meets an empty
pipe, `MacFirst` adds to `MacListFirst` that the list is there until it is handled.
TLC finds `IInv` true of the instances of all the `system_*` runs.

`SystemIsAChannel` is `Spec => C!Spec` for the mapping of `System`: the queue of a
source is what the stream to the child still says of it (`IdsOf`), followed by the
frame its buffer holds and no job carries yet (`Held`, `FlightParts`). A step maps to

* `Take` where a message is numbered: a frame read from a socket
  (`ReadFrameRefines`, into the buffer or, as the job, into the stream at once), a
  line (`QueueCommandRefines`), the MAC list (`SendMacsRefines`);
* `Handle` where `loop()` takes the first message out of the stream
  (`LoopHandleRefines`);
* `Stop` or a stutter everywhere else. In particular `QueueFrameRefines`, a buffer that
  becomes the job, moves a number from one part of the queue to the other, and a
  partial read or write moves units inside the stream (`SilentRefines`).

`IInv` is what each of them needs: that a message's units are together and
complete, that a job's message is the buffer's, that the buffer of the running job is
the one not counted twice.
`IdsOf` is a recursive function over a stream. `StreamProofs` shows once that it
exists (`RecursionExists`), that it is taken apart where a stream is
(`IdsOfConcat`), and what a whole message adds (`IdsOfUnits`, `IdsWithoutFirst`).
Induction over the length is done with sets: `UpToAll` says that a set of numbers that
has 0 and is closed under the next holds all of them.

`HarnessProofs` proves for `Spec` of `Harness`, from `HarnessAssumption` (the MAC
list fits the pipe, a test names interfaces it has and expects none above 31, the
program has a handler for each message it is sent):

* `TypeCorrect`: `[]TypeOK`;
* `FirstTestIsFresh`: the first test of a program begins with an empty `child_buf`,
  that is, `fresh`; a later one does if what was left of the tests before is gone;
* `FreshTestFramed`: `StreamsFramed` throughout every such test;
* `FreshPassEarned`: `PassIsEarned` of it, whatever its commands are, and whatever
  types the program answers with; one from 33 to 63 may count for the interface 32
  below it (`BitOfFrame`);
* `FreshFailureHasCause`: `FailureHasCause` of it if it is a `FloodTest`, that is, a
  test for a hub: what it sends on an interface it expects at once on all others, if
  there are any, and nothing else. `FailureHasCause` means such tests, as a
  *wrong* answer is one that is no flood. `HubTestFailureHasCause` says it of the
  programs made of the tests of `test-hub.c`, each of which is a `FloodTest`
  (`HubTests`). Both keep the exception at the deadline of a silence: a right hub
  may fail there, and these theorems do not say otherwise.

None of this can be said of a test that inherits something: `child_buf` is
never reset, and may begin with the piece of a message of the program before (the
run `harness_carry` shows what that does to a test). The stream to the program is
framed in every test, which `IInv` says separately.

The inductive invariant has three layers:

1. `IInv` has the shape of the one for `System`: `InFramed` and `OutFramed` are
   `Chained` and `Whole`, `Idle` says that between two tests the pipes are empty and
   nobody runs, so that the next one starts afresh. Killing a program may cut off
   its last message: `child_buf` is then a prefix of messages back to back
   (`ChainedPrefix`), `Whole` no more. `OutFramed` is said of tests with `fresh` only.
2. `History` relates history to the state. `Accounted`: what the program made is
   what was taken, followed by what the stream from it still says. `Earned`: the frames
   taken are those of the commands that have succeeded (`Even`) and, during an
   `expect`, the interfaces whose bit is cleared, as many as attempts are used
   (`Midway`). An attempt without a bit is lost for good: then attempts run out before
   the bits do and the test fails. So a test that passes has lost none
   (`MidwayFrame`, `MidwayDone`).
3. `Own` and `Answering` are for failures. In a test with `fresh` every message in
   either stream carries the test's identity (`Own`). While the program has answered
   every frame as a hub should, the stream to it begins with the MAC list until that is
   read (`AsSent`), and what the running command waits for is either in the stream
   from it, each interface once, or will be the answer to the one frame in the
   stream to it (`Coming`); with one interface there is no answer to wait for, and
   frames may pile up. The lemmas `PromisedSent`, `PromisedHandled` and
   `PromisedTaken` say what sending, answering and taking do to that. So each frame
   taken clears a bit, silence is not broken, attempts never run out
   (`TryMessageAnswering`, `BreakSilenceAnswering`), and only an end or a deadline
   is left to fail the test.

`TypesOf` and `Frames`, what a stream says, are folds: `Gathered` and `FlatOfConcat` show
that `FlattenSeq` of two joined sequences is the two results joined, from which
`TypesOfConcat`, `FramesOfConcat` and `DueRecursion` follow. TLC finds all three layers true
of the instances of both runs.

Every invariant and action property a passing run checks is a theorem, and so are the
three refinements. Out of the provers' reach and left to TLC: liveness under
fairness (`BufferDrains`, `JobEnds`, `ChildDrains`, `ChildNotLeft`,
`DeathNoticed`, `LineIsSent`, `TestsEnd`). Of a test of the
harness that inherits something in `child_buf` only `TypeCorrect` is proved; TLC
checks suites of one test, and the run that finds the second test failing for the
first.

## Not modelled

Of the driver: the checks of its arguments, before anything is opened; the
re-insertion of VLAN tags the kernel stripped, which changes the octets of a
frame before anything else sees it; the filter by address, which is compiled
out; the width of the size field. Messages to stderr. `hub.c`, `switch.c`,
`parser.c`, whose handlers are empty; `crc.c`, which nothing calls; `hello.c`.
Of the tests: `test-arp.c` and `test-router.c` call functions of the programs directly,
`test-vswitch.c` does not compile (it calls `send_frame` with two arguments and defines it
with three). Of the harness: octets of frames, and a program that writes a
header with size 0, for which `trecv` would not end.

## Plan

In order of importance:

1. **Done.** `VSwitch` against `Bridge`, with proofs: the one complete
   forwarding program of the repository, and the one with most state.
2. **Done.** `Pipes`, `Loop`, `Driver`, `System` against `Channel`, from the
   first socket on.
3. **Done, with proofs.** `Router` against `Forwarder`.
4. **Done, with proofs.** `Arp`.
5. **Done, with proofs.** `Harness` and `TestHub`.
6. **Done.** Proofs of `System`: every invariant of `system_safety`, and that it
   implements `Channel`.
7. Left: when a test leaves `child_buf` empty, so that the next one is `fresh`. The
   widths of the header in `Pipes`: a line of more than 65535 octets, a text that
   wraps to size 0. `crc.c` as operators against a bitwise definition.
