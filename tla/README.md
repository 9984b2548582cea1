# A verification development of ABC (NSDI 2020)

The repository holds the three parts of ABC, *Accel-Brake Control*: routers that
mark every packet "accelerate" or "brake" (mahimahi's `CELLULAR` queue), the
endpoints that obey the marks (`tcp_abc.c`), and the emulator that carries
packets along a trace of delivery opportunities (`mahimahi/`). This directory
models them in TLA+, checks the models with TLC on small instances and proves
part of what is checked with TLAPS. Paths below are relative to `src/`; those of
the emulator are relative to `src/mahimahi/src/`.

## 1. The system

| Component | State it keeps | Operations | Interacts with |
|---|---|---|---|
| Packet queues (`packet/dropping_packet_queue.cc`, `drop_head`, `drop_tail`, `infinite`) | the packets, a byte counter, a packet counter | `enqueue`, `dequeue`, the assertion `good()` | called by the link |
| CoDel, PIE (`packet/codel_packet_queue.cc`, `pie_packet_queue.cc`) | dropping state, count, next drop; drop probability, burst allowance, measured rate | `enqueue`, `dequeue`, `dodequeue`, `control_law`; `drop_early`, `calculate_drop_prob` | called by the link; read the clock |
| ABC router (`packet/cellular_packet_queue.cc`) | a drop-tail queue, two windows of time samples, a token bucket | `enqueue`, `dequeue` | called by the link, also when the queue is empty; reads the clock itself |
| RCP, VCP, XCP (`packet/rcp_packet_queue.cc`, ...) | windows of arrivals, departures, queue lengths, round trips; the rate or load they advertise | `enqueue`, `dequeue` | write a number into the payload over what earlier routers wrote |
| Weighted queue (`packet/weighted_packet_queue.cc`) | an ABC router and a droptail queue, a decaying rate for each flow, their weight | `enqueue`, `dequeue` | serves either queue, at random |
| Link queue (`frontend/link_queue.cc`) | the place in the trace, the packet in transit and its bytes left, the output queue | `read_packet`, `wait_time`, `write_packets`, and `rationalize` inside the first two | owns a packet queue; called back by the ferry |
| Delay, loss, on-off, meter queues (`frontend/delay_queue.cc`, `loss_queue.cc`, `meter_queue.cc`) | packets with release times; on/off and the next switch | as the link queue | called back by the ferry |
| Packet shell (`packet/packetshell.cc`) | a tree of processes with their privileges, environment and signal masks; addresses, NAT rules, a descriptor in flight | constructor, `start_uplink`, `start_downlink`, `wait_for_exit`, destructors | starts two ferries, dnsmasq and the user's command |
| Ferry, poller (`packet/packetshell.cc`, `util/poller.cc`) | descriptors, interest, callbacks, a service count | `Ferry::loop`, `poll` | joins two TUN devices through a queue; calls back the queue and the signal handler |
| Event loop, child processes (`util/event_loop.cc`, `util/child_process.cc`) | for each child: running, terminated, exit status | `handle_signal`, `wait`, `resume`, destructors | signals and `waitid()` of the kernel |
| Byte stream queue (`util/bytestream_queue.cc`) | a ring buffer and two indices | `push`, `pop` | the relay |
| DNS proxy (`util/dns_proxy.cc`) | for each TCP connection a thread with two byte stream queues; for each UDP query a thread | poller actions | sockets |
| HTTP parsers (`http/`) | the message in progress, unparsed bytes, requests that wait | `parse`, `parsing_step`, `eof`, `ChunkedBodyParser::read` | the recording proxy |
| Recording proxy (`httpserver/http_proxy.cc`) | for each connection a thread with two parsers | `handle_tcp`, four poller actions | client, server, backing store |
| Live graphs (`graphing/`) | bins of time, data points, the frame on display | `add_value_now`, `set_max_value_now`, the animation thread | called by link and meter, two threads |
| Replay server, dual dropping queue | saved exchanges; two queues | `match_score`; none used | |
| ABC endpoint (`tcp_abc.c`) | sender: `loss_cwnd`, `ai_cwnd`, `prior_snd_una`; receiver: `ce_state`, `delayed_ack_reserved`, `prior_rcv_nxt` | `abc_in_ack`, `abc_pkts_acked`, `abc_cwnd_event`, ... | callbacks of the kernel's TCP |
| ABC with Cubic (`tcp_abccubic.c`) | both windows, the cubic curve, HyStart | as above, `bictcp_cong_avoid`, `bictcp_state`, `bictcp_acked` | kernel |

How they meet: packets go TUN device → ferry → link → packet queue (the ABC
router) → output → the sibling's TUN device. The marks that the router leaves in
the IP header come to the receiver, whose ACKs echo them (ECE) to the sender,
which moves its window one packet up or down for each packet acknowledged. A
shell is a tree of processes: the shell supervises two ferries, one of which
supervises dnsmasq and the user's command. What the command asks of the network
goes through the DNS proxy, and in `mm-webrecord` through the recording proxy.

What is hard:

* **Time.** The clock is `CLOCK_REALTIME`, in ms, cut to 32 bits by some: it can
  be set back and it wraps. The link uses its opportunities late and in batches;
  a router reads another time than the one it serves; each callback of a ferry
  reads the clock for itself.
* **State computed before a callback and used after it.** The poller computes
  interest, then runs callbacks that change it.
* **Ordering.** A packet must be kept from opportunities that precede it; a
  delayed ACK must not cover segments with different marks; pipelined answers
  must meet their requests; root must not see the user's environment.
* **Coalescing and suspension.** `SIGCHLD`s coalesce; a parent stops itself in
  the middle of its loop; a destructor waits for a child that may be stopped.
* **Failure in the middle.** Any of some twenty steps of the set-up may throw, in
  one of three processes, one of which waits for another.
* **Delimiters split between reads.** A chunk's CR may come without its LF.
* **Threads.** The animator reads the bins that the ferry's thread writes.
* **Numeric edges.** Windows, times and counters are unsigned; a credit divides
  by what was measured; a growth is the inverse of a count.
* **Loss.** ACKs take the marks they echo with them.

What makes each component correct:

| Component | Properties |
|---|---|
| Packet queues, CoDel, PIE | each is a lossy FIFO; no failed assertion; an only packet is kept; bursts are spared; drops are those decided |
| ABC router | acceleration is paid from a budget, and follows the trace; no division by zero |
| RCP, VCP, XCP, weighted | a packet tells the sender what the strictest router asked for; the level is that of max-min fairness |
| Link | no packet leaves in an opportunity that precedes it; no opportunity wasted or used twice; a method returns |
| Ferry and its queues, poller | exits when the trace ends, flushed; is late only by the time it is out of `poll()`; no busy wait with a trace; an unimpaired direction loses nothing |
| Packet shell | no privileges with the user's environment; nothing is left behind; a failure ends it, but for a downlink's that is reported along with the uplink's end |
| Event loop | no exit or stop lost; shutdown completes; the loop quits when it should |
| Byte stream queue, DNS relay | a FIFO of `size - 1` bytes; all bytes relayed before it ends; it ends |
| HTTP | messages are those sent; complete ones are not held back; answers meet their requests, up to the first interim response; all complete ones are passed on |
| Live graphs | each value in exactly one bin; bins in order; a graph that is destroyed ends |
| Endpoints | the window never wraps and follows the marks exactly; the increase is slow; neither window is exceeded; the pacing rate follows the window; the echo is exact; a transfer completes |

## 2. The modules

| Module | Models | State and actions, against the code |
|---|---|---|
| `PacketQueue` | the operators of `DroppingPacketQueue` | a queue is a record of the packets and the two counters; packets carry an `id` the code has no need of |
| `LossyFifo` | abstract: what any queue promises | arrivals, a set of waiting packets, the last handed out |
| `DroppingQueue` | infinite, droptail and drophead queues | `Enqueue`, `Dequeue`; `aborted` is a failed `assert` |
| `AqmQueue` | what CoDel and PIE share | the queue and a clock |
| `CodelQueue` | CoDel | each call of `dodequeue` is a step; `r` is what is returned, further results are lost |
| `PieQueue` | PIE | `pie` is the record of its members; `Update` is one turn of the catch-up loop, `Measured` the measurement of departures; the random draw is a choice |
| `Queues` | whichever of these the link was given | `discipline` |
| `CellularQueue` | the ABC router | `RouterEnqueue`; `dequeue` is `DequeueEmpty`, `DequeueNotEct` or `DequeueEct`. `meter` holds the two windows, `Credit` the target rate, `Spent` the bucket, `Remarked` the mark |
| `RateQueues` | RCP, VCP, XCP | `Forgotten` is the loop that drops old samples; `RcpRate`, `AbcRate` and the laws of the others; `Coded` is the header written bit by bit over that of the path |
| `WeightedQueue` | the weighted queue | an ABC router (the state of `CellularQueue`), a droptail queue, the rates in `category`; `WaterLevel` is the loop over sorted demands |
| `Routers` | the router a link was given | `kind` |
| `LinkQueue` | the link | `call` is the method that runs and its local `now`; `UseOpportunity`, `StartPacket`, `SendBytes`, `EndOpportunity` are the turns of the two loops of `rationalize`, then `EnqueuePacket` or `ReturnWait` |
| `AbcLink` | link and router together | each `dequeue` that `rationalize` makes is a step of both |
| `LinkFerry` | `Ferry::loop`, `Poller::poll` and the link | `pc` is the place in the turn: interest is computed in `PollStarts`, used by the callbacks |
| `FrontEnds` | the same loop with a delay, loss, on-off or meter queue | the clock moves between any two steps: `asked` is what `wait_time` read, `polled` when `poll()` began; `awake` and `before` count the time spent out of `poll()` in this turn and the last |
| `LiveGraph` | the bins and the animation thread | `at` is the place of each thread; a value is loaded and stored in two steps; `Estimates` reads the bins without the mutex; the frame waits for two events of the X server |
| `PacketShell` | set-up and take-down of a shell | `procs[p].at` is the place in the program of each process; `Throws` is an exception there, `Killed` a signal; a loop learns of its children's ends by a `SIGCHLD` that is pending once (`chld`) and handles one child for each (`HandlesChild`); destructors run in order |
| `Shells` | the three above, side by side | `kind` |
| `EventLoop` | event loop, child processes, the kernel as they see it | `LoopRuns`/`Handle...` read a signal, `Scanning` is the search over the children, `Destroying` the destructor |
| `BoundedStream` | abstract: a FIFO of bytes | |
| `ByteStreamQueue` | the ring buffer | `Push(n)`, `Pop(n)`: the system call transferred n bytes |
| `Relay` | the DNS proxy's TCP thread | four poller actions over two such queues, end of file, hang-up, time-out |
| `HttpParser` | the parser of responses | one step for each turn of `parsing_step` and of the chunked parser's loop; reads cut the stream anywhere; each response answers a request of its own |
| `HttpProxy` | a connection of the recording proxy | `stage` is the place of the thread; messages have numbers, and `meant` is the request that the server answered with each; a response comes in one or two pieces, an interim one (1xx) in one |
| `Proxies` | one thread of any of the four | `part` |
| `AbcSender` | the sender's callbacks | `InAck`, `PktsAcked`, `EnterLoss`, `Undo`; `Second` is the number of ticks in which round trips are sampled, microseconds in the code |
| `AbcCubic` | the sender with Cubic | `ca` is the private state and the kernel's windows; `AckArrives`, `RttSample`, `EnterRecovery`, `CongControl` in the order of `tcp_ack`; `Loss`, `CubicUndo`, `TxStart` |
| `Endpoints` | either sender | `module` |
| `AbcReceiver` | the receiver's callbacks and the kernel's delayed ACKs | `Receive` is a segment with its mark and the kernel's choice, `AckTimer` the timer; `SendData` is data that carries an ACK, of which the module is not told, so that `delayed_ack_reserved` goes stale |
| `AbcConnection` | sender, path and receiver | the path marks as it likes, ACKs may be lost; `misled` and `repeated` keep count of what an ACK says that it should not |
| `MC...` | the traces, the sets of children and the HTTP exchanges of the runs | |
| `...Proofs` | the theorems of section 5 | |

`Queues`, `Routers`, `Shells`, `Proxies` and `Endpoints` put side by side what
never shares a process: the code picks one of them when it starts (or gives each
a thread that shares nothing), so a behaviour runs one and leaves the state of
the others alone. What does share state is composed step by step: `AbcLink`,
`LinkFerry`, `FrontEnds`, `LiveGraph`, `AbcConnection`, `Relay`.

An operator introduced by "Slip" is a plausible bug in the definition that
follows it. No specification uses it; put in the place of that definition, it
makes one of the properties fail, which shows that the property has teeth.

What is abstracted: a payload is nothing but its size and ECN field (in
`RateQueues`, its coded cells; in `HttpParser`, a line of text is one place,
while CR, LF and the digits of a chunk's size are places of their own). The
`double` arithmetic of the routers is fixed point: units of `1/Scale` token,
`1/PUnit` of a probability, tenths of a rate; rates whose byte and time units
divide out are counts of samples. TLC's integers are 32 bits wide, so
`RateSpace`, `SeqSpace`, `JiffySpace`, `MsSpace` and `ByteSpace` stand for the
widths of the code, scaled down, and `Second` for its microseconds; Cubic's
curve is scaled with its clock (`CurveUnit`, `Hz`). `FrontEnds`, `RateQueues` and `PieQueue` turn random draws into choices.

## 3. The runs

| Run | Shows |
|---|---|
| `queues` | infinite, droptail, drophead, PIE and CoDel under a packet limit: `NoAssertionFails`, `PieSparesBursts`, `OnlyPacketIsKept`, and the refinement `AnyFifoSpec` of `LossyFifo` |
| `drophead_bytes` | *violated*: `NoAssertionFails` under a byte limit (section 6) |
| `codel_spared` | *violated*: `DropsAreDecided` (section 6) |
| `abc_link` | router and link, repeating trace, a clock that jumps to any value between any two steps: `AcceleratesWithinTrace`, `NoPacketIsLate`, `LeavesWhenDue` |
| `ferry_once` | a trace that ends, packets that share and span opportunities: `ExitsFlushed`, `NeverThrows`, `AssertionsHold`, `FerryExits` |
| `router` | packets of every ECN kind through the ABC router and the weighted queue, packets coded by up to two earlier routers through RCP, VCP, XCP: `AccelerationWithinBudget`, `PathDecides`, `WaterLevelIsFair` |
| `sender` | any ACKs, samples, timeouts, undos, idle times, for both senders: `WindowFloor`, `IncreaseIsSlow`, `PacingFollowsWindow`, `NeitherWindowExceeded`, `CubicGrowthIsBounded`; and the assumption `CubicRootIsClose`, a check of `cubic_root` against its definition |
| `connection` | both ends, marks, losses, data of the receiver, a window that holds segments back: `WindowFollowsMarks`, `EchoIsExact`, `TransferCompletes` |
| `proxies` | ring buffer: the refinement `StreamSpec`; relay: `RelaysEverything`, `EndsWhenBothDo`; parser: `MessagesAreThoseSent`, `NothingIsHeldBack`; recording proxy: `AnswersMatchRequests`, `PassesAllOn` |
| `shells` | front ends: `LateOnlyWhileAwake`, `OtherDirectionLosesNothing`; graphs: `ValuesAreConserved`, `BinsInOrder`, `GraphEnds`; set-up: `UserRunsUnprivileged`, `LeavesNothingBehind`, `FailureEndsShell` |
| `loop` | shell and ferry: `ExitsAreNotLost`, `StopsAreNotLost`, `ShutdownCompletes` |
| `loop_coalesced` | *violated*: `QuitsWhenAllHaveQuit` (section 6) |

### Bounds

Every bound is a constant and a guard of the action it bounds.

* `MaxArrivals`, `MaxToPie`, `MaxToCodel`, `MaxCoded`, `MaxMixed` and the clocks
  beside them (queues, routers, link): two to eight packets are enough to fill a
  queue of two or four, to have one in transit, one queued and one arriving, to
  finish a measurement of PIE, and to bring CoDel through a second drop. The
  traces have two or three opportunities, two of them at the same time or at
  time 0, and wrap (`abc_link`) or end (`ferry_once`) within the clock's range.
* `MaxSamples` (router): how many samples a window holds. In `abc_link` it is
  above what the clock's range can produce, so it never blocks a method there.
* `TokenLimit` is 1, so the bucket fills, empties and clamps within a run.
* `Bits = 4` cells for a number (20 in the code), bytes of `ByteSpace = 8` and
  `Hops = 2`: every number of the width, written over every other. `Fill`
  is 1, as far from the ends of a signed byte of three bits as two routers move
  it; with `Fill = 3`, which stands for a filler of 127, VCP reads a load of two
  as none and `PathDecides` fails. `Ports` has a flow of each class, of those that
  are raised and those that are not.
* `Acked`, `MaxAcks`, `MaxCwnd` (sender): ACKs of zero to three packets, nine of
  them, from a window of eight: down to the floor, where brakes are ignored, and
  up; `SeqSpace` is six segments, so sequence numbers wrap. `MaxEvents`,
  `MaxTicks` (Cubic): five events and three ticks of a clock that wraps
  (`Starts` is two below `JiffySpace`) reach a loss, a new epoch with a curve
  towards the old window, and the growth that follows.
* `Second`, `Rtts`, `RateSpace` (pacing): thousandths of a second stand for the
  code's millionths, and round trips of 5, 700, 1001, 14501, 29000 and 30000 of
  them for those where the integer division loses nothing, something, nearly half
  (just above 14.5 s, where the quotient is 1) and everything (above 29 s). With
  the shortest the product exceeds `RateSpace`.
* `MaxSegments`, `InitCwnd` (connection): seven segments from a window of four. The
  window, and after a timeout a window of one, holds segments back, and four is
  where a brake without its floor would reach zero: `TransferCompletes` fails with
  the floor taken away, and an initial window of ten would need so many segments
  that the run would not end in time. `MaxLost` and `MaxData` are one: one ACK is
  lost, one segment of data leaves a stale copy.
* `MaxBytes` (ring): twenty bytes through six cells, three turns. `MaxSent`,
  `Capacity` (relay): three bytes from each end through queues of two, so that
  both fill. `MCExchanges` (parser): one response or two, with every way of
  ending a body, trailers with lines and without, announced or not, a status line
  and a header that are refused, read in pieces of any length up to `MaxRead`.
  `MaxRequests`, `MaxInterims` (recording proxy): three pipelined requests, and one
  interim response before the answer to any of them.
* `MaxDatagrams`, `MaxTime` (front ends): two datagrams; the clock may tick
  between any two steps, and be set back once. The kernel's timeouts are exact: in
  `poll()` the clock does not pass a timeout, or a descriptor that is ready. `Instants`, `MaxCalls` (graph): times on, before and after the
  edges of two bins, two calls of the writer.
* `MaxKills`, `Assigned`, `LastOctet` (set-up): one signal at any place in any
  process on top of any exceptions; one address of three is taken, or two, so
  that no pair is left.
* `MaxStops`, `MaxSignals` (loop): each child, or one child twice, is stopped;
  users send two signals. Statuses 0, 1 and 77 are those the code tells apart.

`CHECK_DEADLOCK FALSE` stands where the system really may stop: the process has
exited or aborted, or a bounded environment has nothing left to send.

## 4. Fairness

Liveness rests on weak fairness of the threads and processes. One that can take
a step of its own takes it: code between system calls, on an operating system
that schedules it (`Running`, `AbcRunning`, `FerryStep`, `ParentStep`,
`RelayRuns`, `WriterRuns`, `AnimatorRuns`, `ShellSteps`, `UplinkSteps`,
`DownlinkSteps`). In `LinkFerry` time passes (`FerryTick`); datagrams need not
arrive. In `EventLoop` a child that has been sent its termination signal and is
not stopped exits (`ChildObeys`); children never have to exit or to continue
otherwise, and users never have to send `SIGCONT`. `PacketShell` assumes the
same of dnsmasq and the command, which end at the signal; nothing has to throw,
to exit or to be signalled. In `AbcConnection` the kernel's timers fire and the
network delivers; the receiver's choice between acknowledging now and later is
free. In `Relay` `poll()` returns when a descriptor is ready, or after its 60 s.
Strong fairness stands in one place only: the mutex of a live graph, which the
two threads take in turn, does not pass one by for ever (`AdvanceBegins`,
`LoadsValue`), as a futex under any scheduler that does not starve a thread; the
X server, whose events are steps of the animator, answers. No liveness property
assumes anything of the order of events.

## 5. What is proved

The theorems hold for every value of the constants that satisfies the named
assumptions of the modules, which say what the code needs: a trace is not empty,
does not decrease and lasts longer than 0 ms (`ScheduleAssumption`); a packet
fits an opportunity and has a size (`LinkAssumption`, `SizesAssumption`,
`PieAssumption`, `CodelAssumption`); the parameters of the router and of Cubic
are not zero and its `beta` is below its base, and rates of flows decay by a
positive part (`RouterAssumption`, `WeightAssumption`,
`AbcAssumption`, `CubicAssumption`); what the curve asks a root of fits a word of
at most 64 bits, and TCP is to grow by a packet in a window at most
(`FactorsAssumption`); the bytes of a pair wrap only after more routers than a
path has, and these ask for rates that are not negative, or their opposites
(`RateAssumption`); the initial window is positive and a
segment has 1 to 1450 bytes, of which 1448 is the code's (`SenderAssumption`,
`ConnAssumption`); queues hold
at least one byte (`SizeAssumption`, `RelayAssumption`); there is at least one
child (`ChildrenAssumption`); the bound of a period and the longest wait are not
zero (`FrontEndsAssumption`); a bin
is as long as 1 ms or longer (`LiveGraphAssumption`); a server delimits each body
as section 4.4 of RFC 2616 says, to whose rules the comments of
`http/http_response.cc` refer, ends a chunked one with a trailer that has lines or
none, whatever its headers announce, and sends CR LF only at the end of a line or
in a body (`ParserAssumption`; a response with a status line or a header that the
parser refuses may have any body). No proof uses how large a
bound is. Each has the same layout: an inductive invariant holds at first, each
action keeps it (one lemma per action or group of actions), and it implies the
property.

Five theorems have a hypothesis more, where the code needs one:

* `QueuesNeverAbort`: no drophead queue has a byte limit. There the assertion
  does fail, as `drophead_bytes` shows.
* `CubicObeysBoth`: the kernel's initial window is at most ten packets, with
  which Cubic's window starts (`tcp_abccubic.c`); a larger one is above it until
  the first ACK. It is ten in the kernel unless a route says otherwise.
* `RouterAcceleratesWithinTrace`: every packet fills an opportunity. The router
  is called once for each packet, so smaller ones ask it several times in one.
* `WindowTheorem`: the sequence numbers of a transfer do not wrap.
* `PathIsRead`: neither the router nor those before it, if they are XCP's, ask
  for less than the bits of a header can write down, and if they are VCP's, the
  byte that fills a packet is two away from the ends of a signed byte
  (`FeedbackFits`). The code would write such a number without its highest bits,
  and read such a byte as a load of none. The run `router` is within that
  throughout; twenty bits hold a thousand packets for each departure.

Three properties say themselves up to where they hold, in terms of what has
happened: `MessagesAreThoseSent` and `NothingIsHeldBack` up to the first response
whose trailer is not as its headers announce, `AnswersMatchRequests` up to the
first interim response. The runs go past both (section 6 says what the code does
there), and the theorems have no hypothesis that excludes them.

| Module | Theorems | The invariant, and why it is needed |
|---|---|---|
| `QueuesProofs` | `QueuesAreFifo` | `IInv`: the identities in the queue increase, above that of the last packet taken and up to that of the last arrival. Under it each action is an abstract arrival, a loss of some packets, or a departure of one that arrived after all those taken; CoDel, which holds a packet between its steps, hands it out in the last of them. |
| | `QueuesNeverAbort` | `Kept`: no assertion has failed and a queue that makes them is within its limits. One drop makes room for one packet when packets are what is limited. |
| | `CodelKeepsOnlyPacket` | The byte counter is the sum of the sizes in the queue: a sequence of partial sums exists for it (`Sums`). More than `PACKET_SIZE` bytes are then two packets, which is what CoDel's exception for the only packet rests on. |
| | `PieSparesEveryBurst` | `Budget`: what is left of the allowance, the time updated and the time measured since it was granted come to `max_burst` at least. It needs that updates are never ahead of the clock, through a loop that runs as often as is due: `UpdatesExist`, by induction. |
| `SenderProofs` | `SenderTypes`, `SenderFloor`, `SenderIncrease`, `SenderPaces` | The three properties together. The bound on the increase counts ACKs against the window, of which it must be known that it has not fallen below the floor. The pacing rate is a theorem on an integer division and a remainder: a quotient of one or more is at least half of what it rounds down (`HalfIsKept`), and half of 2900 bytes is what a `Segment` is at most. |
| | `CubicObeysBoth`, `CubicGrowsSlowly` | `Fit`: both windows hold a packet, the curve is within `Reach`, and a count that may be kept for the next ACK is two at least (`Holds`): each branch of `bictcp_update` and the cap on the growth keep it. The curve itself enters only through its type. |
| | `CubicRootIsSafe` | No invariant, but a fact of `cubic_root`: b is such that of a number of n bits, n up to 64, between four and six are left (`LeadingBits`), which are in the table and past its small entries; the estimate is then four at least. `CubicGrowsSlowly` rests on it where a new epoch asks for a root. |
| `ReceiverProofs` | `ReceiverTypes`, `EchoTheorem`, `RepeatsTheorem` | `Segments`: the segments not yet acknowledged all carried the mark in `ce_state`. `Reserved`: `delayed_ack_reserved` holds whenever there are any, and a timer runs; it may hold when there are none, once data has carried the ACK. An ACK flushed at a change of mark is exact because of the first and, because of the second, never missing. `Few`: an ACK that repeats another spends a stale copy, and each stale copy is owed to a segment of data. The theorems are about a whole connection; `ReceiverInConnection` says that all its other steps leave the receiver alone. |
| | `WindowTheorem` | `WindowIInv`: between the ACKs that have come and those that were counted lies a lag, of segments whose ACKs were lost; the window differs from the account of the marks by two at most for each segment that was misled about, less those of the lag, and by the packets that repeated ACKs were taken for. It rests on `EchoTheorem`'s invariant and on lemmas that count marks over intervals (`MarksAddUp`, `MarksAgree`). |
| `LinkProofs` | `LinkTypes`, `LinkIsNeverLate`, `LinkAssertions`, the same for `AbcLink...` and `Ferry...` | `OpportunityComesAfter`: while `rationalize` uses an opportunity, all that is unsent arrived strictly before it. It is kept because the next opportunity never precedes the one it follows, also where the trace wraps (`TraceMovesOn`), and because steps of the clock between calls do not reach the trace. A step that takes a packet from the queue may mark it (`Remarks`); every step of a ferry or of an ABC link is a step of such a link. |
| | `LinkLeavesWhenDue`, `AbcLeavesWhenDue` | The opportunity promised to each waiting packet is the one that the bytes before it fill, counted from the bytes left in the one that is open. |
| | `FerryNeverThrows`, `FerryFlushes` | Whatever interest said there was to write is still there when the callback runs, since other callbacks only add to the output. |
| | `LinkPlaysTrace`, `FerryExitsAtTheEnd` | `TraceIsPlayed`: the opportunities used are those of n whole turns of the trace and of a part of the next, which began n periods after the start. The code counts neither; the proof carries n as an existential. A trace that has ended has been used once, whole, and nothing is due after it. |
| | `RouterAcceleratesWithinTrace` | `Full`: nothing is ever partly sent, and the router was asked as often as opportunities were used, less the one that is open and in which it was not asked yet. With `RouterBudget`'s invariant, which steps of the link keep, this is the property. |
| `CellularProofs` | `RouterTypes`, `RouterBudget`, `RouterDivides` | Both windows are never empty, which the division needs and which a clock set back puts at risk; hence a credit is a natural number of at most 0.49 (`CreditIsBounded`), and what a departure takes from the bucket was there (`BucketIsPaid`). |
| `RoutersProofs` | `AnyRouterKeepsBudget` | As a class of the weighted queue the router is called by other steps than its own: of a call the budget needs only the windows and that the packets left are counted (`RoutersIInv`). |
| | `FlowsShareFairly` | `RatesAreCounted`: finitely many flows with rates that are natural numbers, and stay so when they decay. The rest is about the loop: there is an order of the demands (`OrderExists`), which leaves none out (`InOrderFacts`); the sum of a function is the sum of its values in any order (`TotalInAnyOrder`); up to the first flow that overflows all get their demand, from it on all get the level (`SharedAmongLarger`). |
| | `PathIsRead` | `Reads`, for each packet in the queue and after each router of its path: the bytes of a pair are no further apart than so many routers can have put them (`WrittenIsRead`: so none has wrapped to equal by accident; VCP's two, by the greatest load so far), the pairs that are equal sum to the least that was asked for (`BitsSayTheNumber`, by induction on the bits), and the sign is set only where that is below zero, as no router unsets it. A path is a recursive function of its routers, which exists (`HopsExist`) and keeps `Reads` at each of them (`TravelledSays`). |
| | `RateLawsAreDefined` | `WindowsKept`: a window forgets all but its last sample and then takes one in; departures and round trips join and leave together, so that an average of round trips is no less than the least of them (`AverageIsAtLeast`). |
| `ProxiesProofs` | `RingIsSound`, `RingImplementsStream` | The indices count the bytes held (`CountIsExact`): only then are the cells that `push` writes free. Under it, `Push` is the abstract `Take` and `Pop` is `Give`, of n bytes each. |
| | `RelayPassesAll` | Each byte that an end sent is in its socket, in the queue or passed on (`BytesAreSomewhere`); an end's EOF is read after its bytes; what `poll()` found readable stays so. |
| | `AnswersMatch`, `ConnectionPassesAll` | `RequestsInOrder`: the numbers of requests run on from queue to queue, from the last response written to the client's last request. `PiecesInOrder`: so do the pieces of responses, from the one the parser is in to the one the server is at. `MeantInOrder`: up to the first interim response, the n-th message is meant for the n-th request; beyond it the queues stay in order, which is all that `PassesAllOn` needs. |
| | `ParserCutsRight`, `ParserHoldsNothing` | `ParserIInv`: by the state of the message, how far into the stream the parser is; what it has collected is what was sent up to there, and the buffer is what was read from there on (`IsPart`). Each line found is then the next one sent (`NextLine`); chunks are skipped from one start to the next (`AtChunk`), so that CR LF within their data is not taken for a delimiter; the end of the body is found where it is, and only once all of it has arrived (`FindsEnding`). At a response whose trailer is not as announced the invariant gives way to `IsAstray`: the messages before it stay as they were sent. |
| `ShellsProofs` | `FerriesWakeInTime` | Releases are in the order of arrival (`ReleasesInOrder`); what `wait_time` returned ends at the next of them, or a write has been promised by then (`WaitEndsInTime`); the clock is at most the time out of `poll()` away from what `wait_time` read (`AwakeSinceReading`), and so from the release of whatever the callbacks write (`LateInTurn`). |
| | `UnnamedDirectionIsLossless` | `OtherLinkIsOn`: the link of the other direction is off only before the first `wait_time` and between the two switches it makes at a bound; never when a datagram may be read. |
| | `EnvironmentIsUnprivileged`, `ShellCleansUp` | Where each process of the tree is, by what its parent has done (`StartedInOrder`), what was masked (`MaskedWithChildren`) and who was waited for (`WaitedBeforeOver`); the shell unwinds as root, so that iptables obeys. |
| | `MetersConserve`, `LinesAreInOrder` | `MutexIsHeld`, and that the bin being closed has a point on exactly the lines below the one `advance()` is at, whichever thread runs it (`LinesAreCurrent`). |
| | `LoopTypes`, `LoopLosesNoExit`, `LoopLosesNoStop`, `LoopLeavesNoOrphans` | A report tells the state its child is in now; a child known to have terminated has exited; the destructors run in order. |

Some theorems state what no run checks by a property of its own, because a proof
says more: `RingIsSound` (`BytesAreKept`), `RepeatsTheorem` (`RepeatsAreFew`),
`LoopLeavesNoOrphans` (`NoOrphans`), `RouterDivides` (`WindowsNeverEmpty`),
`RateLawsAreDefined`, `CubicRootIsSafe`, `LinkPlaysTrace` (`TraceIsPlayed`) and
`FerryExitsAtTheEnd`, and so do the theorems on types.

Induction over the natural numbers is done with a set in place of a
predicate (`Induction` in `QueuesProofs`, `SenderProofs`, `RoutersProofs` and
`ProxiesProofs`); so it is for the folds of sums, which `CHOOSE` a function that
unfolds: one exists (`IterationExists`), and any two agree (`IterationsAgree`). So
it is, too, for the powers of two and the path of a packet, recursive functions
of which one must first be shown to exist (`DoublesExists`, `HopsExist`), and for the
stream of responses, which is a fold over them and, within each, over the lines
of its header: where each line and each body is in it is proved once
(`LaidOut`, `WireFacts`, `StreamFacts`), for any number of them.

Only model-checked are:

* the liveness properties (`TransferCompletes`, `EndsWhenBothDo`, `GraphEnds`,
  `FailureEndsShell`, `ShutdownCompletes`, `FerryExits`), which rest on fairness
  and on ENABLED, out of the prover's reach;

## 6. Findings

* **A drophead queue with a byte limit aborts.** `enqueue` calls `dequeue()`
  `while ( not good() )`, but `dequeue()` ends with `assert( good() )`
  (`packet/dropping_packet_queue.cc:30`). When one arrival needs two drops the
  first of them fails the assertion. Under a packet limit one drop is always
  enough (`queues`).
* **Two children that finish together leave the shell waiting for ever.** The
  search over the children is there because `SIGCHLD`s coalesce
  (`util/event_loop.cc:41`), yet it returns at the first child that has
  terminated (`:62`). The other is never reaped and the loop never quits.
* **CoDel drops a packet other than the one it decided on.** The results of
  all but the first `dodequeue()` shadow `r` (`packet/codel_packet_queue.cc:74`,
  `:84`): the first packet, marked to be dropped, is returned, and a later one,
  which was not, is lost. The queue stays safe all the same: an only packet is
  never lost (`OnlyPacketIsKept`).

Remarks, which no run states as a violated property:

* PIE uses up its allowance for bursts twice, by its updates and by its
  measurements of departures, so that a burst is spared for half of `max_burst`
  only; `PieSparesBursts` says exactly that.
* "On all cwnd reduction events, ca->epoch_start is set to 0"
  (`tcp_abccubic.c:506`), but the caps by what is in flight (`:631`, `:654`) reduce
  the window and leave the epoch. `CubicGrowthIsBounded` holds nevertheless.
* `bictcp_cong_avoid` has `ack = 0`, so the round of HyStart is tested against 0
  (`tcp_abccubic.c:611`); `SlowStart` models what the test then does.
* XCP's feedback has a sign and twenty bits (`packet/xcp_packet_queue.cc:97`), but
  the law has no bound: a standing queue of thousands of packets for each
  departure of the window would ask for less than -(2^20 - 1) thousandths, and
  lose the bits above (`FeedbackFits`).
* A signal that comes between the NAT rules and the construction of `event_loop_`
  (`packet/packetshell.cc:32`) ends the shell without its destructors, and the
  rules stay. `LeavesNothingBehind` speaks of shells that end by themselves.
* When an uplink finishes (status 77) and a downlink fails before the shell has
  read the `SIGCHLD` of the first, the shell reaps the uplink, goes on, and never
  learns of the failure: the same return at `util/event_loop.cc:62` as above.
  `FailureEndsShell` names the state (`MissesDownlink`) as the one in which a
  failure does not end a shell; a failing uplink always does, being found first.
* A clock that ticks between `wait_time` and the start of `poll()`
  (`util/event_loop.cc:101`) makes a ferry sleep past a release by as much.
  `LateOnlyWhileAwake` says that this, and the time in callbacks, is all.
* A response with a `Trailer` header and no trailer, which RFC 2616 does not forbid,
  makes the parser wait for a second CR LF (`http/chunked_parser.cc:80`) and take
  the head of the next response for a trailer; one with lines but without the header leaves them to be parsed as the
  next response. Both are in `MCExchanges`.
* An interim response (`100 Continue`), whose body `http/http_response.cc:30` knows
  to be empty, takes the request from the final one
  (`http/http_response_parser.cc:21`): the final response is paired with the next
  request, or there is none and the connection ends with "response without
  matching request". `ServerSends("interim")` does both.
* Data that the receiver sends carries an ACK of which no event tells the module
  (`tcp_abc.c:176`): at the next change of mark it flushes an ACK that was sent
  already, and the sender counts a packet for it (`tcp_abc.c:127`). `repeated` in
  `WindowFollowsMarks` is that error, and `RepeatsAreFew` bounds it.
* The pacing rate (`tcp_abc.c:227`) is zero above 29 s and wraps for a large window
  and a short round trip; just above 14.5 s it is 1450 bytes for each packet and
  round trip, which covers the 1448 of the code and not a segment of 1460.
* A wall clock that is set back between the computation of interest and the
  callback makes the callback of a delay queue write nothing, which the poller
  takes for a busy wait: the ferry throws (`pc = "threw"` in `FrontEnds`).
* `initialize_new_bin_` of a live graph is constructed after the thread that
  calls it has started (`graphing/binned_livegraph.cc:28`); `CallsUnmade` is the
  step that ends the animator then. The properties of `LiveGraph` speak of runs
  without it.
* A client of the recording proxy that closes only its sending side loses the
  answers still to come, as no response is read after its end of file
  (`httpserver/http_proxy.cc:54`); `PassesAllOn` excludes them.

## 7. What is not modelled, and why

* What system calls do to devices, routes, certificates and files, and the
  parsing of command lines. That a call fails is modelled where something must
  be undone (`PacketShell`) or a connection ends (`HttpProxy`, `Relay`).
* Two shells started at once, which may find the same pair of addresses free:
  nothing locks the addresses between the search and their use.
* The UDP half of the DNS proxy: a thread for each query, one answer, no state.
* How a mispaired response is framed: after an interim response the parser takes
  the request of another, and where one of them is a `HEAD` it misjudges the body.
  `HttpProxy` has messages with numbers and no bodies; the streams of `HttpParser`
  have no interim responses. Nor what `myatoi` makes of a `Content-Length`: sized
  bodies have one length.
* The parser of HTTP requests by itself: the same message sequence without
  chunked bodies. Conversions to protobufs and the backing store's file names
  are formatting.
* The replay server: a CGI process per request that reads files and keeps no
  state; its `match_score` compares strings. Apache is not in this repository.
* The dual dropping queue: none of its operations is called.
* In the weighted queue, the lists of recent flows and the credits, which feed
  only modes that the constant `weighted_mode` does not choose.
* Drawing, with the scale and the peak of a live graph; logging and formatting; IP
  checksums.
* The Reno fall-back of `tcp_abc.c`, which is the kernel's.
* Segments out of order at the receiver: which ACK the kernel then sends is not
  in this code.
* `mahimahi/src/protobufs`, vendored and generated files, scripts and traces.

## 8. Plan

Done: every component that keeps state of its own between calls. What would be
worth adding, the most important first:

1. **A refinement of the whole path**: router, link and connection together, with
   `RouterAcceleratesWithinTrace` and `WindowTheorem` as what each side promises.
2. **The request parser** beside that of responses, and both in place of the
   numbered messages of `HttpProxy`, so that the framing of a mispaired answer can
  be followed.
3. **The weighted queue's other modes** of weighing, if they come into use.
