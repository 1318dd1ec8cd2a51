# A verification project for AV-Chaos-Monkey

AV-Chaos-Monkey runs synthetic WebRTC and UDP participants in pods, streams
media from each of them and injects "spikes" (packet loss, jitter, bandwidth
limits, bitrate drops...) into the network of the pod or into the streams, while
receivers connect and collect metrics. This directory holds TLA+ models of its
core, TLC configurations that check them on small instances, and TLAPS proofs
of the properties that matter most, for every value of the constants.

`PROJECT.json` lists components, runs, hazards, theorems and, for every
definition, the source lines it translates.

    tlc -config MCSpikeInjector.cfg MCSpikeInjector.tla    one run
    tlapm SpikeInjectorProofs.tla                          the proofs of a module

## 1. Inventory

The orchestrator (`cmd`, `internal/server`) is one process per pod. A client
creates a test (a session with its own participant pool), starts it, injects
spikes by HTTP or leaves them to a scheduler, asks for SDP offers, answers them,
reads metrics and stops it. Every HTTP request is a goroutine; nothing is
persisted.

| Component | State | Operations | Hard behaviour | What makes it correct |
|---|---|---|---|---|
| Spike injector (`internal/spike/injector.go`) | map of active spikes under one mutex; sleeping cleanup goroutines | Inject, Remove, RemoveAll, scheduleCleanup | cleanups that outlive their spike; ids used again | a timed spike ends, and not before its time; no rule outlives its owner |
| Network degrader (`internal/network/degradation.go`) | active flag; rules in the kernel (tc, or pfctl and dnctl) | ApplyPacketLoss, ApplyLatency, ApplyBandwidthLimit, RemoveAll, per platform | several commands per operation, each may fail; one rule replaces another | what a failed command leaves behind is never a rule that nobody removes |
| Participant pool (`internal/pool/participant.go`) | running flag, UDP map, WebRTC map | Start, Stop, AddWebRTCParticipant, RemoveWebRTCParticipant, InjectSpike | starts in goroutines; participants that join meanwhile; snapshots walked after the unlock | nobody missed by a start or a stop; a spike reaches its targets only |
| UDP participant and streaming (`internal/pool`) | atomic active flag, spikes, stream loops, sockets | Start, Stop, AddSpike, RemoveSpike, loops | a second loop beside an old one; removal by id | loops are bounded and end; a timed spike ends |
| WebRTC participant (`internal/webrtc`) | peer connection, active flag, spikes | Start, Stop, Close, CreateOffer, SetRemoteAnswer | answers for another offer; replacement | a closed one never streams as a member |
| HTTP control plane (`internal/server`) | map of sessions, state of each, one injector for all | create, start, stop, spike, SDP, answer | start twice, start against stop, several tests on one injector | the answer given to the client is true |
| Spike scheduler (`internal/scheduler/spike_scheduler.go`) | list of spikes, running flag, context, runner goroutines | ScheduleSpikes, Start, AddSpike, Stop | runners share spikes; stop against a wait; failing injections | each spike once per start, never early, all of them unless stopped |
| Work executor (`internal/scheduler/scheduler.go`) | index channel, semaphore, error channel | three schedules, Execute | cancellation and errors with items in flight; full channels | it is a bounded pool; nil means complete; it returns |
| RTCP feedback (`internal/rtcp`) | reports and RTT samples under an RWMutex; UDP server | StoreReceiverReport, CalculateRTT, GetMetrics, GetAllMetrics, receiveLoop | nested read locks; port shared by all pools | readers and the loop never block each other for good |
| Media (`internal/media`) | units and packets of a file in memory | H264Reader, OggReader, loadVideo, conversion | start codes and pages across buffers | the whole file is loaded |
| RTP packetizers (`internal/rtp`) | sequence numbers, timestamps | Packetize, fragments | 16-bit wrap, last fragment | what is sent can be put together again |
| Metrics (`internal/pool/metrics_aggregator.go`, `pkg/metrics`) | atomic counters, snapshots | aggregate, sequence-loss estimate | wrap of sequence numbers | estimates stay within their range |
| Receiver client (`internal/client`) | connections per participant | Connect, ConnectWithRetry, ConnectBatch, discovery | lost and late replies, retries that close what was open | retries end; what counts as connected is |
| Pods and drivers (`pkg/k8s`, `tools`) | cache of pods, port forwards, relay connections | broadcast, relay framing, reconnect | partial failure | the counts reported are those of what happened |
| Cluster tooling, generated protobuf, logging, HTTP helpers | none | | | |

How they interact. `handleStartTest` sets the session's state, launches
`ParticipantPool.Start` in a goroutine, and builds a `SpikeScheduler` whose
callback is `ParticipantPool.InjectSpike` followed by `Injector.Inject`; the
spike endpoint calls the same two in a goroutine and answers without waiting for it. The injector calls the degrader with its
mutex held. `handleStopTest` stops the scheduler, the pool, and all spikes of the
injector, which is one per process and not one per test. SDP requests create or
replace WebRTC participants while all of this goes on.

The hazards, each with its line and the properties that would catch it, are in
`PROJECT.json`; those no property covers yet say why.

## 2. Modules

| Module | Code | State and actions |
|---|---|---|
| `Degrader` | `internal/network/degradation.go` | the active flag and the shape and owner of the rule in the kernel; one operator per apply and remove method, in which each tc, dnctl or pfctl command may fail if the host's `faults` has it |
| `SpikeInjector` | `internal/spike/injector.go` | the registry, the sleeping cleanups; Inject with all its error returns, scheduleCleanup, RemoveAll. An operation holds `inj.mu` throughout and is one action with the degrader's part |
| `ParticipantPool` | `internal/pool`, the start, stop, SDP and answer handlers, the life cycle of a WebRTC participant | flags, maps, loops, where each handler and start goroutine stands; a step is what lies between two points where another goroutine can be seen |
| `ParticipantSpikes` | InjectSpike of the pool, AddSpike and RemoveSpike of the participants | the spikes on each participant, how far the walk of each call over the UDP and then the WebRTC participants has come, the sleeping removals, the shared video configuration |
| `Distribution` | the four strategies of `spike_scheduler.go` | the set of schedules each may return, over every outcome of the random source |
| `SpikeScheduler` | ScheduleSpikes, Start, AddSpike, Stop, both kinds of runner | a clock, the list, the runners (program counter and what is left to inject) |
| `BoundedPool` | none: the promise | waiting and busy items, whether the call is over |
| `Executor` | `internal/scheduler/scheduler.go` | the producer (three strategies, one shape), the index channel with any capacity of `Buffers` (0, `MaxConcurrent`'s own "no limit", makes send and receive one step), the caller, a goroutine per item, the semaphore, the error channel; refines `BoundedPool` |
| `H264Reader` | `internal/media/h264_reader.go`, the loop of loadVideo | a stream of start codes and bytes, the position, the units collected |
| `RtpPacket` | `internal/rtp`, `internal/client/rtp`, the packetizer of `internal/webrtc` | no state: units to packets, packets to datagrams, where two parsers find the payload and the participant id; what a receiver can put together again |
| `RtpMetrics` | `pkg/metrics/stats.go` | the counters and the loss estimate from sequence numbers |
| `MediaSource` | `internal/media`, initMediaSource | what the global source holds after loading video and audio, the Ogg and chunk readers |
| `StreamSender` | `internal/pool/streaming.go`, the loops of `internal/webrtc/participant.go` | the video and audio loop of a participant: place in the file, sequence number, frame in hand and packet whose turn it is; the socket; actions for every tick, for counting, dropping and writing a packet, Start and Stop |
| `RelayChain` | `k8s/udp-relay`, `tools/udp-relay`, `pkg/k8s/relay.go` | the pod's TCP clients, the framed stream of a connection, the local relay's reads; connections that break and are made again |
| `MediaPath` | `internal/client/udp`, `examples/udp_receiver.go` | composes `StreamSender` and `RelayChain` with two receivers and a network that loses and reorders |
| `SdpServer` | `handleGetSDP`, `handleSetAnswer`, CreateOffer, SetRemoteAnswer | every request as a goroutine with its steps, the pool's map, the participants; requests served after their client gave up, participants that cannot be made |
| `SignallingClient` | `internal/client/webrtc/connection.go` | a goroutine per participant, its attempt and step, the client's peer connections with their readers, timeouts |
| `WebRTCReceiver` | `examples/webrtc_receiver.go`, `internal/client/discovery.go`, ConnectBatch and ConnectWithRetry | composes the two with discovery, two waves or retries, and the close on a signal |
| `TestServer` | the test handlers of `internal/server` as a driver sees them | the session of each pod, the spikes that reached each participant and those a goroutine that outlives its request is still to give it; refused creations and spikes; crash and restart |
| `ChaosDriver` | `tools/chaos-test/main.go`, `pkg/k8s/pods.go` | phases of the driver, the pods still awaited, spikes sent, failures in a row, calls given up that arrive later |

`MC*` modules extend these with constants for TLC, `*Proofs` modules with
theorems. Operators named as variants (`RegisterOneTimerPerId`,
`StartWhileRunning`, ...) are plausible bugs beside the action they distort: put in
its place, each makes the property it is listed with fail. No specification uses
them.

What is abstracted. A rule in the kernel is its shape (none, degrading, half
built) and the spike that installed it. A peer connection is new, answered or
closed; ICE and the media transport belong to the library. A spike parameter is how
it reads (a number in range, out of range, no number). A NAL unit or an audio
packet is its size, and the payload of a packet the stretch of the unit it carries; a datagram is
its header, its payload and its length, so that cutting it to a buffer and reading
a wrong number of bytes show. Of a server that several components use, each model has
the part its properties are about: `TestServer` knows which spike reached whom
and leaves what a spike does to `SpikeInjector` and `ParticipantSpikes`. Durations that nothing
compares are "may end at any time"; only the spike scheduler, whose properties are
about time, has a clock. Where source lines run under one mutex they are one
action; where a mutex is released, where an atomic flag is read, between one
participant or packet and the next, and where a reply is awaited, there is a step.

## 3. Runs

Passing runs.

| Run | What it shows | Size |
|---|---|---|
| `injector` | `CleanupArmed`, `RuleOwned`: however injections, stops, late cleanups and failing commands interleave, a timed spike has its own cleanup to come and a degrading rule a registered owner that will remove it. `TimedSpikeExpires`, `RuleLifted`: it ends, and its rule is lifted | 16 462 states |
| `pool` | `NoMemberMissed`, `StopSilences`: participants that join or are replaced at any point of a start or a stop are reached by it. `LoopsBounded`, `StoppedLoopsEnd`: at most one stream loop per start, and stopped loops end | 937 408 states |
| `scheduler` | `OncePerStart`, `NeverEarly`, `EverySpikeRuns` with every distribution, failing injections, additions and restarts; `StopNeedsNoTime`: a stop ends all waits, for spikes beyond the bound of the clock too, whose timers never fire | 74 350 states |
| `executor` | `NilMeansAllRan`, `TokensMatch`, `ImplementsPool` (refinement of `BoundedPool`), `ExecuteReturns` and what it rests on (`NeverStuck`: a full channel, a full semaphore and `wg.Wait` never wait for each other), and `CancelEndsSchedule`: the producer goroutine ends too | 59 186 states |
| `participant_spikes` | `RemovalArmed`, `JustTargets`, `UdpSpikeEnds` with ids used again, overlapping calls, ids in both maps (listed twice), participants that join, leave and are replaced. `JustTargets` has two halves: nobody applies a spike for others, and at the end of a call everybody in the WebRTC map it is for has it, one who joined between the two walks included | 127 881 states |
| `media` | `WholeFrames`: what is sent of a unit can be put together again, across the wrap of the sequence number. `Accounted`: the counters both loops share add up although Stop closes the socket inside a frame. `RelayNeverMixes`: a connection that breaks anywhere never joins parts of two datagrams; `RelayRecovers`: after a break the relay is connected again and among the pod's clients, unless the last connection the bound allows broke. `LossEstimateSound`: up to the first wrap the loss shown is neither negative nor more than was lost, but for a whole sequence space with each late packet that is taken for a wrap | 582 374 states |
| `signalling` | `NothingLeaks`: no peer connection of the client is forgotten, whatever times out. `ReturnedIsAnswered`: a connection in the list is the one the server's participant holds, unless a request of an earlier attempt, given up, was served during this one (the history `spoiled`). `RetryHeals`: who was found and is not connected in the end had trouble in every attempt, so one attempt without trouble heals what went before. `DiscoveryFinds`: not more than wanted, and as many as the metrics would list if the probes are answered. `ReceiverEnds` | 317 889 states |
| `driver` | `PodsFollow`: a pod that was always reached got or is about to get exactly its spikes, none twice, and is running and stopped when it should be, whatever the other pods do | 4.8 million states |

Runs that show a disagreement between the code and what its own text says.

| Run | Disagreement |
|---|---|
| `start_after_stop` | `Pool.Start` is left to a goroutine; if it gets to run after the stop, the test streams in state "stopped" |
| `webrtc_spike_forever` | a timed spike has no end on a WebRTC participant |
| `units_skipped` | the start code that ends a NAL unit is not found again for the next, so every second unit is dropped |
| `local_spikes_never_sent` | without pods the driver counts its spikes and sends none of them to `base_url` |

### Bounds, and why they are enough

- `injector`: two ids and three registrations: an id can be injected, stopped and
  injected again while its first cleanup sleeps, beside a spike of another id whose
  rule it replaces. All three platforms; one host where only applying fails and
  one where any command fails. The graph is shallow (depth 7) and wide.
- `pool`: one id, because replacement, lookup and removal all happen under one id and
  ids do not share state; two SDP requests (the participant and its replacement),
  two starts, one stop. `start_after_stop` needs one SDP request only.
- `scheduler`: `MaxTime` 2, two spikes with offsets 0 and 2, three runners
  (two starts and an addition), one stop. With a test of 3 units and a
  spacing of 1 the jitter of a quarter interval rounds to 0: what
  jitter does to the spacing is not shown by this run.
- `executor`: four items, two tokens and a channel of one or without a buffer: the producer blocks,
  the caller blocks on the semaphore, an error leaves an item in the caller's hand, one in
  the channel and one unsent.
- `participant_spikes`: two calls, two joins, three events (one id for everybody and
  for one participant, one bitrate reduction), both ids in both maps.
- `units_skipped`: streams of up to six tokens.
- `media`: an MTU of 18, so that a unit of 10 is three fragments and one of 5 a
  single packet; a sequence space of 16, which three video ticks do not wrap for UDP
  but the marker and fragment arithmetic goes through; a wrap is looked for above 3 (`HighSeq`), so that
  a late packet is taken for one; `Buffer` 30, above every datagram of
  the setups but one; three video ticks and one audio tick (`MaxTicks`), two
  connections (`MaxConnections`: one breaks, one replaces it), one frame in a connection
  (`StreamRoom`) and one datagram in the receiver's socket (`DownRoom`). Eight setups: a
  film over UDP, directly (a fragmented unit first, so that its packets can be late) and by the relay, and for UDP and WebRTC participants with spikes a source whose
  video breaks off, one without video, one without media.
- `signalling`: two tries, two faults, two tokens of the semaphore, a search limit of five
  ids, samples of two. Nine setups: one to four participants, a partition of every second id,
  a stopped and an unknown test, the local mode with retries and with
  `DefaultConfig`, which has none.
- `driver`: three pods and two participants, so that one pod has no participant; two
  spikes, a failure warning after two, three troubles in all (`MaxTroubles`: crashes,
  refusals, calls that fail or are given up).

`MaxInjects`, `MaxRequests`, `MaxJoins`, `MaxTime`, `MaxSpikes`, `MaxRunners`, `MaxStops`,
`MaxTokens`, `MaxTicks`, `MaxConnections`, `StreamRoom`, `DownRoom`, `Tries`, `MaxFaults` and
`MaxTroubles` are bounds of the models, each in a guard or the size of a set; the theorems hold
for any value of those in the modules they are about.

`CHECK_DEADLOCK FALSE` in every configuration: each of these systems may come to
rest, because all calls were made, the clock is at its bound or the file is read.
That nobody waits for ever is stated by the liveness properties instead.

### Fairness

Fairness is given to goroutines and never to callers: a sleeping cleanup or
removal wakes up (`time.Sleep`), a stream loop looks at its flag at every tick
(`time.Ticker`), producers, workers and runners go on when they can, and work functions and
`injectFunc` return. No client has to start, stop, answer or inject, and in
`ParticipantPool` a handler may be slow for ever. The clock runs for
`EverySpikeRuns` only; it is weakly fair up to its bound, and `WithinReach` limits the
property to spikes due by then.

In `MediaPath` only the relay has to make progress, where packets go by it: its reads, its sleep, the
pod's accept. Redialling is strongly fair, since a dial that is tried again and again
while the network comes and goes succeeds in the end. In `WebRTCReceiver` the receiver's goroutines go on
and a request somebody waits for is served; a request given up need not be served at
all, nothing has to time out, nobody has to interrupt the receiver, and the unlocked look
into a map (`MapRace`) need not end the process. `ChaosDriver` states no fairness: its properties are about
what is true whenever the driver gets somewhere.

## 4. Proofs

For all values of the constants, from the named assumptions of the modules only
(`DegraderAssumption`, `SpikeInjectorAssumption`, `PoolAssumption`, `ExecutorAssumption`,
`EventsAssumption`, `TwinAssumption`, `RtpPacketAssumption`, `RtpMetricsAssumption`, `SenderAssumption`,
`RelayAssumption`, `TriesAssumption`, `ReceiverAssumption`, `SearchAssumption`, `ServerAssumption`,
`DriverAssumption` and those of the scheduler's modules: bounds are naturals, sets that
must be finite are, events and setups are well formed, the MTU has room for the headers, and WebRTC participants have ids of UDP ones, as `handleGetSDP` sees to).
`SearchAssumption` says of a setup that it has a partition, that the local mode has at most twenty of
them, and that if all participants are wanted there are no more than the 10 000 ids probed, or
no more than fifty partitions; without it a probe may really stop short.
In each proof module one inductive invariant, `IInv`, carries the theorems; each action
has its step, or a lemma of its own.

- `SpikeInjectorProofs`: `Typing`, `CleanupAlwaysArmed`, `RulesAlwaysOwned`.
  `RuleOwned` is not inductive: a registration may only overwrite the owner of a rule if
  two registrations could share a generation (`GenerationsUnique` excludes it), and a
  removal clears the rule only if an unsupported platform never had one
  (`NoRuleElsewhere`). Lemmas say what applying and removing do to the kernel under any failures.
- `ParticipantPoolProofs`: `Typing`, `NobodyMissed`, `StopIsFinal`, `LoopsStayBounded`. The strengthening says that
  what a request or the map holds is a participant of that very id
  (`References`), that nothing streams before it was added (`NotBeforeAdded`), and, for each phase
  of a stop, what is silent by then and cannot start again (`Settled`).
  A stream loop is charged to a start that has passed its participant (`UdpServed`, `WebrtcServed`) or
  to the request that added it (`OwnStart`); these only grow, and with every loop (`Served`).
- `ExecutorProofs`: `Typing`, `TokensAlwaysMatch`, `NoItemTwice`, `NilIsComplete`,
  `NeverAllWait`, `EveryStepUsesUp`, `FiniteCall`, `ExecutorImplementsPool`. An item is in one
  place only (`OnePlaceEach`), a token is out for each goroutine that has not
  released it (`TokensMatch`), nothing is lost while Execute has not given up
  (`Accounted`), and a schedule that closed by itself left nothing behind (`Drained`). The refinement
  maps an item to waiting until its work function is called, to busy
  while it runs; every other step is a stutter. Of the return of Execute everything but the fairness is
  proved: somebody can always go on (`NeverAllWait`), each step takes one at least from a measure (`EveryStepUsesUp`)
  that starts at no more than 7 for an item and 5 for the call, and is never negative (`FiniteCall`).
- `ParticipantSpikesProofs`: `Typing`, `RemovalAlwaysArmed`, `TargetsJustReached`. What a participant holds was put
  there by a call that has got that far and under the id of its event (`Reached`), so a removal
  for another call touches another id; given targets do not change on the way (`TargetsKept`). That the second walk
  misses nobody (`AllTargets`) needs that a WebRTC participant has the id of a UDP one, whose ids are
  all listed (`TwinAssumption`), and that nobody joins or leaves while the walk holds the lock (`WalkReaches`).
- `SpikeSchedulerProofs`: `Typing`, `SpikesNeverEarly`, `SpikesOncePerStart`, and
  `RandomKeepsSpacing`: the random distribution of any test keeps its spikes at least the
  minimum spacing apart. The invariant says that a runner's list holds
  indices of the schedule, each once (`RunnerFits`), that an index it has not got to was not injected on
  its behalf (`StartedOnce`), and that nothing is injected before it was added. `sortAndSpace` is a
  recursive function; that it keeps the spacing is shown without induction over data, by the least
  index at which it would not.
- `MediaPathProofs`: `UnitsBecomeFrames` says what H264Packetize makes of a unit of any size under any
  MTU and sequence space: a frame that can be put together again (`FrameOf`), none of whose
  packets is larger than the MTU and the extension. It rests on the arithmetic of
  fragments (`Fragments`: they follow each other without gap or overlap and end where the unit ends) and
  on the sequence number that is reduced at every packet (`ModPlus`). From it `FramesStayWhole`: a loop's frame in
  hand is whole whatever spikes, stops and the other loop do. For the relay, the
  invariant says that in the stream a length is followed by the bytes it announces (`StreamFits`)
  and that the reader is never in doubt which comes next (`InStep`); `RelayKeepsApart` follows, since a
  datagram cut to its own length is the same datagram. `Typing`. `CountersAddUp` follows both loops
  through the packets of a frame: what is counted is what was written, dropped or is still in hand. For
  `LossIsEstimated` the numbers of one stream that were received, that are on their way and that were lost
  are told apart and counted; the estimate is the gap between the least and the greatest
  number received. The property was too strong before: a late packet with a
  small number, after one above `HighSeq` (65000 in the code), is taken for a wrap, and the loss
  shown is then off by a whole sequence space. It now says so.
- `WebRTCReceiverProofs`: `Typing`, `NoConnectionLeaks`, `ConnectionsAnswered`, `EveryAttemptTroubled`,
  `DiscoveryReaches`. The invariant is that only participants that were
  found have a goroutine, and only between the search and the statistics, and that one
  waiting for a token has none (`Calm`). For
  `ConnectionsAnswered` it is strengthened by `Orderly`: an attempt's name is used once (`Untried`, `Waves`)
  and leaves no trace before it made a participant (`Fresh`); a goroutine is at the latest attempt that was made
  (`LatestIs`), so that a request served for another one is remembered (`Traced`, `Settled`); and, while none
  was, the server's participant is the one the attempt was offered, unanswered until the answer is
  taken and with this answer afterwards (`Phases`). For `EveryAttemptTroubled` each goroutine
  is followed on its course (`Course`): every attempt it has behind it failed by a fault of its own or while an earlier
  request was served, since an offer or an answer that was not disturbed cannot be refused in a live test.
  `DiscoveryReaches` has an arithmetic part and one about the loop. A partition has one of every
  `partitions` consecutive ids (`Spread`), the sample of the metrics at most two hundred (`Sampled`), so the ids up
  to the limit hold as many participants as are asked for, or all (`ReachesFar`). And the loop keeps
  what is within reach among what it found and what it has left (`Reaching`), its first candidate is a
  participant, so that it does not give up (`FirstIsMine`), and a probe that is answered in a live test has made its
  participant (`ProbeInOrder`). The property was extended on the way to receivers that end without
  a connection, and limited for the local mode to calls that ask for any participants at all: with
  0 `probeParticipantsSingle` tries none.
- `ChaosDriverProofs`: `OnePodEach`, `Typing`, `HealthyPodsFollow`. For each phase the invariant says
  where a pod that had no trouble stands, depending on whether the driver still waits for it.

Only model-checked: the liveness properties (TLAPS does not reach liveness under
fairness): `TimedSpikeExpires`, `RuleLifted`, `StoppedLoopsEnd`, `StopNeedsNoTime`, `EverySpikeRuns`,
`ExecuteReturns`, `CancelEndsSchedule`, `UdpSpikeEnds`, `RelayRecovers` and `ReceiverEnds`. Every invariant
and the refinement that a passing run checks is proved. What
the recursive loop of `H264Reader` collects is checked for the streams of its run; induction over data is beyond the
provers used here.

## 5. Plan

Done as described above: the spike injector and the degrader, the pool with its
handlers, the distributions and the scheduler, the executor as a refinement of the bounded
pool, participants' spikes, the media path from the source to the receiver by way of packetizers,
loops and relay, the signalling between receiver and server, and the driver with its pods.

What is left, in the order of its worth:

1. `TestSession`: composes the handlers, `SpikeScheduler`, the injector and the participants'
   spikes for two sessions of one process; a second start that replaces the scheduler, the
   legacy spikes that sleep whatever becomes of the test, a stop that clears the spikes of
   another test. Abstract specification: a session that is created, running or stopped, with
   the spikes it may see.
2. The life of the RTCP server: bind, stop, restart, a second pool on the same port.
3. Schedules as results: minimum spacing against jitter in a run of its own, spikes held back by an
   earlier one in the list because only "random" sorts.
4. What the liveness properties rest on and a proof can reach, as done for the executor: who can
   go on in every state, and what a step uses up. Next would be the runners of the scheduler.

## 6. Not modelled

Metrics endpoints and the averages of the aggregator (formatting and floating-point
arithmetic), protobuf code (generated), cluster and deployment tooling and the
Kubernetes manager (sequences of external commands), media conversion and probing (ffmpeg),
logging, CORS and the quality score (no state), and the random generator of test
descriptions, whose results are inputs of the models. The RTCP feedback store is a map
behind one lock that a receive loop fills and readers copy; the only operation of
several steps, GetAllMetrics, takes the read lock twice but has no caller, so that no
behaviour of the program depends on it. `metrics_handlers.go` walks the map of tests without the
lock its writers hold: a data race on a Go map ends the process, and a model would
restate the missing lock. ICE, DTLS and SRTP belong to the WebRTC library.

Smaller things left out. A staggered strategy with a window of zero panics in `rand.Int63n`
(scheduler.go:139); nothing in the repository constructs a strategy, and the model starts with
one that has a window. The relay's script sends to its clients with the lock of their set held
(udp-relay.yaml:85-99): a stalled client delays the others and the accept, and the model has no
time to lose there. `ExecOnAllPods` has no timeout, and the test loop looks at signals and
at the end of the test only between its calls; kubectl answers or fails in the model, and a hang that stops the driver is
left out. For the local mode's shipped setting of no retries `RetryHeals` says nothing; the
hazard at connection.go:146 says so. A spike that loses its rule when another one ends, a participant that
streams outside the pool, a connection that a late request made useless, and a pod that was left out or got
a stray spike are states the models reach and no property forbids, since the code comes to them and
none of its texts promises otherwise; each is a hazard in `PROJECT.json` with a note, as is the loss shown
after a wrap, which is wrong and beyond the bounds of the run.
