# Formal models of lemon-model

This directory holds TLA+ models of the stateful parts of `lemon-model`, the TLC
configurations that check them on small instances and TLAPS proofs of their main
theorems. Every definition is translated from the source; `PROJECT.json` maps
each one to the lines it stands for. Paths below are relative to the library's
own `src/` directory unless they start with `docs/`.

## 1. Inventory

The library is single-threaded TypeScript on an event loop. A piece of code runs
to its next `await` or to its end without interruption; what interleaves is the
order of timers, promise continuations, network callbacks and user callbacks.

| Component | State it keeps | Operations | Hard behaviour | Correct when |
|---|---|---|---|---|
| JSON chunk transport, `socket/transport.ts` | partial messages per tid, settled outcomes, nack timers; on the sending side pending sends with attempts, interval and deadline | `send`, `receive`, `attach`, `detach`, `cleanup`; packets manifest, chunk, complete, error, ack, nack | loss, duplication, reordering and damage of packets; resend against nack against deadline; expiry while receiving; throwing listeners; bounded memory | messages are handed over intact, at most once while remembered; `send` resolves only after a hand-over, and settles unless an error listener throws where it would be rejected |
| Network and Peer, `socket/socket.ts` | links of a client to its server and of a server to its clients, clientId, pending requests by mid | `connect`, `reconnect`, `send`, `post`, `reply`, `close` | reconnect and close from either side; a network that dies under a request; a listener that throws; a mid the caller uses twice | both ends of a link agree; an entry of `pending` waits only for an answer that can still come, or was lost in a named way |
| WebSocket networks, `socket/websocket.ts` | socket, readyState, waiters of `ready()`, `onOpen` handlers, id handshake | `ready`, `onOpen`, `send`, `close`, `waitWebSocketConnectionId` | connect timeout against a late open; close while connecting; a socket that is borrowed | a wait has a timer or an event to come, with named exceptions; no handler runs twice or after close |
| Decorators, `socket/decorators.ts` | `ReconnectingNetwork`: phase, current inner network, generation, backoff and idle timers | `attemptReconnect`, `onInnerDeath`, `failAttempt`, `close`, `send` | events of a replaced inner network; handlers that call `close()`; idle timeout | one inner network is heard at a time; closed is final |
| Dual socket, `socket/multi.ts` | its networks | `sendAll`, `close` | one of them throws | every copy is sent or reported |
| Stream buffer, `buffer/stream.ts` | queue, flush timer, processing, closed | `push`, `flush`, `close`, `cancel` | everything that happens while the consumer is awaited | chunks reach the consumer once, in order, in bounded time, before eof |
| Token buffer, `buffer/token.ts` | tokens, timer, isProcessing | `add`, `flush`, `close` | the same, without rescheduling | as above |
| Stream network adapter, `buffer/network.ts` | next sequence number, out-of-order events | `receive`, `emit` | a lost number; a consumer that throws | contiguous release, but for what a throw holds back |
| Model sync, `sync/{client,machine,ticker}.ts` | pending requests; models with versions and a watermark; a timer | request, pull, apply, tick, close | late answers, failed pulls, overlapping ticks, versions that models share | one chain of ticks; the watermark skips only what is named |
| Progress tracker, `progress/progress.ts` | tasks, throttle timers | start, update, finish, evict | throttled emission of a finished task | terminal states are final |
| Log trace, `logtrace/logtrace.ts` | ring, sequence, subscriptions | log, replay, prune | a listener that logs or throws | no entry is skipped silently |
| Upload engine, `upload/engine/*` | slots, transfers, receipts, the progress bar | `upload`: start, transfers in a pool, complete | one of several transfers failing; a callback that throws; a list of the wrong length | one true receipt per upload, monotone progress |
| GenAI proxy and transport, `genai/*` | the one pending wait | `generateContent`, `wait`, `resolve`, `reject`, `detach` | an answer over the socket before or after the HTTP response; leftovers of earlier calls | a call is settled by its own answer, or by one of three named leftovers |
| Transformers and types | none | mapping | none | not modelled |

Components interact in three ways. A `JSONTransport`, a `Peer` or a sync client
holds a `NetworkSocket` and sees its messages, `readyState` and close events.
Decorators wrap one `NetworkSocket` in another. Buffers are driven by awaited
calls and call an awaited consumer.

## 2. Modules

    ReliableLink           wires, readyState, attachment of one direction
      TransportSender        sendReliable ... handleNack   (EXTENDS ReliableLink)
      TransportReceiver      acceptPacket ... cleanup      (EXTENDS ReliableLink)
        ReceiverAlone          the receiver under an arbitrary network
          ReceiverAloneProof     its handlers, reused by the next two proofs
      ReliableTransport      both ends and a faulty network
        ReliableTransportProof
        TimelyTransport        the same under the timing the defaults intend
          TimelyTransportProof
    ReliableDelivery       the abstract delivery contract
    JSONSplit              documents cut into packets and put together again
      JSONSplitProof
    StreamBuffer           GenAIStreamBuffer
      StreamProgress         what it tells of its progress (EXTENDS StreamBuffer)
        StreamBufferProof      both of them
    TokenBuffer  StreamNetwork  LogTrace  Progress
                           the other components that buffer or number events
    ReconnectingNetwork    the reconnect decorator over its inner networks
    PeerNetwork            peers, links and requests over in-memory networks
    WebSocketNetworks      the adapters over WebSockets, decorators, composite
    SocketClient           requests of several clients over one socket
    SyncTicker             a chain of timeouts
      ModelSync              a synced store under the ticker (EXTENDS SyncTicker)
    Upload  GenAIProxy     the upload engine; the proxied generation
    MC*                    instances for TLC
      MCBuffers              StreamProgress, TokenBuffer, StreamNetwork, LogTrace,
                             Progress and JSONSplit, one per behaviour
        BuffersProof           all of these but the stream buffer and JSONSplit
      MCNetworks             ReconnectingNetwork, PeerNetwork, WebSocketNetworks
        NetworksProof
      MCServices             SocketClient, ModelSync, Upload, GenAIProxy
        ServicesProof

`MCBuffers`, `MCNetworks` and `MCServices` put together components that share no state and call each other
only through promises. A behaviour picks one component in its initial state and
the others stand still, so that the states add up instead of multiplying, and
nothing is lost: what one component does never changes what another can do.

### Reliable transport

The model is the reliable mode of `JSONTransport`, one direction of a merged
instance; the other direction is the same code with the ends exchanged.

| Model | Code |
|---|---|
| `up`, `down` | packets in flight, as sets: any order of arrival; `MayDuplicate`, `LoseUp`, `LoseDown` and `Damage` are the network's faults |
| `open`, `attached` | `readyState === 'open'` at the sender; the receiver's subscription |
| `partial[t]` | `states`: manifest, chunks and complete received for a tid |
| `settled[t]` | `settledReceived`: the outcome remembered, until evicted or lapsed |
| `nackTimers` | tids whose nack debounce is armed |
| `promise[t]`, `attempts[t]`, `overdue` | what the caller of `send` sees (`"lost"`: never settled), bursts counted, deadlines passed |
| `delivered`, `emissions`, `thrown` | history only: what the listeners were handed |
| `Submit`, `ResendTick`, `HandleAck`, `HandleNack`, `DeadlinePasses`, `DetachSender` | `sendReliable`, `resendTick`, `handleAck`, `handleNack`, the deadline of `attemptSend`, `detachReliable` |
| `AbsorbDuplicate`, `BufferPacket`, `DeliverMessage`, `DeliverThrows`, `ReceiveError` | the five ways through `acceptPacket` |
| `FireNack`, `Cleanup`, `PartialAges`, `SettledLapses`, `DetachReceiver` | `fireNack`, `cleanup`, the passing of the two TTLs, `detach` |

Abstractions. Time is a set of facts: a partial message may become stale, an
entry may lapse, a deadline may pass, at any moment; `TimelyTransport` orders
those moments. A message is its set of chunks; a chunk is intact or damaged, and
a damaged one fails its hash. `getState()` runs `cleanup()`, so that packet
actions take the cleaned memory and then evict: an eviction may pick any entry
of its tier (expired first, then failures, then successes), a superset of the
key order of the map. Every packet written by one call appears in one step.

`LateDelivery` is the in-memory `Network`: it captures its listeners when a
packet is sent, so packets in flight at `detach()` still reach `receive()`,
which reassembles and acknowledges them although its own listeners are gone.

The attempt that spends the last of the budget is followed at once by
`failSend`: a send succeeds only by the ack to an earlier burst, and
`maxAttempts: 1` always rejects over an asynchronous network. The model does the
same; `TimelyTransport` therefore assumes two attempts more than losses.
`failSend` calls the error listeners before it rejects the promise: one that
throws leaves it pending for ever, with no entry and no timer (`GivenUp`, when
`ErrorListenerMayThrow`). `ReliableDelivery` has a step for it (`Lose`).

### Stream buffer

| Model | Code |
|---|---|
| `queue`, `processing`, `closed` | the fields of the same names; a chunk is its number of acceptance |
| `timer` | the field `timer`: unset, set and running, or set to a timer that has fired (`"spent"`) |
| `pc[c]` | the await at which a caller of `push`, `flush` or `close` stands |
| `inConsumer` | who owns the flush the consumer has not answered: a caller, or the timer's callback |
| `accepted`, `flushed`, `ends`, `threw`, `late` | history only |
| `Push`, `ProgressTaken`, `ProgressThrows` | `push` with `enqueue`, cut at the await of the progress event |
| `Flush`, `FlushTaken`, `FlushThrows` | `flush`, cut at the await of the consumer |
| `TimerFlushes`, `TimerWasted` | the callback of `scheduleFlush`, with something to flush or not |
| `Close`, `CloseEnds`, `ReportError` | `close`, cut at its await; `cancel`, timeout and upstream errors |

One `BufferSize` stands for all strategies: a byte threshold is a size, `time`
is a size never reached and `useBuffer: false` is size one. Start events and
events that are passed through change none of this state.

`StreamProgress` adds the field `lastProgress` to every one of these steps: the
record that `progress()` computes for a chunk, a flush, the eof or the interval
timer, and that `snapshot()` computes anew while the stream is open and returns
as it is once it is closed. Chunks have different sizes and the estimate of the
whole is too small, so percentages reach their caps. Elapsed times are left out,
and with them the percentages of `time` and `auto`.

### Reconnecting network

| Model | Code |
|---|---|
| `phase`, `current`, `retries`, `generation` | the fields `phase`, `current`, `retryCount`, `_generation` |
| `state[n]` | `readyState` of the n-th network the factory returned; 'closing' counts as closed |
| `listening` | the inner networks on which `attach()` holds subscriptions |
| `timer`, `watchdog` | `reconnectTimer` is set, `watchdogTimer` runs |
| `failures`, `closing`, `abandoned` | a bound on the environment, and history |
| `Opens`, `DiesNotifying`, `DiesSilently` | an inner network opens, with `onOpen` or without; it dies, reporting through `onError` or not |
| `WatchDeath`, `WatchOpen`, `WatchIdle` | the three outcomes of `watch()` |
| `Exhausted`, `FactoryThrows`, `FactoryReturns` | the outcomes of `attemptReconnect()`; a candidate may be connecting, open or dead when it is returned |
| `Close` | `close()`, by anyone at any time |

Error handlers run inside `failAttempt()`, before the phase and the timer are
set; the second disjunct of `FailAttempt` is a handler that calls `close()`
there. Handlers in other places run last in their step, so a `close()` of theirs
is the step followed by `Close`. Delays are left out: the timer may fire at any
time, so the model covers every `baseMs`, `factor` and `maxMs`. A missing
`maxRetries` is a number of retries larger than the bound on failures.

### Documents

`JSONSplit` is the transport without acks: `SplitJSON`, `Pointer`,
`EscapeJSONPointer` and `SplitStringByBytes` for the sender,
`PathOf`, `ValidateManifest`, `ValidateChunk`, `ValidateSizes`, `CanAssemble` and
`RootWith` for the receiver. Names and texts are sequences of characters with
the width UTF-8 gives them, because the properties are about them: an escaped
pointer, a character wider than a chunk, a user's object that looks like a
marker. `Conditioned` is the network of `demo/socket-verifier`, which loses,
repeats, reorders and damages packets; `SenderRestarts` is a second instance
whose identity provider may count from one again.

### The other buffers

| Model | Code |
|---|---|
| `TokenBuffer`: `AddToken`, `TokenTimerFires`, `FlushCalled`, `CallbackEnds`, `CloseTokens` | `add`, the timer of `startTimer`, `flush`, cut at the await of the callback, `close` |
| `StreamNetwork`: `GiveEvent`, `SendEvent`, `AcceptPacket` | the consumer before and after `await network.ready()`; `accept` of the receiver with `reorder`, up to the event whose consumer throws at once |
| `Compacted`, `Restored`, `CanCompact` | `compactStreamEvent`, `restoreStreamEvent`, `canCompactFlushEvent` |
| `LogTrace`: `Log`, `FlushLogs`, `ReceiveBatch`, `ClearRing` | `log`, `flush` and `close` of the reporter; `receive` and `clear` of the consumer |
| `Progress`: `StartTask`, `Update`, `WindowEnds`, `Finish`, `Heartbeat`, `CloseReporter`, `ReceiveSnapshot` | the reporter's handle, throttle windows, heartbeat and `close`; `receive` with `evict` |

`stranded` (tokens), `interrupted` (events), `threwInBatch` (logs) and `emitted`, `arrived`, `sentAs`,
`newest` are history. What the log
trace's ring holds is kept, and no property depends on it. A sink or `transport.send` may fail at every call.

### Peers

| Model | Code |
|---|---|
| `upstream[p]`, `clients[p]`, `assigned[p]` | `server` (none or one link), `clients`, `assignedClientId` |
| `ends`, `openNets` | `createNetworkPair`: who reads and writes each pair; the networks not closed |
| `waiting[p]`, `wire`, `handling` | `pending`, each mid with the number of the send that made its entry; packets on their way; packets a listener works on |
| `Connect`, `Reconnect`, `ClosePeer`, `NetworkDies` | `connect`, `reconnectPair` from either side, `close`, a network closed under its peers |
| `Send`, `SendNowhere` | `send`, `post` and `ping` under any mid, the caller's or a new one; `send` to a clientId without a link |
| `Dispatch`, `ListenerReplies`, `ListenerThrows` | `dispatch`, of results, pongs, errors, pings and messages; `context.reply` or the returned result; a rejected listener |
| `twice`, `forsaken` | history: clients that connected over a link they had; sends whose answer is lost |

A packet has a number of its own, and an answer the number of the send it answers:
`dispatch` looks at the mid only, but `PendingAccounted` must tell the sends apart.
A second `send` under a mid that still waits replaces the entry; the first promise
never settles. `PendingAccounted` is about entries, so it says nothing of it.

### WebSockets

`WebSocketNetworks` has two kinds of network: an owned one
(`WebSocketNetwork`, with its connect timer) and a borrowed one
(`BrowserWebSocketNetwork`). `opened`, `openHandlers` and `handshake` are the
promises and handlers that wait; `openTimer` and `handTimer` the timers that
bound them; `mute` the borrowed sockets that closed without an error event;
`untimed` the networks whose timeout is 0 and whose waits have no timer.
`SendAll` and `CloseAll` are `MultiNetwork`; `Filtered` and `Translated` the two
stateless decorators, through which `Arrives` takes an inbound message; what the
handlers hear is kept in `heard`, and no property depends on it.

### Services

| Model | Code |
|---|---|
| `SocketClient`: `Request`, `Post`, `RequestTimeout`, `ReceiveAnswer`, `CloseClient` | `request` and `post`, the timer, `receive` in every open client on the socket, `close`; `Mid` is the identity provider; a promise is `"lost"` when an error listener throws in the timer's callback |
| `SyncTicker`: `Start`, `Stop`, `Fire`, `TicksSettle` | `start`, `stop`, `run` up to and from its await; `epoch` is the field of that name |
| `ModelSync`: `Pull`, `ReceivePage`, `PullFails`, `ApplyEvent`, `CloseHandle` | `pull` and `doPull`, cut at each request, `applyEvent`, `close`; `Applies` is `applyOne` |
| `ServerChanges`, `ServerReplies`, `EventLost` | the server as `docs/model-sync-client` and the mock server describe it |
| `Upload`: `StartAnswers`, `TakeSlot`, `OriginalEnds`, `ThumbnailEnds`, `Report`, `PoolDone`, `CompleteAnswers` | `upload`, the workers of the pool, `transferTracked`, the sink of the bar, `complete` |
| `GenAIProxy`: `GenerateContent`, `PayloadArrives`, `HttpReturns`, `WaitFails`, `TransportBreaks`, `Detach`, `Returns` | `generateContent` and `wait`; `resolve` and `reject` of the receiver, by its timer or on a transport error of any call; the end of the HTTP call |

`Drives` says whether the ticker calls `machine.tick()`, which catches failures,
or `handle.pull()`, which does not. A version is newer than the last one of its
model and nothing more: two models may have the same, and one may get a version that
others have passed, as the contract allows (`docs/model-sync-client/01-design.md`,
line 233, and milliseconds by default). Rows are told apart by id, version and whether
they are deletions. A tick over a closed handle settles at once in the code; in the
model it waits for the pull that `close()` left running (`TickOfNothing`).

## 3. What TLC checks

All runs finish within three minutes, on two workers.

| Run | Instance | States | What it shows |
|---|---|---|---|
| `receiver_any_network` | 2 tids, 1 chunk, memory for 1, throwing listeners, late delivery; any well-formed packet at any time | 2.7 million | what the receiver keeps with every sender: at most once while remembered (`AtMostOnce`), intact (`DeliveredIntact`), an ack only after a hand-over (`AckMeansDelivered`), no buffer, timer or entry left over (`BuffersAccounted`, `MemoryBounded`) |
| `reliable_link` | 1 tid, 1 chunk, 2 attempts, loss, duplication, reordering, reconnects, both detaches, throwing error listeners | 1.1 million | the composition implements `ReliableDelivery` (`ContractSpec`), success means delivery (`ResolvedMeansDelivered`), every send settles that no throwing error listener loses (`EverySendSettles`) |
| `timely_recovery` | 2 tids of 2 chunks, 4 attempts, 2 losses, damage | 63 thousand | with ordered timers every message gets through (`Recovers`), one lost packet costs no second attempt (`NackRepairs`), buffers empty (`BuffersDrain`) |
| `stream_buffer` | per behaviour: 2 callers, 4 chunks, threshold 2, throwing consumer; 6 tokens over a limit of 2; 4 stream events; 3 log entries over a ring of 2; 2 tasks over a map of 1, 3 changes, 4 snapshots; 1 of 3 documents from each of 2 senders | 0.16 million | FIFO without loss (`InOrder`), one flush at a time (`SerialFlushes`), every chunk drains but for the named exceptions (`ChunksDrain`); tokens neither lost, doubled nor without a timer but for those stranded in three ways (`TokensAccounted`); events handed on in order with their texts (`EventsIntact`); gaps counted exactly (`LossIsExact`); no snapshot of a task shown that is older than one known, and a stream's record counts what was accepted and what was handed over, and ends complete (`ProgressTold`); documents rebuilt as sent (`DocumentsIntact`) |
| `reconnecting` | per behaviour: 5 failures, 2 retries, closing handlers; 3 peers with up to 3 pairs of networks, 3 packets under one mid and 1 death, 4 of these together; an owned and a borrowed WebSocket in a composite, timed or not | 0.8 million | exactly the current generation is heard (`OneGenerationHeard`), one attempt is scheduled (`TimerOnlyInBackoff`), no living network is lost (`NoNetworkLost`) except those the idle timeout drops, `close()` is final (`CloseIsFinal`), no reconnect storm (`ResetOnlyByOpen`), every death is recovered from (`Recovers`); both ends of a link agree (`LinksMirror`), no entry of `pending` waits for nobody (`PendingAccounted`); who waits for a socket has a timer or an event to come (`WaitsEnd`), every copy is sent or reported (`EveryCopyAnswered`) |
| `services` | per behaviour: 2 clients with 2 requests each; 2 models, 2 versions, 3 changes, pages of one, 1 failed pull, 3 calls of `start`/`stop`; 2 files, lists of up to 3 tickets, 2 workers; 2 generations | 1.5 million | every promise settles once, with its own answer, or is lost to a throwing error listener (`RequestLedger`); one chain of timeouts (`OneChain`); nothing lost below the watermark (`WatermarkCovers`), and the store converges (`SyncConverges`), but for rows astray or behind; receipts tell what was stored (`CompletesWhatWasSent`), the bar never moves back (`BarForward`); generations get their own answers or a leftover of one of three kinds (`AnswersAreOwn`) |
| `throwing_listener` | 1 tid | violation | a listener that throws makes the same message be handed over again |
| `max_wait` | 1 caller, 4 chunks | violation | a timer that fires during a flush is wasted and blocks its successors |
| `eof_last` | 1 caller, 4 chunks | violation | `close()` during a flush emits eof before the remaining chunks |
| `backoff_swallowed` | 1 model, 1 failure | violation | `machine.tick()` resolves although its pulls failed, so the ticker never backs off |
| `order_matters` | 1 model, 2 changes, no failure | violation | an event older than the deletion a pull has brought creates the model again, for good |
| `close_revoked` | 2 failures, 2 retries | violation | `close()` called by an error handler inside `failAttempt()` is revoked |

Bounds and why they are enough. Tids do not interact except through the settled
memory, so two tids over a memory for one show every eviction, and one tid shows
the rest. One chunk already separates a complete message from an incomplete and
a damaged one; two, in `timely_recovery`, add the partly received message. Two
attempts contain a first, a last and a late ack to either; four cover two
losses. `emissions` counts to two: a second hand-over is the violation. Four
chunks over a threshold of two with two callers allow a flush in flight, a queue
that has filled up again behind it, and a further caller who finds it so. Five
failures spend the budget of two retries, or fail twice, succeed and fail twice
again. Three peers contain a client of two servers and a server of two clients,
three pairs a connection, its reconnection and one more. `MaxActivity` bounds pairs,
packets and deaths together: a link that is made, reconnected and dies, or one over
which a request is sent twice under one mid, or is asked, answered and answered again. Six tokens over a limit of two let a timer be
spent during a flush and the next ones be stranded behind it. Four snapshots are the start,
an update and the end of a task and the start of the one that evicts it. Two senders of the
same transport ids are what `SenderRestarts` needs to mix up their messages.
Three changes of two models over two versions, in pages of one, contain the pull that
fails between pages, the deletion that an older event overtakes, and two models with
one version, the later of which the watermark has passed.

Fairness. `reliable_link` assumes only what the timers of a live process give:
intervals keep ticking and deadlines pass; nothing of the network, which may
stay closed and lose everything. `timely_recovery` also assumes that packets
which are not lost arrive, that timers fire and that a cleanup interval is
configured (without it, or another packet, nothing calls `cleanup()`).
`stream_buffer` assumes that timers fire, that the consumer answers every event
it is given, and that continuations run. No run assumes that a caller calls
anything. `reconnecting` assumes that the watchdog watches, that timers fire and
that an inner network does not stay in 'connecting' (its own connect timeout sees
to that); with finitely many failures some candidate then opens. `services`
assumes that timeouts fire and that the server answers a pull in the end, or the
answer fails: a request without a timeout would wait for ever otherwise. Deadlock
checking is off for the runs of the buffers, the networks and the services, whose
components stop once they are closed or their bounds are spent.

`ChunksDrain` has four exceptions, each a way a chunk is really stranded: the
stream failed; the consumer threw, after which nothing is rescheduled; the flush
timer was wasted; the chunk missed the flush of a `close()`, because one was
already running or because it was accepted while `close()` waited. `max_wait`
and `eof_last` are the runs without the last two. The other properties name
their exceptions the same way, as history variables: `stranded`, `threwInBatch`,
`interrupted`, `forsaken`, `twice`, `mute`, `astray` and `behind` are each set in the
step in which the code goes wrong, and the property holds everywhere else:

- a promise of the transport's or the client's is `"lost"` when an error listener
  throws before the rejection that follows it (`socket/transport.ts` line 836,
  `sync/client.ts` lines 101-107);
- `interrupted`: a consumer of the stream adapter threw at once, and due packets are
  held until the next one comes (`buffer/network.ts` lines 151-168);
- a wait for a socket with a timeout of 0 has no timer (`socket/websocket.ts` lines
  117, 426 and 538);
- `forsaken`: what would have answered a peer's request was lost;
- `astray`: a failed pull left a row below the watermark (the guide says a failed pull
  leaves the watermark as it was, `docs/model-sync-client/03-client-guide.md` line
  163; it has moved with every page), or an older event has overtaken a deletion (the
  run `order_matters`);
- `behind`: a change was given a version that the watermark, or the pull under way, had
  passed with those of other models; once its event is lost nobody asks for it;
- a task the progress tracker has evicted is forgotten with its numbers: a late snapshot
  of it is taken for a new task (`progress/progress.ts` line 321). `ProgressTold` begins
  anew with it, and no property catches this;
- a generation is settled by what an earlier one left behind: the late payload of one
  given up, the HTTP failure of one settled, a transport error of one.

An exception is not an excuse: the hazards in `PROJECT.json` give the line of each.

Every property of a passing run has a mutant: a plausible mistake in a mapped
definition (a dropped hash check, a forgotten timer, a queue cleared too late)
under which TLC finds the property violated. The mutated forms stand before the
definitions they replace.

## 4. What is proved

Every safety property that a passing run checks is a theorem for every value of
the constants.

| Theorem | Module | Assumes |
|---|---|---|
| `AloneTyped`, `AloneOnce`, `AloneIntact`, `AloneAcksTrue`, `AloneAccounted`, `AloneBounded`: the invariants of `receiver_any_network` | `ReceiverAloneProof` | - |
| `TypeCorrect`: `Spec => []TypeOK`; `DeliversOriginals`, `DeliversOnce`, `KeepsAccounts`: the receiver's invariants behind a sender | `ReliableTransportProof` | - |
| `ResolvesTruthfully`: `Spec => []ResolvedMeansDelivered` | `ReliableTransportProof` | `~LateDelivery` |
| `ImplementsContract`: `Spec => ContractSpec` | `ReliableTransportProof` | `~LateDelivery`, `~ListenerMayThrow` |
| `OneLossIsRepaired`: `TimelySpec => []NackRepairs`; `TimelyIsReliable`: `TimelySpec => Spec` | `TimelyTransportProof` | - |
| `FlushesAreSerial`: `Spec => []SerialFlushes`; `ChunksStayInOrder`: `Spec => []InOrder` | `StreamBufferProof` | - |
| `StreamTyped`, `StreamTellsTruth`: types and the record of progress, of `StreamSpec` | `StreamBufferProof` | sizes are natural numbers |
| `TokensAreAccounted`: `TokenSpec => []TokensAccounted` | `BuffersProof` | - |
| `EventsStayIntact`: `StreamNetSpec => []EventsIntact` | `BuffersProof` | events are texts with chunks that say their lengths |
| `LossesAreCounted`: `LogSpec => []LossIsExact` | `BuffersProof` | - |
| `ProgressIsTold`: `BuffersSpec => []ProgressTold`; `BuffersTyped` | `BuffersProof` | finitely many tasks |
| `HearsOneGeneration`, `SchedulesOneAttempt`, `LosesNoNetwork`, `ClosesForGood`: the four invariants of the reconnecting network; `ResetsOnlyByOpen`: its action property | `NetworksProof` | - |
| `PeerTypes`, `LinksMirrorHolds`, `PendingAccountedHolds`: `PeerSpec => []...` | `NetworksProof` | - |
| `WebSocketTypes`, `WaitsAreTimed`, `CopiesAreAnswered`: `WebSocketSpec => []...`; `NetworksTyped` | `NetworksProof` | - |
| `ClientTypes`, `LedgerHolds`: `ClientSpec => []...`; `SettlesOnce` | `ServicesProof` | different prefixes |
| `AnswersHold`: `ProxySpec => []AnswersAreOwn` | `ServicesProof` | - |
| `CompletesHolds`: `UploadSpec => []CompletesWhatWasSent`; `BarHolds`: `UploadSpec => BarForward`; `ServicesTyped` | `ServicesProof` | - |
| `OneChainHolds`, `WatermarkHolds`: `SyncSpec => []...` | `ServicesProof` | - |
| `DocumentsStayIntact`: `DocumentSpec => []DocumentsIntact` | `JSONSplitProof` | a document's leaves have distinct paths |
| `PointersLeadBack`: a path is the one its pointer leads to; `PiecesAreTheText`: the pieces of a text are nonempty, fit a chunk and join to the text | `JSONSplitProof` | - |

They hold for every set of tids, chunks, callers, tokens, logs, tasks, peers,
clients, models, tickets, documents and networks and every bound. The assumptions are needed,
not convenient. With `LateDelivery` a detached receiver acknowledges what no
listener saw, and a throwing listener sees a message twice. A chunk without its
length would be restored as an empty one; `stream.ts` always gives it. The
identity provider makes prefixes different by drawing them at random.

The arguments, by component.

**Receiver.** `DeliveredIntact` needs that buffers never hold a damaged chunk
(`IntactBuffers`). `AtMostOnce` needs `HandedOverSettled`: what was handed over
and not forgotten is settled, so that the duplicate check absorbs it, through
every eviction and cleanup. `AckMeansDelivered` needs `AcksTrue`: every ack in
flight and every remembered success stands for a hand-over. `BuffersAccounted` is
inductive, since each handler that drops a partial message drops its timer, or
sets it for the tid a listener threw on. `MemoryBounded` needs that finitely many
tids are buffered or remembered (`BoundedMemory`), or an eviction could not count.
Each is a lemma about one step of the receiver, proved once: `ReceiverAlone` and
`ReliableTransport` both apply it.

**Transport.** `TypeOK` is not inductive, because an attempt increments a counter
bounded by the budget: `BudgetLeft` says that a unit still unsettled has an attempt
left. The refinement adds `Submitted`, that packets in flight belong to units whose
send was called, and `Faithful` conjoins them all; then every step of the sender is
a `Request`, `Confirm`, `Abandon` or stutter of the contract, and every step of the
receiver a `HandOver`, `Forget` or stutter.

**Recovery.** `NackRepairs` counts attempts, so its proof must say what a send that
has spent one attempt more than answers were lost still counts on (`Repairing`).
While no packet is lost (`NothingLost`): the ack is on its way, or the whole burst,
or every piece is on the wire or held and the nack timer runs. Once one is lost
(`UnderRepair`): at most one piece lacks, and it has been asked for, or the timer
that will ask runs, or a packet on its way will set it. `Undisturbed` adds that a
stored state is incomplete and that nothing of an unsettled send has gone stale,
been settled as failed or been given up. The interval ticks only when nothing of the
message is under way; then a complete message would have been assembled and an
incomplete one asked for, so an answer was lost for every attempt. The budget plays
no part: it is what `Recovers` needs.

**Stream buffer.** The types, `SerialFlushes` and `InOrder` together are inductive: a
hand-over is in order because no second flush can be running. For the record of
progress, `Drained` says that a stream that is closing or closed has an empty queue
unless it failed or a chunk came too late, and `Recorded` that one which ended well has
a record: together they give the complete record that `snapshot()` returns after the
eof. Bytes are sums over the chunks, whose partial sums ascend (`BytesFacts`).

**Token buffer.** `TokenOrder`: what was taken, what the callback holds and what
waits are, one after the other, ascending, and are all tokens but the lost ones.
`TokenWaits`: what waits has a timer, or was stranded.

**Log trace.** The reporter's side is an account (`Accounted`): each number drawn is
dropped, buffered or in a batch, and no batch holds a number twice; what is buffered
will be flushed, and fits a batch. The consumer's side is that what it has seen is
what has arrived unless a listener threw, lies below its highest number, and is told
once. The difference of the two is the loss it reports.

**Stream adapter.** Every packet on the wire or held is the one made of the event with
its number (`IsPacket`), so that restoring it gives that event back; what was handed
on is the beginning of what was sent; and the next packet is held only behind a throw. A lemma
shows that `restoreStreamEvent` undoes `compactStreamEvent`.

**Progress.** For the reporter: snapshots are numbered in order, a terminal one is the
last of its task (`EndsLast`), and the last change of a task is in a snapshot or a
window will send it (`ShowsLast`). For the store: one entry per task, of the newest
snapshot received, and no more than its limit.

**Reconnecting network.** The four invariants are inductive only together: that one
generation is heard after `attach()` rests on the phase it came from having
detached, that no network is lost rests on which one is heard, and that `close()` is
final rests on the timer being set only while waiting.

**WebSockets.** The types, `WaitsEnd` and `EveryCopyAnswered` are inductive together:
whoever waits has a timer, or no timeout and a socket that has not answered, or waits
for a borrowed socket that is connecting or has gone silent in one of the ways named.

**Peers.** `Links` adds to `LinksMirror` that the pair and the id of a link both lead
back to its two peers (`LinksOwn`) and that a peer has one server (`OneUpstream`):
together they say that what `reconnectPair()` replaces on one side is what it
replaces on the other, and that `close()` detaches nobody else's link. `Messages`
says that of each entry something is under way or its loss is marked (`Reached`), which
way the packets of its send travel (`OnItsWay`), so that an answer reaches the one who
waits, and that sends are numbered afresh (`SendsCounted`); mids need not be. A
new pair leaves the ends of all others alone, so every step changes the links or the
messages, hardly ever both, and the proof has the same two halves.

**Services.** The clients' ledger is inductive with the statement that packets carry
the number of the request they were made for. For the proxy, the pending wait is that
of the latest call that went out and every earlier one is settled (`WaitIsLatest`),
and a payload on its way echoes the call it was sent for, which it has not answered
(`PayloadsEcho`): hence what settles a wait is its own answer or a named leftover. For
the upload, `SlotInv` gives each slot of the server's list its fate step by step, from
idle to its receipt; `ListInv` says that the workers take the slots in order, `DeadInv`
that a worker dies at the end of a slot only, and `PoolInv` that the finished pool
hands over exactly the receipts of its slots.

**Synced store.** `StoreInv` says where every version is. A model has one row and one
page entry, a version of a model is given out once, and a row is the newest of its
model (`RowsUnique`, `PagedUnique`, `VersionsUnique`, `RowsNewest`, `RowOfAll`); of
different models nothing is said. What the store holds is not deleted (`LocalLive`);
and every row is held, or astray or behind, or on its way in the paged pull, or newer
than the watermark and than all that is paged (`Cover`). The last is what a pull that
fails between two pages must not break. The ticker's own `TickerInv` adds to `OneChain`
that no tick of a later epoch is in flight.

**Documents.** `DocumentInv` says, as long as no counter has started over
(`IdsGoOn`): a tid was given out once (`SentOnce`); what may travel under it is
exactly what `splitJSON` made of that document, under some one-to-one numbering of
its split leaves (`PacketsTrue`); and a partial message holds what has come of these
packets, nothing else, and lacks one of them (`PartialsTrue`). A damaged chunk fails
its hash and leaves the partial message as it was. Once nothing lacks, the manifest's refs and the
chunks under each `cid` are those of one document. Then three facts about data give
the document back: each pointer leads to the leaf it was made from
(`PointersLeadBack`) and to no other, since paths are distinct and hence their
pointers; the pieces under a `cid` join to that leaf's text (`PiecesAreTheText`); and
a leaf that only looks like a marker has no ref, so it stays. The counts and sizes
that the receiver validates hold of every document sent, so no complete message is
refused. Without `IdsGoOn` the invariant keeps only the types and `ChunksFit`, and
`DocumentsIntact` promises no more.

**Components side by side.** Those of one run share no variable, so a behaviour of the
whole is one of every part, and the types of the whole follow from the theorems of the
parts. `ProgressIsTold` is the theorem of the reporter and that of the stream.

Recursive definitions over data (bytes of a batch, offsets of a text, sums of sizes)
are written as recursive functions or folds. The library's induction theorems take a
predicate as a parameter, which none of the provers can instantiate; the proofs put a
set in its place: a set of numbers that holds 0 and is closed under + 1 is `Nat`
(`NatInductSet`), and a set of sequences that holds the empty one and is closed under
`Append` is `Seq(X)` (`SeqInductSet`). A fold is first shown to be the value of a
function that takes one step per element, and then read off by that induction.

tlapm and TLC disagree on `UNION A \cup B`: the one reads `UNION (A \cup B)`, the
other `(UNION A) \cup B`. `SplitJSON` puts its UNION last, where both read the same,
as do all other definitions.

Only model-checked: everything under fairness, since the proof system does not reason
about ENABLED: `EverySendSettles`, `BuffersDrain`, `ChunksDrain`, `SyncConverges`, and
`Recovers` of both `TimelyTransport` and `ReconnectingNetwork`.

## 5. What is not modelled

- In the reliable transport a message is its set of chunks; splitting, pointers
  and the `validate...` functions are in `JSONSplit`, without acks. Their
  combination, a damaged manifest under resends, is not. `settledSend` is
  written and never read by the protocol.
- `options.split` of the transport, by which a user chooses which leaves are cut;
  `JSONSplit` has the default.
- Error listeners of the receiver that throw (`receive`, `fireNack`, `cleanup` call
  them); those of the sender and of the sync client are modelled.
- The rejection of a peer's message by a reliable transport after `send()` has
  returned, which only takes an entry of `pending` away.
- The order of keys in the settled map (see the abstraction above), and with it
  the eviction that looks for an expired entry only at the oldest key.
- `configure()` of the transport and of the decorator, which changes options
  under a running instance; delays everywhere, except that `TimelyTransport`
  orders them.
- `ready()` and `onOpen()` of the reconnecting network, which pass through to the
  inner network of the moment.
- Subscriptions that come and go, snapshots, filters and other reads; hashes;
  the registry of peers in the factory; latency and jitter of `Network`.
- `cores/` and `types/` (mapping without state), demonstrations, probes, scripts.

## 6. Plan

1. `SettledMemory`: the order of the settled map, as a refinement of the eviction
   of any entry of a tier.
2. `JSONSplit` under the reliable receiver: damaged manifests and resends.
3. `ReconnectingNetwork` over the states of `WebSocketNetworks` instead of
   abstract inner networks, with `ready()` and `onOpen()` across generations.
