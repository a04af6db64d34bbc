# Misaka-Network: a verification project in TLA+

Misaka-Network lets browsers of one identity (node id + six-digit passcode) find
each other through a Node.js signaling server and send files over WebRTC data
channels. This directory holds TLA+ modules translated from that code, the TLC
configurations that check them on small instances, and proofs that TLAPS checks
for every value of the constants.

## The system

Paths are below `src/`. "Server" is `server/src`, "client" is `client/src`.

| component | state it keeps | operations | interacts with |
|---|---|---|---|
| session registry (`store.ts`, `types.ts`, `session-lifecycle.ts`, `cleanup.ts`) | `nodes`, `channels`, proof index, authenticated-socket index, QR invitations | register, re-register, renew, release, release-by-ip, expiry and idle sweep | called by HTTP and WebSocket handlers |
| authentication guard (`store.ts`, `http.ts`) | attempt locks per (ip, node), failure window and freeze per node | charge, clear, elapse, sweep | inside register, release-by-ip, re-register, qr-redeem |
| WebSocket signaling (`ws.ts`) | one closure per socket, the session bound to it | AUTH, supersede, JOIN/LEAVE, BLOCK, SIGNAL_*, close, slow-consumer shedding | registry; the frames clients exchange |
| scrypt semaphore (`store.ts`) | slots and waiters | acquire, hand over, refuse | every await of register |
| TURN issuance (`turn.ts`) | active credentials, reservations, deny list, monthly usage, pending revokes | issue, roll back, poll usage, revoke, kill switch | Cloudflare (external), persistence |
| persistence (`persist.ts`) | in-memory state, dirty flag, flush chain, file on disk | load, flush, quarantine, month roll | TURN, guard |
| transfer, sending side (`client lib/transfer/send-engine.ts`) | send tasks, gates, ready flags, per-engine bitmaps | start, resume, repair, cancel, settle, detach | receiving side over data channels |
| transfer, receiving side (`client lib/transfer/receive-engine.ts`, `lib/db.ts`, `storage/`) | receive sessions, bitmap, durable rows and chunks, cleanup intents | meta, prepare storage, chunk, finalize, abort, resume after restart | sending side; IndexedDB/OPFS (external) |
| negotiation (`client store/network/negotiation-controller.ts`, `peer-runtime.ts`) | generation and offer tokens per peer, pending ICE | offer, answer, glare, rollback | signaling; RTCPeerConnection (external) |
| ICE recovery (`client store/network/ice-recovery.ts`) | retry budget and timers per peer | restart, rebuild, give up | negotiation |
| signaling client (`client lib/signaling.ts`, `signaling-controller.ts`, `session-scope.ts`) | socket generation, watchdog, network epoch | connect, reconnect, end of session | server |
| client authentication (`client store/auth.ts`, `lib/api.ts`) | identity, session, operation generation, tab lock | connect, edit, disconnect, renew, release, retry after a 401 | HTTP routes |
| network page (`pages/Network.tsx`, `store/network/*`) | roster, timers of the page | roster frames, foreground recovery, reconnect button | signaling client, negotiation |
| crypto worker pool (`client lib/cryptoPool.ts`) | workers, in-flight jobs, replacement budget | dispatch, crash, refill | both transfer engines |

What is hard in this code:

* **Awaits.** A handler is atomic up to its `await`. Admission checks stand on one
  side of a scrypt hash and the insert on the other; the lock entry is read before
  and written after.
* **Sockets outlive decisions.** `close()` does not stop frames that are already on
  the way; the `close` event of a superseded socket arrives after the reconnect.
* **Lossy notices.** A slow socket loses frames. A peer list is correct only if each
  announcement is retracted by some route.
* **Attempts.** A transfer id may be sent by several engines one after the other;
  messages and timers of an old attempt must not act on a new one.
* **Durability.** The receiver's promise "saved" and its resume bitmap must agree
  with what storage really holds, across pauses, failures and page reloads.
* **Bounded resources.** capacity, slots, leases, retry budgets.
* **Books of a foreign resource.** What the TURN provider has issued and relayed is
  known from polls and estimates; a ban has to be on disk before the provider is told.
* **Two ends that decide alone.** Both devices may dial, roll back, restart and give
  up at any time, and a timer of one attempt fires into the next.
* **Superseded operations.** A logout does not recall a request; its answer arrives.

For each component, what makes it correct: the registry's maps agree with each
other and with what peers were told, and admission limits hold at commit; the
guard never forgets a charge; a transfer that reports `saved` is saved, and one
engine at most touches the wire; a TURN credential is always accounted for or
revoked, and a ban outlives a crash; negotiation converges on one connection per
peer, and recovery ends in a verdict; a tab's network speaks for its session alone,
and a logout is not reversed.

## Modules

| module | models | extends |
|---|---|---|
| `AuthGuard` | attempt locks and node freezes, as fragments of the handlers | |
| `SessionRegistry` | every route, frame and timer that changes the registry | `AuthGuard` |
| `Admission` | what the registry promises about who is in a network, abstractly | |
| `MCSessionRegistry` | symmetry sets for TLC | `SessionRegistry` |
| `SessionRegistry_proofs` | theorems: types, identity, capacity, the grant, the refinement of `Admission`; then proof and socket index, late closes, channels, presence, blocks | `SessionRegistry`, `TLAPS` |
| `TransferWire` | the peer connection: channels, messages in flight, disturbances | |
| `SendEngine` | the sending end of one transfer | `TransferWire` |
| `ReceiveEngine` | the receiving end, its rows, chunk store and output file | `TransferWire` |
| `Transfer` | both ends and the connection: next-state relation, fairness, properties | `SendEngine`, `ReceiveEngine` |
| `TransferPromise` | what a transfer promises, abstractly | |
| `Transfer_proofs` | theorems: types, saved only when stored, the refinement, no holes | `Transfer`, `FiniteSums_proofs` |
| `MCTransfer` | the sets of disturbances the runs allow | `Transfer` |
| `Persist` | the two snapshot files: chains of writes, security flush, load | |
| `Turn` | the TURN service, its books and revokes, the shutdown of the server | `Persist` |
| `FiniteSums_proofs` | lemmas: sums over finite sets | `Functions`, `TLAPS` |
| `Turn_proofs` | theorems: types, kill switch | `Turn`, `FiniteSums_proofs` |
| `TurnDurable_proofs` | theorems: bans and locks outlive a crash | `Turn_proofs` |
| `TurnBooks_proofs` | theorems: credentials are on the books, in the estimate, in the ledger | `TurnDurable_proofs` |
| `MCTurn` | two identities and the sets of disturbances | `Turn` |
| `Negotiation` | offers, answers, glare and generations of one peer connection | |
| `IceRecovery` | watchdog, restarts, retry timers, what the browser reports | `Negotiation` |
| `Peers` | two devices and the server between them: next-state relation, properties | `IceRecovery` |
| `Peers_proofs` | theorems: types, connections, locks, offer flags | `Peers`, `TLAPS` |
| `MCPeers` | the sets of disturbances | `Peers` |
| `SignalSocket` | the signaling socket of a tab as operators | |
| `NetworkScope` | the network epoch of a tab as operators | `SignalSocket` |
| `AuthStore` | the authentication store of a tab as operators | `NetworkScope` |
| `Client` | one tab composed with the server's sessions, its page and other tabs | `AuthStore` |
| `MCClient` | the sets of disturbances | `Client` |
| `Client_proofs` | theorems: types, the network's session, the node id lock, logout | `Client`, `TLAPS` |

Every component after the registry follows one convention: the environment's
disturbances are counted in `spent`, and `Bounds` is a set of allowed mixes. A run may
then cover many small fault scenarios in one state graph without paying for their
product.

### SessionRegistry

`obj` holds the `NodeSession` objects, `live` the keys of `nodes`: a socket's
closure keeps an object alive after the map forgot it, so the two differ.
`proofs`, `channels`, `authed` and `inv` are `reRegisterProofIndex`, `channels`,
`authedSockets` and `qrTokens`. `conn` is one record per WebSocket (open, closing
after `close()`, free after the `close` event) with the session bound to its closure.
`told[c]` is a history of what the client behind socket `c` was told: ids announced
by PEER_JOINED and not yet retracted by PEER_LEFT or PEER_OFFLINE. `pend` holds HTTP
requests that wait for scrypt: what the closure captured (the verdict against the
session that held the node, the grant, and the lock *object*, which may meanwhile
have been replaced in the map: `"orphan"`).

| action | code |
|---|---|
| `RegisterStart`, then `RegisterCharged`, `RegisterRefused`, `RegisterAdmitted` or `ScryptBusy` | `POST /register`, cut at the await |
| `ReRegister`, `ReRegisterRejected` | `POST /re-register` |
| `Renew`, `Release`, `ReleaseByIp` | `POST /session-renew`, `/release`, `/release-by-ip` with a bearer |
| `ReleaseStart`, `ReleaseFinish` | `/release-by-ip` with a passcode, cut at the await |
| `Invite`, `Redeem`, `RedeemRejected`, `InvitationExpires` | QR invitations |
| `Connect`, `Auth`, `ServerCloses`, `SocketClosed` | socket life cycle |
| `Join`, `Leave`, `Block`, `SignalOffline` | frames |
| `Expire`, `CleanupTick`, `TimePasses` | clocks and the sweep |

`TerminateAll` is `terminateSession`, one operator per variable, used by every route
that ends a session, as in the code. A token and a proof are both the pair
(session, generation). Timestamps are abstracted to the comparison the code makes
(expired or not, locked or lapsed). `LateFrames`, `Slowable` and `Misuse` switch on
environment behaviour that the passing runs leave out or that only widens the state
space: frames after `close()`, sockets over the send mark, clients that present
stale proofs.

`Admission` is the abstract specification: sessions are admitted one at a time (there is
room, the node id is free or shared under its own passcode, the invitation is fresh), replaced
under the same identity, or gone for good; a session keeps its identity. `present` maps to
`live`, `identity` to the node id, passcode and invitation of every object minted
(`Identities`). The limit per address is not part of the promise: AUTH takes the address of the
socket without counting.

Left out of this component: activity broadcasts, reports, statistics, the ageing of
tombstones (after it, a stale proof is charged to node 0), the legacy hash upgrade
(no route creates a legacy record), and the durable flush of the guard (its file and flush are in `Persist`).

### Transfer

The modules follow one transfer id between two peers. `snd` is the transfer's entry
in each of the sender's maps: `task` (`sendTasks`; a number is a shortId), `active`
(`activeSendAttempts`), `gates` (`irrevocableSendGates`), `soft`
(`neutralizedSends`), `ready` (`receiverReadyFlags`), the pause/cancel signal, the
stashed repair (`pendingRepairRanges`), the source file, `transferDelivery` and the
transfer card. `last` is the last shortId used. `asks` are handlers (a resume
request, a late repair, the user's Retry) that have captured the file and await the
row and the lanes. `eng[a]` is the engine attempt with shortId `a`; `pc` names the
await at which its coroutine is parked, `held` what each lane has encrypted and not
sent.

`rcv` is the receiver's memory: the session in `receiveSessions` with its attempt
token, bitmap and pre-commit buffer, the prepared result (`res`), the shortId
routing, and the parked coroutines (`hs` meta handlers, `fly` chunk writes, `aborts`
cleanups, `fin` the finalization), each with what it captured. `disk` is what
survives a reload: the row with its bitmap and token, the chunk store `idb`, the
stream's unclosed swap file, and the file that was handed to the user. `net` holds
the messages on the lanes and on the primary, in order, for each direction.

| action | code |
|---|---|
| `StartSend`, `AnswerAsk`, `AskFails` | `sendFileToPeer`; `handleResumeRequest`, `reenterSendTaskForRepair`, `resumeTransfer` after their awaits, through `sendFileParallel` |
| `SaveDone`, `Refused`, `ReadyTimeout` | `runSendEngine` up to the ready barrier |
| `Take`, `SendChunk`, `LaneDies` | `prepareNext` and `laneLoop`, per lane |
| `RoundEnds`, `Drained`, `DrainFails`, `AckTimeout`, `CancelSeen`, `GiveUpDone`, `SavedDone` | the outer loop: repair rounds, drain, ACK; with the tails and the catch blocks of the callers |
| `OnReady`, `OnReject`, `OnCancel`, `OnRepair`, `OnDone`, `OnPause`, `OnGo`, `OnResume` | the sender's message handlers |
| `UserPause`, `UserResume`, `UserCancel`, `CloseDone`, `Neutralise`, `Detach` | `network-actions.ts`, `awaitSendEngineSettlement` |
| `OnMeta`, `RestoreDone`, `PrepDone` | `handleIncomingMeta`: session, restore from the row, backend preparation and answer |
| `OnFrame`, `PersistDone`, `PersistFails` | a chunk frame: `receiveChunk`, `persistChunk`, delivery or the catch block |
| `FinJoin`, `FinRow` | `finalizeReceive`, the durable ACK |
| `AbortDrained`, `AbortWiped` | `abortInboundTransfer`, `runTerminalCleanup` |
| `UserPauseR`, `UserResumeR`, `UserCancelR`, `OnPeerCancel`, `SendResume` | the receiver's user and resume request |
| `Drop`, `LaneCloses`, `Reload`, `Cleanup`, `Reopen` | the connection and the receiver's page |

Every handler and every resumption of a coroutine is a step, except where awaits
that no other code of the transfer can observe are merged: the restore (three reads
and a save), the durable write with the row update that follows it, the replay of
the buffered frames, a wipe. A refused barrier resumes its engine in a microtask,
which is why `Urgent` goes first. The connection's phase is shared by both ends.

A cancel is told more than once, as in the code: the sender's `transfer-cancel` goes out
twice (`net.cancel` counts them), and the receiver's twice with a `transfer-reject` behind
it, which finds the transfer cancelled, or closed. Whoever awaits a receiver's abort goes on
when it has ended, dropped or not (`Ended`): a failed delivery clears the signal, a cancel
runs `forgetTransfer`, which takes the session, the signal and the preparation of whatever
attempt is there by then. That a session is dropped in this way takes a cancel together with
a reload: the restore gives the session its row's token, the abort is refused, and the row
stays active. The mixes of `transfer_faults` do not combine the two. The second cancel frame
finding no session changes nothing in the model; in the code it may once more forget an owner
that a cleanup without an attempt token left behind.

A chunk is its index; bytes, keys, IVs and sizes are left out, and a stream whose
last chunk is written passes the size check, as in `finalizeReceive`. Also left out:
epochs (a sign-out ends everything at once), the fingerprint and size checks of a
meta, the buffer timer of a lane that is parked by a pause, the retries of a cleanup
whose own storage calls fail, progress and speed.

`TransferPromise` is the abstract specification: a file is offered, stored once, and
reported as saved only while it is stored. A report may be taken back: the tail of
the first attempt may overwrite it, and a cancel clears it.

### Turn and Persist

`books` is `turn-state.json` in memory (active credentials with their estimate and
confirmed bytes, issues per address and hour, the hourly ledger of expired ones, the
deny list, monthly estimate and total, kill switch), `locks` whether an attempt lock
is engaged, `disk` what a restart would read. `file[f]` is the load state, the dirty
flag and the chain of writes of a file: a link of the chain names who waits for it. `sec`
follows each caller of `flushSecurityState`. `cred` holds the cache, the issues under
way, what clients hold and what of it a crash made the server forget, `work` the three revokers (abuse poll, retry loop, kill-switch sweep), `poll` the
usage polls with their generations, `cf` the provider (external): what it honours, what was relayed, whom it cut off and
for whom. `srv` is the process, with the phase of its shutdown.

| action | code |
|---|---|
| `IssueOld`, `IssueFresh`, `ProviderMakes`, `IssueDone`, `IssueFails` | `issueCredentials`, `issueFreshCredentials`, `rollbackReservation` |
| `AbuseAsks`, `AbuseRows`, `AbuseAskFails` | `pollPerCredentialUsage`, `handleAbusiveCredential` up to its flush |
| `Flushed`, `ProviderRevokes`, `RevokeDone`, `RevokeFails` | the flush in front of a revoke, `revokeCredential` and what follows |
| `SweepNext`, `RetryStarts`, `RetryNext` | the kill-switch sweep, the retry loop |
| `GlobalAsks`, `ProviderCounts`, `GlobalFails`, `GlobalStale`, `GlobalLowerBound`, `GlobalTotal` | `pollGlobalUsage` with its generation and the month it started in |
| `FlushTick`, `WriteDone`, `WriteFails` | `persist.ts` writers |
| `LockEngages`, `LockAnswered` | a failed attempt that locks, answered after its flush (`persistSecurityOr503`) |
| `Stops`, `StopFlushes`, `Exits`, `Crash`, `CrashTorn` | `gracefulShutdown`; a restart loads what `disk` holds, fail-closed when it is unreadable |
| `Relays`, `Ages`, `MonthTurns` | clients, clocks |

Volumes are counted in units of one credential's estimate; a credential is fresh, near
its end or old. Bans and the hourly windows outlast a behaviour. The parsing of provider
answers and of the two files is abstracted to "readable" or not.

### Negotiation, IceRecovery and Peers

`side[s]` is what a device keeps about the other: the peer generation, the incarnation
of its receipts, the perfect-negotiation flags with the offer tokens, the roster row, the
restart lock, attempts and timers, and `pc`, the connection in the map. A connection is
named by the generation that built it, a description by its connection and a count, so
"which offer does this answer fit" is a comparison. `tasks[s]` are the parked calls, each
with the generation, connection, incarnation and token it captured; `queue` is
`peerTaskQueues`, `net` what the server has yet to deliver.

| action | code |
|---|---|
| `DialReady`, `DialRefused`, `DialBuilds`, `DialOffers`, `DialPublishes` | `initiateWebRTC`, cut at its awaits (barrier, TURN credentials, keys, offer) |
| `SdpStarts`, `SdpBuilds`, `SdpAccepts`, `SdpRollsBack`, `SdpAnswers`, `SdpApplies` | `handleRemoteSDP` |
| `RestartStale`, `RestartRedials`, `RestartExhausted`, `RestartWakes`, `RestartStable`, `RestartTimesOut`, `RestartPublishes`, `RetryFires`, `DisconnectedFires` | `attemptIceRestart`, `scheduleIceRestartRetry` and the disconnect timer |
| `WatchStale`, `WatchYields`, `WatchGivesUp`, `WatchRebuilds`, `WatchRestarts`, `WatchPublishes` | the connection watchdog, one re-observation and one rebuild |
| `IceConnects`, `IceLost`, `IceDrops`, `IceFails`, `KeysInstalled`, `ChannelCloses`, `Wedges` | events of the browser with their handlers |
| `Receive`, `SignalingDrops`, `SignalingReturns`, `FallbackFires` | roster frames, `renegotiateOrphanPeers`, the fallback of the side that waits for an offer |
| `Recover`, `Reconnect`, `Sends`, `SendWakes`, `SendTimesOut` | `recoverConnections`, `reconnectPeer`, `ensureConnected` |
| `Migrate`, `MigrateStable`, `MigrateTimesOut`, `MigratePublishes` | `migrateIcePath` |

`handleIceStateChange` is one action per event although `onIceConnected` awaits the path's
statistics before it shows the row (`ice-recovery.ts:378-383`, each await followed by the
same currency check, which does not ask whether the transport has failed meanwhile): a row may
then read `online` in the code while its restart is under way. Early ICE candidates and their
buffer are left out (a matched pair of descriptions may connect), and so are the waits of
`ensureConnected` for an open channel and its keys, which only reject the caller. A timer may
fire at any time once nothing that is under way could forestall it; firing earlier is the
disturbance `slow`.

### SignalSocket, NetworkScope, AuthStore and Client

The three lower modules are operators on the record of a tab; `Client` turns them into
actions. `ws` is the current socket with its watchdog, reconnect timer and the token its AUTH frame carried;
`net` the epoch (`initNetwork`, WELCOME, `endNetworkEpoch`); `auth` the store; `ops` connect
operations, each with the request it chose and its answer; `rels`, `renews`, `call` requests
that outlive what sent them. `srv[s]` is the renewal number under which the server knows
session `s`. A superseded operation stays in `ops` while its request is out. `page` is the
network page: not shown, shown with its effect due, or shown after it; `seen` is the token its
effect has seen. The page needs a session: `ProtectedRoute` (`App.tsx:16-20`) takes it away in the commit that
clears the session (`Shows`), so its effect never sees the session gone.

| action | code |
|---|---|
| `UserConnects`, `UserJoins`, `UserEdits`, `UserLogsOut`, `CooldownEnds` | `connect`, `setNodeId`, `setPassCode`, `disconnect` |
| `UserOpens`, `UserLeaves`, `Onward` in `AnswerArrives` | the ways to the network page and from it: its button, the links, and the login and join page going on to it after their own login |
| `LockDecides`, `LockAnswers` | `acquireNodeIdLock`: the Web Lock and its callback are two steps; the disturbance `nolock` is a browser without Web Locks |
| `ServerAdmits`, `ServerRejectsProof`, `ServerRefuses`, `AnswerLost`, `AnswerArrives`, `AbortedRequestEnds`, `RequestTimesOut`, `OperationCloses` | `doConnect`, `applyConnectFailure`, `commitSession`, the drain of a late answer |
| `RenewFires`, `ServerRenews`, `RenewalLost`, `RenewAnswers` | `renewSession` |
| `ServerReleases`, `ReleaseLost` | `releaseToken` with its one retry |
| `FetchStarts`, `FetchServed`, `FetchAnswered`, `FetchResumes` | `authedFetch` |
| `PageEffect`, `PeersArrive`, `PageLoads` | the effect of the network page when it is shown and on a new token under it; a restored session, on the network page or another |
| `SocketOpens`, `ServerWelcomes`, `ServerRejectsSocket`, `ServerClosesReleased`, `SocketDrops`, `SocketCloses`, `SocketClosed`, `WatchdogBites`, `ReconnectFires`, `ServerShutsDown`, `BackOnline` | `signaling.ts` and its handlers |
| `ServerForgets`, `OtherTabTakes`, `OtherTabLeaves` | expiry, other tabs |

`releaseNodeIdLock` only settles a promise; the browser frees the lock after the task. The one place
that asks for the same lock in the task that gave it up is `onAuthInvalid` (`auth.ts:1018-1021`):
there the operation is `crossing` and the lock manager denies it. Elsewhere the release and the
next request are steps apart.

Back-off delays are left out (a timer is armed or not). `Proofs` is {TRUE, FALSE} in the runs
because the code serves servers that send no `reRegisterProof`.

## Runs

### Registry

These runs use `MCSessionRegistry`. Bounds are the smallest at which the case in
question occurs; two of each actor give every race of two.

| run | instance | shows |
|---|---|---|
| `registry_admission` | 2 addresses, 1 node id, 2 passcodes, 1 invitation, 2 requests that hash at once, limit 1 per address and 2 in all | identity, capacity and the invitation survive the await (`OneIdentityPerNode`, `WithinCapacity`, `GrantAdmitsOnce`), and every step is one of `Admission` (`ImplementsAdmission`) |
| `registry_sockets` | 2 sessions with 1 renewal each, 3 sockets, blocks, `Misuse` on | proof index, socket index, channel membership and peer lists are exact; a late close spares the reconnect |
| `registry_late_frame` | `LateFrames = TRUE` | violation of `ChannelExact` |

Three sessions in `registry_admission` are one more than the capacity admits. Two addresses with
one session each fill the server, so its total limit is not reached before an address's is (a third address
makes the run ten times longer); that `MaxNodes` holds on its own is `Capacity`, which is proved. Three
sockets in `registry_sockets` give one device a superseded and a superseding socket
beside its peer's. There are no sockets in the first run (`Conn` is empty) because
nothing in an admission reads one. In `registry_sockets` one request at a time is enough: its properties do not
depend on what two hashes race for.

*Late frame.* A frame delivered between `close()` and the `close` event is handled with
the closure's session, which may have left the map. `JOIN_CLUSTER` then adds a dead
id to `channels` and nothing removes it, against `session-lifecycle.ts` ("channels
stay consistent").

The sweep (`CleanupTick`) and the shedding of slow sockets are actions of these runs, but
no liveness is claimed of them.

**Symmetry** is used in safety runs only, over sets that `Init` and the properties do
not tell apart; `ImplementsAdmission` is a property of initial states and steps and has no
liveness part.

**Deadlock** is checked in these runs.

### Transfer

These runs use `MCTransfer`. A file has three chunks in the passing runs: one is
enough for a hole, two for an order, three so that a lane can hold one while it sends
another and a third is still queued. `Bounds` is the set of
mixes of disturbances that may happen; its values are defined in `MCTransfer`. `MaxAtt` and `MaxMint` bound the
shortIds and the receive sessions: an attempt or a meta beyond them does not happen,
so a run sees at most that many restarts. `MaxRounds = 3` stands for
MAX_REPAIR_ROUNDS = 8, and `PreCap = 2` for the limit of the pre-commit buffer.
`Versions` holds the protocol versions two peers may have negotiated: 2 has the ready
barrier, repairs and the durable ACK, 1 has none of them.

| run | instance | shows |
|---|---|---|
| `transfer_lanes` | 2 lanes, v1 and v2, stream backend, one lane closes, one timer, fairness | `NoEarlyPayload`, `CompleteIsDelivered`, `NoHoles`, `NotLostSilently` |
| `transfer_faults` | 1 lane, 3 attempts, fairness; the mixes: two losses of the connection, or two reloads of the receiver's page, or a cancel with a failed write (these with up to six timers), or a pause by either end | `OneSender`, `SkippedIsDurable`, `ReceivedIsDurable`, `CancelledStaysCancelled`, `Settles` and `Implements`: the refinement of `TransferPromise` |
| `transfer_source` | 2 chunks, 1 loss of the connection | violation of `SourceKept` |

Each property is checked under the disturbances its run names, and `transfer_faults` uses one
lane, for a reason that is itself a result: under further disturbances several of
these properties do not hold of the code. `SavedIsStored` and the refinement hold under
every combination: they are proved (see *Proofs*). `OneSender` holds as long as the file is not handed over; afterwards two
engines of one transfer can be alive. `SkippedIsDurable` holds with one lane and losses of
the connection, or one lane and reloads, not with both, and not with two lanes and a
loss. `ReceivedIsDurable` fails when a failed row is restored (several losses and a reload).
`NoEarlyPayload` holds for a transfer's first attempt. `CompleteIsDelivered` holds
while the connection does. The traces are listed below.

*Source.* `sendFileToPeer` deletes the source file for every error of the first
attempt, a lost connection included, so a resume after the reconnect finds nothing
to send; the project's README promises reconnecting and resuming.

**Fairness.** `FairSpec` assumes what the two event loops and the browser give: a
message in an open channel is delivered, a parked coroutine is resumed, an armed
timer fires in the end, a torn-down peer is connected again; and that a user who
paused a transfer resumes it. No disturbance is fair, and a timer counts
against its bound: `Settles` therefore allows six of them, more than three attempts
of one lane can ever use, so that no engine stays parked for want of a timer.

**Deadlock** is not checked in these runs: a transfer that is finished or given up
stops, and so does one whose bounds are used up.

### Turn

Both runs use `MCTurn`: two sessions of one identity behind one address, three
reservations, a limit of three credentials, two strikes, and the ten mixes of `Mixes`,
each aimed at one crossing (abuse with a crash and a failing disk, abuse with a failing
provider and the retry loop, two polls, the sweep, the end of credentials, the shutdown,
ageing and a new month, a month with a failing provider, a lost file, a crash between issues and ticks
with a shutdown after it).

| run | shows |
|---|---|
| `turn` | the type invariant; a ban is on disk once the provider cut off its session (`DenialIsDurable`), and the identity gets no fresh credential again (`BannedGetsNothing`); a lock a client was told of survives a crash (`ToldLockIsDurable`); a held, honoured credential is on the books (`LiveIsOnTheBooks`), also on disk after a clean exit (`CleanExitKeepsBooks`); the estimate covers the reservations (`ReservedIsCounted`), confirmed bytes are not forgotten (`UsageIsKept`), the kill switch trips (`KillSwitchTrips`); each security flush is answered (`FlushersAnswered`) |
| `turn_retry_revoke` | violation of `NoRevokeBeforeDenial` |

Some properties name what they leave out, and each exclusion is a result listed below:
a provider that cut somebody off for `ReservedIsCounted` (`cf.struck = {}`), the kill switch's sweep (`srv.policy`), a new month, unreadable files (`Whole`), a crash
for `KillSwitchTrips`, in-flight reservations, a session's next credential and, for
the ledger, the sweep for `UsageIsKept`, and for `LiveIsOnTheBooks` and `CleanExitKeepsBooks`
what a crash made the server forget (`cred.lost`, trace *Forgotten issue*). Clients keep what they
hold through a crash (`cred.held`).

*Retry revoke.* `handleAbusiveCredential` says that its local record "MUST hit disk before the
external provider revoke" (`turn.ts:1096-1098`) and awaits its flush. The entry is pending meanwhile,
and the retry loop (`retryPendingRevokes`, `turn.ts:574-604`) awaits none: in TLC's trace no write
fails, the loop starts while the flush is still being written and the provider revokes with the ban in
memory only. After a failed flush it does the same.

**Fairness.** A write that is under way ends (`WriteDone`): the file system answers.
Nothing else is needed for `FlushersAnswered`, and neither the provider nor a client is
assumed to act.

**Deadlock** is not checked: a stopped process has no next state.

### Peers

These runs use `MCPeers`: two devices from the first offer on, one ICE restart before
giving up (`MaxRestarts = 1` stands for MAX_ICE_RESTART_ATTEMPTS: the first, the last and
the one too many all occur), and as disturbances each single one, and those of
wedge, drop, send and migrate together with a timer that fires while work is under way. (The
invariants were also found to hold for foreground recovery and for the reconnect button with an
early timer; those state graphs are left out for their size.)

| run | shows |
|---|---|
| `peers` | the type invariant; no connection is replaced while open (`NoLeak`); the restart lock is that of the running restart and is always released (`LockOwned`); the flag of an offer ends with the offer (`MakingEnds`); two devices at rest that show each other online share one encrypted channel (`BothOnline`); and after one disturbance nobody is for ever on the way to a connection (`Settles`) |
| `peers_orphan` | violation of `NeverOrphaned` |

Generations grow without an explicit bound: the disturbances bound them in all but the
cycles named below, which the mixes of `peers` do not contain.

*Orphan.* A rejoin after a lost socket reaches `initiateWebRTC` while a connection is in
the map: the generation is taken and the connection stays in the map with callbacks nobody
heeds, against the comment there that entry points "share one attempt or supersede it".

**Fairness.** Per device: work under way goes on; timers fire once nothing is under way
that would forestall them; a lost socket is reopened; a transport whose other end is gone is
found out, a disconnected one fails, one that can come up does, keys of an open channel are
installed (one of these at a time: the transport as a whole is fair). These are the event loops, the browser's ICE agent and the reconnect timer
of `signaling.ts`. A wedged connection is exempt: it is what the watchdog is for.

**Deadlock** is not checked: two settled devices rest.

### Client

These runs use `MCClient`: one tab, two node ids (a lock given up and one taken), at
most four sessions and one renewal of each, two logins, every pair of disturbances and every
triple of those that cross a logout or a renewal.

| run | shows |
|---|---|
| `client` | the network speaks for the session alone once the page has seen it (`SpeaksForSession`); a tab at rest leaves every lock to other tabs (`LockFreedAtRest`); a logout is not reversed (`StaysLoggedOut`) and leaves neither socket nor timer; while the network page is shown the tab joins again, unless a server announced its shutdown (`ComesOnline`) |
| `client_renewal` | violation of `RenewalKeepsEpoch` |

*Renewal.* `renewSession` keeps the session id and says the network epoch must survive;
the page's effect depends on the token, so `initNetwork` ends the epoch.

**Fairness.** One weak fairness over everything that answers: the browser's locks and
fetches, the server, the reconnect timer, the effect of the network page while it is shown. It suffices because what
it covers drains: each of these steps uses up a request or a timer. User actions, among them opening
the network page, renewals and losses are never assumed; so `ComesOnline` claims nothing of a tab on
another page (*Not on the page* below).

**Deadlock** is not checked: a tab at rest has nothing to do.

### Other traces of the model

Met while modelling, and kept as notes: each is a trace of the modules, or of the property
named without the exclusion it states, and none of them has a run of its own. They are kept
as a list of places to look at, not as verdicts.

Registry and transfer (the first two are of the registry):


* *Slow consumer* (`Slowable` = all sockets, `BlockedNotTold`). The PEER_LEFT that
  follows a BLOCK is dropped like any other frame when the blocked device's socket is
  over the soft mark (`ws.ts:123`). `ws-block.test.mjs` states that the blocked peer
  receives it, and no retry path repeats it.
* *Lost charge* (two requests, limit 2). A register that captured no lock entry
  creates one after its await (`http.ts:258`) and overwrites the entry that other
  requests filled meanwhile, a lock in force included. `store.ts` and `cleanup.ts`
  name success and expiry as its only ends.
* *Slack* (two lanes, one closes). A lane that dies after the loops of the others have
  ended puts its chunk back where nobody takes it, and the transfer fails although a
  lane is open (`send-engine.ts:953`, "healthy lanes pick up the slack").
* *Stale ready* (a retry). The ready flag of a shortId survives into its re-entered
  attempt, which passes the barrier before the new session has a backend
  (`send-engine.ts:1227`).
* *Undelivered* (one drop). The write that completes a session ends after its
  connection was torn down: its handler returns at the attempt check, and nobody
  delivers the file (`data-channel-router.ts:215`).
* *Wiped bitmap* (a failed write and a drop). The terminal cleanup keeps the row with
  its bitmap; a retry restores it over wiped bytes (`receive-engine.ts:356`).
* *Two engines* (a retry). A resume that awaits its lanes while the ACK forgets
  the task starts an engine beside the one that is ending (`network-actions.ts:340`).
* *Stale meta* (two lanes, a drop). The handler of an old connection aborts the
  transfer, by its id, that the new connection has resumed
  (`transfer-controller.ts:339`).
* *Refused restore* (a drop and a reload, or two lanes and a drop). The preparation
  captures the session's attempt token before the restore replaces it with the row's:
  its result is refused as stale, the sender is rejected and the chunks it was about
  to skip are wiped (`receive-engine.ts:435`).
* *Late ACK* (one timer). The ACK comes while the engine that gave up on it updates
  its row: the tail of `sendFileToPeer` writes `delivered` over `saved`.
* *Queued ACK* (two drops). The teardown of a peer deletes the ACK that was queued
  for its next connection (`peer-runtime.ts:399`); the sender never learns of it.
* *Revived row* (two lanes). A meta on the slower lane is restored after the file was
  finalized and saves the completed row as active again (`receive-engine.ts:373`). The
  sender's card then ends as cancelled although the file was stored.
* *Lost swap* (stream backend, reloads). What is written to a stream becomes visible
  when it is closed, so a reload loses all of it; the row's bitmap stays, the sender
  skips those chunks, and a file with holes is delivered, against the comment in `opfs.ts`.
* *Cancelled resume* (a cancel with a pause or a loss of the connection). A resume that awaits its row and lanes does
  not look at the transfer's state again; a cancel that was closed meanwhile has cleared
  its flag, and the resume starts a new engine with the file it captured.

TURN and persistence:

* *Sweep of a reservation.* The kill-switch sweep revokes and deletes an entry whose
  credential is still being made; it is handed out off the books.
* *Banned in flight.* An issue that is under way when its session is banned still hands
  out a live credential, also off the books.
* *Near-expiry rollback.* A fresh reservation replaces an entry near its end; its
  rollback deletes the row although the older credential still lives. A confirmed row
  of a reservation in flight vanishes with it, too.
* *Double refund.* Abuse handling deletes the entry of a session whose next credential is
  under way (`turn.ts:1106`) and refunds its estimate; the next reconciliation sets the
  estimate to the sum of the active entries (`turn.ts:1190`); the provider call then fails,
  and `rollbackReservation` (`turn.ts:280`) refunds the reservation a second time, below
  what the books hold. `ReservedIsCounted` without its last hypothesis shows it in 19 steps:
  three issues, two relays, two polls, one failure and one expiry.
* *Delete by session.* The retry loop and the sweep delete by session key without a
  look at the reservation they meant.
* *Month.* A poll that began before the month turned writes the old total into the new
  month; the rollback of an old reservation lowers the new month's estimate.
* *Settled with nothing.* The kill-switch sweep settles an entry of which nothing was confirmed
  (`turn.ts:780`), and its flush fails, so the revoke is left to the retry loop. A usage poll
  then confirms bytes of the entry, which is settled already; when the retry loop deletes it, they reach no
  ledger, against "This ALWAYS happens before an entry can be deleted" (`turn.ts:770`). This is
  why `UsageIsKept` speaks of the ledger without the sweep only.
* *Counted twice.* A re-issue counts the per-session analytics of one session twice.
* *Forgotten issue.* An issue is marked dirty and handed out at once (`turn.ts:240`, `:270`); the
  periodic flush may be ten seconds away (`config.ts:237`). A crash in between leaves the client with a
  credential that the provider honours and the server has no entry of, so no poll counts it, no cap and no revoke
  finds it, against "data that MUST survive restart: ... in-flight credentials" (`persist.ts:2-4`).
  `Restarts` keeps `held` and adds to `lost` what the loaded snapshot does not record; in the model such a
  credential never expires, as only entries age. `LiveIsOnTheBooks` without `lost` shows it in four steps.
* *Recovered empty.* An unreadable snapshot that a provider sync recovers has lost the deny list
  (`turn.ts:1237`); a second restart after `auth-locks.json` was quarantined starts
  without locks.
* *Between rows.* A crash may load books written in the middle of a poll, with the
  volume at the limit and the kill switch off. The shutdown does not await polls either.
* *Unsynced.* The periodic write, which is not fsynced, may replace a durable snapshot.

Negotiation and recovery:

* *Blips and pairs.* `Settles` is claimed for one disturbance, other than a lost socket. With two, or
  a lost socket in the first connecting phase, a device may stay `connecting` without a connection or
  a timer until foreground recovery; restarts may also answer each other in an endless
  cycle with outworn cleanups (`ice-recovery.ts:451`, `:586`).
* *Answer to another offer.* An answer may be applied to a later offer of the same
  connection than the one it answers, against the comment at
  `negotiation-controller.ts:135`.
* *Unequal verdicts.* After a reconnect by one user that crosses the first dial, one
  device may rest `online` with a closed channel and the other `offline`; after a closed channel,
  an ICE reconnect sets `online` with the keys of the dead channel.
* *Retry without a look.* The timeout at `ice-recovery.ts:494` schedules a retry without
  the check its neighbours make.
* *Dropped with the offer.* Frames queued behind an offer that triggers a cleanup are
  discarded with it; `recoverConnections` leaves `online` on the row while it cleans up.
* *Woken send.* A cleanup wakes a parked `ensureConnected`, which cleans up again and
  redials over the replacement (`peer-runtime.ts:147`); its own cleanup removes it from
  `connectingPeers`, so a second send is not joined to it.

Client:

* *Surviving network.* A close with 4001 or 4002, or a second 401, clears the session, and the route takes the
  network page away in the same commit, before its effect could see that there is no token;
  `invalidateSession` (`auth.ts:927-946`) stops nothing and `emitSessionInvalid` has no subscriber. The peers,
  keys and transfers of the dead session go on, against the comment at `Network.tsx:1253-1256`, until a logout, a
  page load or the next visit to the network page with another token (`UserConnects` ... `PeersArrive`, `ServerForgets`,
  `ServerRejectsSocket`). `SpeaksForSession` therefore speaks of a token the effect has seen, and of a logout.
  The socket keeps the dead token: when the tab comes online or to the foreground it dials with it, and
  the 4001 or 4002 that follows ends a newer session (`PageEffect`, `UserJoins`, `SocketOpens`, `ServerForgets`,
  `ServerRejectsSocket`). The TURN refresh of the surviving network logs in again through
  `authedFetch` with no session there (`FetchStarts`).
* *Not on the page.* A session recovered after 4001 or 4002 leaves the tab on `/`, and one restored by a
  load of another page leaves it there; neither joins before the user opens the network page.
* *Recovery denied.* `onAuthInvalid` gives the node lock up and asks for it again with `ifAvailable` in one
  task: in a browser with Web Locks the request finds the lock still held and the recovery fails. It
  succeeds without Web Locks, or when the tab held no lock (a session restored after a reload).
* *401 after logout.* An `authedFetch` in flight during a logout connects again with the
  passcode that is still in memory, against `auth.ts:954`; likewise its terminal failure
  may end a newer session or a login under way.
* *Sessions left behind.* A renewal that crosses a logout makes the release a no-op; a
  superseded or aborted register leaks its session until it expires; a connect from the join page over a
  live session never releases the old one.
* *Half-dead socket.* `reconnectNow` replaces a closing socket without the disconnect
  handlers, so `isSignalingReady` stays true (`session-scope.ts:82`).
* *Flags.* A disconnect or a terminal invalidation supersedes an operation without clearing
  `isLoading`; a second disconnect during the first's release is swallowed after a
  new login.
* *Locks.* A superseding edit gives up the node lock under a live session; a session restored
  after a reload holds none; a repeated connect of the same node while the first lock request
  is pending reports a conflict with itself.
* *Lost renewal answer.* The rotated token is unknown to the tab, the next socket is
  refused, the proof is refused, and the user has to type the passcode. A renewal that
  hangs is never retried.
* *Shutdown notice.* After SERVER_SHUTDOWN the tab does not reconnect until it comes online
  or to the foreground (`signaling.ts:205`), which `ComesOnline` excepts.

## Proofs

TLAPS proves these for every value of the constants that satisfies the assumptions
named in the modules (finite sets where something is counted, positive limits, two
sides): any number of addresses, sessions and sockets, any limits, any mix and number of
disturbances (`Bounds` is arbitrary).

| module | theorem | establishes |
|---|---|---|
| `SessionRegistry_proofs` | `TypeCorrect`, `OneIdentity`, `Capacity`, `OneAdmission` | `RegistryTypeOK`, `OneIdentityPerNode`, `WithinCapacity`, `GrantAdmitsOnce` |
| | `RegistryImplementsAdmission` | `ImplementsAdmission`: the refinement of `Admission` |
| | `ProofIndex`, `SocketIndex`, `ReconnectSpared` | `ProofIndexExact`, `SocketIndexExact`, and the action property `LateCloseSparesReconnect` |
| | `ChannelsExact`, `BlockedStaysUntold`, `GhostsRetracted`, `PromptSocketsSeeNoGhosts` | `ChannelExact`, `BlockedNotTold`, `NoGhostPeers`, and the last for the prompt sockets among slow ones |
| `Transfer_proofs` | `TransferTypeCorrect`, `SavedOnlyStored`, `TransferKeepsPromise`, `StoredIsWhole` | `TypeOK`, `SavedIsStored`, the refinement `Implements`, and `NoHoles` for the chunk store |
| `Turn_proofs` | `TypesHold`, `KillSwitchOn` | `TypeOK`, `KillSwitchTrips` |
| `TurnDurable_proofs` | `BansAreDurable`, `LocksAreDurable`, `BannedStaysOut` | `DenialIsDurable`, `ToldLockIsDurable`, and the action property `BannedGetsNothing` |
| `TurnBooks_proofs` | `HonouredIsOnTheBooks`, `CleanExitsAreComplete`, `ReservationsAreCounted`, `UsageIsNotForgotten` | `LiveIsOnTheBooks`, `CleanExitKeepsBooks`, `ReservedIsCounted`, and the action property `UsageIsKept` |
| `Peers_proofs` | `TypesHold`, `NothingLeaks`, `RestartOwnsItsLock`, `OffersEnd` | `TypeOK`, `NoLeak`, `LockOwned`, `MakingEnds` |
| `Client_proofs` | `ClientTypes`, `NetworkSpeaksForSession`, `LocksFreedAtRest`, `LogoutIsFinal` | `TypeOK`, `SpeaksForSession`, `LockFreedAtRest`, `StaysLoggedOut` |

Three hypotheses are not assumptions of the modules. `ChannelsExact`, `GhostsRetracted` and
`PromptSocketsSeeNoGhosts` suppose `~LateFrames` (no frame is delivered after `close()`):
with late frames `ChannelExact` is false, which is the run `registry_late_frame`.
`BlockedStaysUntold` and `GhostsRetracted` suppose `Slowable = {}` (no socket is over the
send mark): a slow socket misses the retraction, the trace *Slow consumer* above. The
passing runs of the registry have the same two settings. `StoredIsWhole` supposes `~Streamed`: with a
stream as the backend a reload leaves holes, the trace *Lost swap*. The run `transfer_lanes`, where
nobody reloads, checks `NoHoles` for streams.

### Registry

The type invariant is not inductive alone: a teardown reads the object of every
session a socket, channel or proof names, so those ids must be minted. `IInv`
adds `References`, which says so; the lemmas show it is preserved by the teardown
operators once and for all, then one step per action. Identity, capacity and the
grant are proved from `IInv` with the checks `RegisterAdmitted` repeats after its
await: the checks before the await are not used, which is the point of those
lemmas. Capacity needs finiteness of the session set for cardinalities. The grant needs
`GrantsSpent`: the invitation a session came in with is used up, and stays so.

The refinement rests on `OnlyTwoMint`: only the commit of a register and a re-register make a
session, and every other step leaves the identities alone and lets nobody in. So a commit is an
`Admit`, whose guards are `CommitAgrees` (the identity check after the await), `StillRoom` and
`CommitSpends` (by `GrantsSpent` nobody has come in with this invitation); a re-register is a
`Replace`; every other step is a `Depart` of the sessions that are gone, which may be none.

The indexes need what the closures of sockets may hold. `Wiring` says on which sockets a
frame can still arrive and which session such a socket speaks for: an open, bound
socket is the registered one of a live session, and a session has a socket only while it is
live. Both hold because every handler that takes a session or a socket away closes the
socket in the same step. With it the socket index follows, and that a late `close` event spares the reconnect is a
property of one step from it. Actions are sorted by what they do to a session (`Minting`,
`RecordOnly`, `SocketMove`, teardowns), so that each part of the invariant has one step
for each sort. `Membership` adds to the channels that a session is marked as joined
only while it is live and has a socket. For the peer lists, `Announced`: only an open,
authenticated socket has an unretracted announcement; `Heard`: who was told of somebody has
joined, and was told of members of its own cluster only; `Unwelcome`: no socket is told of a
session that has blocked the one behind it. Presence is proved for one
socket at a time, hence the statement for the prompt sockets among slow ones.

### Transfer

`TransferInv` has three parts. `Typed`: both ends, the channels and the disk have their types, which
includes that an engine works on its own lanes only (`Fits`: a lane outside holds nothing).
`Unstored` carries the safety argument: while no file is handed over, nothing in the system
says that one was. No ACK is queued at the receiver, none is among the control messages
in flight, no engine has seen one or is past seeing it, and the sender's delivery state
is not `saved`. All are needed: a sender acts on messages sent, and engines woken, long
before. The only step that ends this is `FinRow`, which hands the file over before it queues
the ACK. The operators of both ends are shown to keep a set of records (`Senders`, `Attempts`,
`Receivers`, `Disks`, `Wires`) that has a parameter: `TRUE` for the stronger form of before the
delivery, `FALSE` for the types alone. So each lemma is proved once and used twice. `Idle`:
until the transfer is started both ends are at rest, whatever happens to the connection and
the page.

The refinement follows step by step. A step of the sender leaves the disk alone, so it is the
offer, a report, a retraction or a stutter: `Unstored` excludes a report before the store, and once
`last` is set no step resets it. A step of the receiver or of the connection leaves the sender's entry
alone and is the store or a stutter: what is stored stays stored (`StoredStays`), and by `Idle` a file
that was not offered cannot be stored.

`StoredIsWhole` is about one decision: a file is assembled only if the store has every chunk at that
moment, and what abort, wipe, reload or a second delivery do later does not reach the assembled file.
For a stream they do: its bytes count when it is closed.

The answers to the metas of several lanes are a fold over a set of handlers; that it exists and keeps the
channels well typed is shown by a smallest counterexample, as for the sums below.

### TURN and persistence

`Typed` adds to `TypeOK` that the snapshot of a write under way may go to disk, that the
step after an await finds its session and reservation, and that a poll's rows are
numbers. `Tripped` is inductive with it: whoever raises the observed volume looks at the
kill switch in the same step.

Durability is an argument about queues. `Chained`: a caller queued at a file is waiting for
that file, once, and whoever has asked is at the place in its handler that awaits the
answer. `Ordered`: what is denied or locked on disk is so in a write under way, and what is
so in either is so in memory; this is where a write that takes its snapshot when it starts,
not when it is queued, matters. `BanPromised` and `LockPromised`: when the write at the head of the chain is that of a
caller, its snapshot has what the caller waits for, and once the caller's answer is "ok" the
disk has it. The provider is asked after that answer only (`CutOff`), and a
crash loads what is on disk, so a ban stays. All of it holds as long as the files are
readable, which is what the two invariants say.

`OnTheBooks` accounts for each credential from its reservation to the client's hand.
`Accounted`: in every copy of the books (memory, write under way, disk) an entry stands for a
reservation of its session, what has expired is over, who is to be revoked is denied, and an issue
that is recorded there has its entry, unless it is over, its session is denied or has asked for a newer one
(`Recorded`); `Issued`: what is under way is recorded in memory, and so is what a client holds and no crash has
made the server forget; `Awaited`: without the sweep, only entries of denied sessions are
revoked. Through a restart the argument needs `Synced`: what is neither marked dirty nor queued has every
recorded issue on disk, or in the one write under way, so a crash that forgets nothing on its way loads
books that record all that clients hold. `Parting` follows a shutdown: the flush that `gracefulShutdown` asks for takes its
snapshot when no credential can be issued any more (`StopSnap`), so what it writes, and every
later write, covers the books (`Saved`); with an unreadable file there is nothing to save that is not forgotten (`Nothing`).

`Counted` is the invariant of the estimate. `Balanced`: an entry counts at least the unit
its reservation estimates, no entry counts nothing, and the estimate is at least the sum.
Every copy of the books is balanced, since a crash may load any of them. A rollback
refunds one unit whether or not it finds its entry; that this never takes the estimate below
the sum is `Reserves`: while nobody has been cut off, a reservation under way has its entry, so
unit and entry go together. `Retries` and `Unheard` exclude what could delete the entry
under it: the retry loop drops what had expired when it started, and no revoke is
answered.

`UsageIsNotForgotten` has two invariants. `Uses`, without the sweep: in every copy of the books an
entry due for a revoke has been settled, what an entry has settled is in the ledger, and
nothing was confirmed that the provider has not counted (`Booked`); who is about to be revoked is settled
(`Settling`), and the rows an abuse poll still works through are the latest (`Counting`), so that rows
never lower what was confirmed and an abuser has confirmed bytes to settle. `Volumes`, within a month: no copy counts more than the provider, and of
the polls under way only the newest may write its answer, which was given after the last
write. The first month only: the trace *Month* above shows what happens when one ends.

Sums over finite sets are needed to say that totals are numbers. `SumFunctionOnSet` is
a recursion over subsets; its equations are shown by a smallest counterexample (`WFMin`),
because the induction rules have an operator parameter.

### Negotiation and recovery

A synchronous stretch of this code is a chain of operators from worlds to worlds
(`Cleanup`, `Dial`, `Send`, `Offering`, ...). So the invariant is stated of a world
(`Inv`): it has its shape, and each device is `Sound` with respect to its parked tasks, the
conjunction of `Owned` (the connection in the map is of a generation there has been,
and none was left open), `Parked` (no task of a generation to come, no two
restarts of one generation, no restart past the last attempt), `Locked` and `Making` (the
lock and the flag each have the task that will clear them). Each operator leads from a sound
world to a sound world, and an action is a few of these facts. One
place is not sound in between: a restart that redials has ended its task, and its lock is
cleared by the cleanup that follows. So `Cleanup` is shown to lead to a sound world from a
`Loose` one, whose lock and flag may be behind.

### Client

The handlers of one tab are operators on its record, so `ClientInv` is `Inv` of the record `Now`
and the types of the server's side. It has five parts. `Scoped`: the network
runs for the token the page saw last, the socket has that token or none, the peers are of that token's
session (`Placed`), and a network that is off has nothing left; with the second part of `Quiet`,
`SpeaksForSession` follows from it. `Guarded`: a node lock of
this tab is either the one the store holds or was granted to an operation that has not
seen it, and a lock that is held without a session belongs to an operation that will end;
`LockFreedAtRest` follows. `Quiet`: after a logout there is no session, no proof to recover
with, no current operation, no request of a page out and no network; `StaysLoggedOut` follows.
Beside it `Shown` says that the network page is there with a session only, which is what `PageEffect`
needs: it never runs without a token.

The other two are what those three need to be inductive. `Queued`: operations have distinct generations, the
current one is the newest, and the lock manager decides older requests first, so that when the
current operation is granted its lock, no older one can still overwrite what the store holds.
`Aged`: the session an operation will install was made after every session the page and the renewals
know, and a renewal under way for the present session is the only one and was sent with its present token.
Without it a renewed or new token could equal the one the page saw last, and the network of
an old session would pass for that of the new one.

What one operator does to the parts is a lemma (`ConnectKeeps`, `CommittedKeeps`, `LoggedOutKeeps`,
`EditedKeeps`, `CrossedKeeps`, ...); an action is one or two of them. Two assumptions: `ClientBounds` (at least one
session and one renewal number) and `NodeNames` (`NoNode` is no node id).

### Only model-checked

* Liveness (`FlushersAnswered`, both `Settles`, `NotLostSilently`, `ComesOnline`): the prover has no rules
  for fairness and ENABLED.
* `BothOnline`: it relates two devices and two descriptions in flight, and is claimed for the
  mixes of its run only (see *Unequal verdicts*): no invariant for every `Bounds` implies it.
* `OneSender`, `NoEarlyPayload`, `ReceivedIsDurable`, `SkippedIsDurable`, `CompleteIsDelivered` and
  `CancelledStaysCancelled` of `Transfer`, and its `NoHoles` for streams: they hold for the mixes
  of disturbances of their runs, not for every `Bounds` (the traces above are
  counterexamples), so no inductive invariant implies them.

`RegistryTypeOK`, `SavedIsStored` and `TypeOK` of `Transfer` and `TypeOK` of `Client` have no run:
`SavedIsStored` follows from `Implements`, and all four are proved.

## Plan

Done: registry and guard with their refinement; transfer with its refinement; TURN and persistence; negotiation,
ICE recovery and their composition; the client from login to the joined channel. Proved:
every safety property of the registry, of TURN and of the client, all but one of the two
devices, and those of a transfer that hold for every mix of disturbances, its refinement among them. What is left, in order of importance:

1. Model: the buffer of early ICE candidates; the cleanup of the receiving side with its
   intents across reloads; the teardown of a whole epoch under running transfers.
2. Small components: scrypt slots, pending-authentication leases, token bucket and sliding
   window, crypto pool, chat.

The runs are kept few: a component has one passing run, two where its properties need
different instances, and one for a statement of the repository that its code contradicts.
The traces above show how a disagreement is recorded once its run is no longer needed.

Not modelled and why is listed per component in `PROJECT.json`: user interface,
browser cryptography, configuration parsing and startup have no protocol state.
