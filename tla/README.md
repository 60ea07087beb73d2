# Verification of aion2-network-accelerator

TLA+ specifications of the Aion2 network accelerator: a proxy on the player's PC
intercepts TCP connections to game servers, a tunnel carries them to a relay, and the
relay opens the real connections. The desktop app starts the proxy and deploys the
relay. Every definition is translated from the source; paths below are relative to the
repository's `crates/` and `ui/`. `PROJECT.json` names, for every definition that models
code, the lines it stands for.

## The system

| Component | Code | State | Operations | Module |
|---|---|---|---|---|
| Connection table and bridge tasks of the relay | `aion2-relay/src/relay.rs` 366-552 | `conns`: (session, connection id) -> data and shutdown channels; per connection a write and a read task | Connect, Data, Shutdown, Reset; connect, register, write, drain, read, abort, unregister | `RelayConns` |
| Sessions, transports and keys of the relay | `relay.rs` 49-364, 556-596 | `clients`: session -> address, tunnel channel; `keys`; per tunnel a handler and a write task | UDP loop, tunnel handler, send_to_client, SIGHUP reload | `RelaySessions` |
| User-space TCP endpoint of the proxy | `aion2-proxy/src/tun_windows.rs` 35-548 | NAT table: connection id -> next sequence numbers, state, pending data | SYN, RST, ACK/data/FIN segments; five relay events; cleanup timer | `NatTable`, with its contract `Flow` |
| Tunnel client of the proxy | `aion2-proxy/src/tunnel.rs`, `tun_windows.rs` 60-230 | the channels `tcp_tx`, `relay_events`, `tun_write`; `conns` | receive, dispatch, send; write task, write thread, main loop | `Tunnel` |
| Development mode | `tunnel.rs` 420-511, `tun_stub.rs` | the test connection's entry in `conns`, its `notify` channel | open, wait, drain, write, read input | `Tunnel` |
| Proxy process management of the app | `aion2-app/src/proxy.rs` | running proxy, stats, key file, child | start, stop, get_status; log, exit and status tasks | `ProxyManager` |
| Dashboard | `ui/src/App.vue`, `api.ts` | shown status, shown profiles | start, stop, events, polling; mount, select, save and delete a profile | part of `ProxyManager`, part of `Profiles` |
| Profiles | `aion2-app/src/profiles.rs` | `profiles.json` | save, load, delete, set active | `Profiles` |
| Relay deployment | `aion2-app/src/deploy.rs` | files and service on the server | nine steps over SSH | `Deploy` |
| Message format and encryption | `aion2-common` | none | seal, open, peek, key_id | ids in `RelaySessions`, else values |
| Entry points and build scripts | `aion2-app/src/lib.rs`, `main.rs`, `build.rs` | none | | not modelled |

How they interact: the NAT table calls the tunnel client (`open_connection`,
`send_data`, `send_shutdown`, `send_reset`), whose messages travel in one TCP stream per
session; the relay answers through the session's channel, or by datagram when there is
no tunnel; the tunnel client turns the answers into events for the NAT table. The app
knows the proxy only as a child process: a key file in, a log out. It knows the relay
only as files and a systemd unit.

What makes it hard: four kinds of task share the relay's two tables and hold their locks
only for single steps; keys of the tables outlive the connections they named; bounded
channels drop on one side and block on the other, and the blocking ones form chains; the
proxy acknowledges bytes before anyone else has them; sequence numbers wrap around;
deployments and the app's commands may fail half way and are repeated; the profiles' file
is changed by several commands without a lock. `PROJECT.json` lists each hazard at its line.

## Modules

### RelayConns

`conns` is the relay's table; `task[t]` is one `handle_connect` with the positions of
its connect phase (`c`), its writer (`w`) and its reader (`r`), its data channel `dq`, its
one-slot shutdown channel `shut`, and what the server was given (`out`, `fin`). `down[s]`
holds what is queued for, or on its way to, the proxy of session `s`. `phase[k]` is the
proxy's view of flow `k`, and restricts what the proxy sends to what it can send. A step
is the code between two awaits at which other tasks can act. The writer's biased
`select!` is two polls (`run`, then `polled`) because a handler on another thread can put
data and a signal between them.

A message the proxy sends is handled in the step that sends it. This loses no
behaviour: the uplink of a session is one FIFO read by one task, and what the proxy does
next depends only on messages of `down`, whose delivery may be as late as you like.

History variables (`gen`, `sent`, `told`, and the task's `rst`, `due`, `drained`) are read by
no guard except the bounds. `told[s]` is what the proxy was told through its tunnel, in
order; `Through(s)` is that with what is still in the tunnel, and `DownstreamOrder` speaks of
it. Once the tunnel is lost `Deliver` takes any message of `down`, as datagrams overtake each
other, and nothing is claimed of their order: the proxy may then be told the end before a
payload.

### RelaySessions

`clients`, `keys` (one key for each id that `compute_key_id` gives, `IdOf`; of keys with
the same id whichever was read last, which is any of them), and per session the TCP
connection (`link`), the tunnel handler, its write task with its channel `txq`, and a
connection task with the copy of address and channel it took before it sends (`sender`).
The UDP loop has four steps because it takes the table's lock three times. A datagram may
be lost or duplicated; datagrams are a set, so they may be reordered. The read loop of a
tunnel looks a key up for every frame and skips the frame when the key is gone
(`ReadFrame`); what a frame asks for is `RelayConns`' matter.

### NatTable

One flow of the NAT table, with sequence numbers modulo `Modulus`. The main loop handles
one packet, event or tick at a time, so a handler is one action. The client is a TCP
that may segment, repeat and probe as it likes; the model lets it send any bytes not yet
acknowledged, so it includes every retransmission policy. `taken`, `fwd` and `ended` are
histories. `server` is the relay as the events report it, in the order of
`relay_events`. `late` is the relay's side of the connection before on the same port: the
proxy finds entries by their 4-tuple, so its reports reach the new entry.

Two assumptions about the client's TCP. It sends nothing beyond the window: every segment
the proxy builds advertises 65535 bytes, unscaled (`build_tcp_packet`, called for instance
at `tun_windows.rs` 264), so `Window < Modulus`. And a new connection does not start with a
sequence number that a SYN-ACK still in the adapter's ring would acknowledge (`ClientSyn`);
with 2^32 numbers that would be a coincidence, with the modulus of 3 that TLC uses it would
happen one time in three.

### Flow

What the proxy promises the two ends of an intercepted connection, with no segments,
sequence numbers or table: bytes written, a prefix handed over, the end told; bytes said,
a prefix heard, and the end after the last of them. It allows what the code does at its
edges: bytes taken before the relay has connected are handed over all together, or, when
the client is done by then, never; and what is written to a server that is over goes
nowhere. `NatTable` implements it under the refinement mapping `F == INSTANCE Flow WITH
...`, where `wrote` is what was taken, `reached` what was forwarded and `heard` what the
client's TCP has given its application. `KeepsContract` is that refinement.

### Tunnel

The proxy's channels and who waits for whom. `loop[d]` is one of the two receive loops (TCP
and UDP) and where it is in `dispatch_relay_message`; `events`, `tx`, `out` and `notify` are
the bounded channels; `main` is what the main loop's current handler has still to send, in
order. What NatTable's handlers compute is left out here; what they send is a list of
channels, and `PacketSends` and `EventSends` list all those lists. `down` is the wire with
its window, and `RelayTakes` the other direction: the relay takes a message whatever
its own output does, because all its sends are `try_send`.

The messages of a connection are numbered as the relay sends them. `Way` is all that is on its
way to the main loop: the channel, what the receive loop holds, the wire. `ControlArrives`
says that it leads, step by step (`Follows`, `Chained`), from what the main loop has seen to
what the relay has said, so that nothing but payloads can be missing. `TestStream` says the same of the
bytes of the other build: what the test connection has taken or finds in its buffer
(`Arrived`) is the stream from its first byte on, and what comes (`Coming`) goes on from there.

`build` chooses between the two builds the code has. On Windows the main loop takes the
events. In the other build nobody does, and one test connection takes its bytes from a
buffer under the lock of `conns`, which `dispatch_relay_message` holds while it waits for room
in `notify` (position `notify`; `LockFree` is the guard of everyone else).

### ProxyManager

`inner` is the value under the mutex of `ProxyState`; `cmd` is the command that holds, or
waits for, it; `file` is the key file, whose name is the same for all runs; `run[r]` is the
child of a start with its three tasks and `stats.connected`; `shown`, `events` and `answer`
are the dashboard, the status events under way and the answer of a poll. The mutex is
held across the steps of a command, but the child and the tasks of the run before do not
need it. One poll is under way at a time.

### Profiles

`file` is `profiles.json`: absent, emptied, damaged or whole. `handler[h]` is a handler of the
dashboard with the commands it still has to call; each command that changes something
is `Load` (read, parse, change the copy), `Open` (empty the file) and `Write`, with other
handlers' steps, failures or a restart of the app (`Crash`) between them. A write that was
not alone may leave the shorter text followed by the rest of the longer one. Every
access may fail, which ends the handler (`GivesUp`); a read has one more way to go wrong:
`Path::exists()` is false also when the file cannot be looked at, and `load_store` then answers
with the empty store, which the command goes on to write (`Load`). History: `told` is the store if
each completed write had made its own change and nothing else; `apart` says that no two handlers
have overlapped so far, `seen` that no file that was there was taken for none, `failed` that
some command has failed. `AloneIsExact` and `ShownIsStored` say which of these they need.

### Deploy

The files on the server (`bin`, `key`, `svc`), the unit systemd has loaded, the relay and
what it was started from, and the step, `needs_restart` and `key_hex` of the attempt. At
every step the SSH session may break, before or after the command had its effect; an
upload may leave part of the file. The exit status of most commands is not looked at by
the code; a command that ran is assumed to have done what it says.

`MCApp` runs `Deploy` and `Profiles` in one configuration. They share nothing, so in each
behaviour one of the two moves.

## Runs

Runs that pass:

| Run | Shows | Bounds |
|---|---|---|
| `conns` | payloads in order upstream, and downstream through the tunnel; a complete drain, capacities; a signalled Shutdown, and an entry lost to a Reset, end in a FIN | 1 flow, 1 connection, channels of 2, 3 payloads up, 2 down, the tunnel may be lost; with fairness |
| `conns_tables` | isolation of sessions that use the same connection id; no stale entry when a flow is opened again while its old tasks still run | 2 sessions, 2 tasks alive at once, 2 incarnations, channels of 1; symmetric in sessions and tasks, states compared without the history `told` (`Present`), which neither property reads |
| `sessions` | no dead channel in the table, only keys that were loaded, a key that a reload removed admits nobody any more, lost tunnels are torn down | 1 session, 2 keys with the same id, 2 pings, channel of 2; with fairness |
| `nat_up` | what the relay gets is what the client wrote; nothing acknowledged that was not taken | modulus 3, window 2, 3 SYNs, 2 bytes up, 1 down, segments of 1 or 2, losses in both rings, repeated SYNs, late reports on the connection before |
| `nat_down` | the NAT table implements `Flow`; both sides' numbers agree; closing entries go | modulus 8, window 2, 2 connections, 2 bytes up, 4 down, payloads of up to 3 in chunks of 2, no losses; with fairness |
| `tunnel` | however full the channels, control events get through in order; on Windows no receive loop and no handler waits for ever; the test connection's bytes are not swapped, repeated or skipped | every channel and the wire of capacity 1, 3 messages, the tunnel may be lost; both builds; with fairness |
| `app_files` | deployments: success means installed, a first success runs what it installed, keys are kept. Profiles: the active profile exists; a handler alone loses nothing, whatever failed before, unless a file was taken for none; the dashboard at rest shows the file | 3 attempts; 2 names, 2 values, 2 handlers at once, 3 clicks, 1 restart |
| `manager` | one proxy, its own key, an exit is noticed | 2 starts, 1 pong, 1 event under way |
| `manager_live` | exits and stops are shown in the end | 1 start; with fairness |

Why the bounds are enough. A full channel, an empty one and one in between exist with
capacity 2, and full and empty with 1. Interference between incarnations needs two tasks
of one flow; a third adds no new pair. That `UpstreamOrder` also holds across incarnations is the
theorem `UpstreamIsOrdered`: the run `conns` has one task. Sessions share nothing but keys and the UDP loop in
`RelaySessions`, and one `HashMap` in `RelayConns`. A modulus of 3 is the smallest with which
a window of 2 still tells old bytes from new, as 2^32 does with 64 kB, and every number is used
again within one connection; initial numbers 0 and `Modulus` - 1 put the wrap-around at the
first byte or leave it out. In `Tunnel` a
capacity of 1 makes every channel full as soon as it can be, and three messages
(Connected, Data, and Data or an end) put one into the channel, one into a loop and one on
the wire. A third deployment meets what two failed ones left; three clicks are an overlap
of two handlers and one that meets what they left.

`CHECK_DEADLOCK FALSE` stands in every configuration because the bounds let the environment
stop: the proxy has sent its last payload, the user has made the last start.

Runs that show where code and documentation differ (each is a finding in `PROJECT.json`,
with the line of the code and the sentence it does not keep):

| Run | The counterexample |
|---|---|
| `active_but_not_mapped` | a flow is opened again; the old task ends and removes the new task's entry |
| `test_connection` | three payloads arrive before the test connection takes the first: the receive loop waits for room in `notify` (1 here, 32 in the code) and holds the lock that `drain_rx` needs |
| `deploy_not_restarted` | the key is uploaded, the SSH session breaks, the next attempt only starts the running service |

Other places where the code does less than its comments suggest. The models contain the
behaviour; no run is spent on it:

- Connected is announced before the connection is registered (`relay.rs` 426, 454), so
  data the proxy sends at once may find no entry and be dropped; so is data for a full
  channel (`relay.rs` 381). What follows is forwarded: a hole in the stream, of bytes the
  client believes delivered (`Data` of `RelayConns`).
- A FIN removes the entry with its `pending_data` (`tun_windows.rs` 403): bytes
  acknowledged before the relay connected never reach the server (`Flow`'s `Connect`
  allows for it).
- `crypto.rs` 33 calls collisions of key ids harmless. No wrong key is ever accepted, but
  the key that was overwritten in the map is of no use to its owner (`Maps` of
  `RelaySessions`).
- Of two profile handlers at the same time one may undo the other's change or leave a file
  that cannot be parsed; from then on every command fails until the file is removed
  (`Profiles`).
- A `profiles.json` that cannot be looked at counts as absent (`profiles.rs` 32): the next save
  then writes a store with nothing but the profile saved (`Load` of `Profiles`).
- In development mode nobody takes `relay_events`, so after 16384 control events or fewer,
  with data, the receive loop waits for ever. Data and Shutdown that arrive between
  `drain_rx` and `is_shutdown` end the test connection without its last bytes.
  ConnectFailed and Reset remove the entry with its sender, and the test connection polls
  a closed channel without a pause (`TestNotified`).
- When the tunnel is lost, or the UDP socket reports an error, the receive loop and the
  write task end and nobody is told: the proxy goes on, acknowledges, and sends to nobody
  (`LoopEnds`, `WriterFails`).
- `protocol.rs` 67 calls Reset a force-close. The relay only drops the senders: the writer
  ends at its next poll, the reader sends on until the server closes (`ReadData`).
- The proxy takes messages by 4-tuple, so late messages of an old connection reach the new
  one on the same port (`Deliver`).
- The registration of a tunnel overwrites the datagram address with the TCP peer's
  (`RegisterTunnel`), until the next datagram.
- `relay.rs` 340 speaks of removing the session; only its channel is taken out
  (`HandlerCleanup`).
- Data goes by datagram while there is an address and no tunnel (`Choose`, `SendUdp`).
- A FIN is accepted whatever its sequence number, also behind a lost segment, and a
  repeated SYN is answered with another initial number (`FinSegment`, `Syn`).

## Fairness

- `RelayConns`, `RelaySessions`: weak fairness of the relay's tasks, which tokio polls
  when they are ready. `WriterStep` includes `write_all`, so its fairness assumes that a
  game server reads in the end or its connection fails. TCP alone does not see to that: a server
  that answers probes with a zero window for ever stops the writer, and then neither
  `ShutdownReachesServer` nor `OrphanIsClosed` need hold. Nothing else is assumed of proxies,
  servers or the network.
- `NatTable`: the write thread, the 5 s timer, and that the relay answers a Connect.
- `Tunnel`: tasks and threads run when they can, and the relay's read loop reads.
  `MainTakesEvent` has strong fairness because the main loop chooses between packets and
  events with tokio's unbiased `select!`, so packets without end cannot keep it from an
  event for ever. Nothing is assumed of what the relay says, of the network, or of the
  test connection's input.
- `ProxyManager`: commands end, tasks run, the dashboard takes events and polls every two
  seconds, and a process that was sent a signal exits. Nothing is assumed of the user, or
  of a child nobody kills.

## Proofs

Every safety property that a passing run checks is also a theorem, for every value of the
constants: any number of sessions, connections, tasks, runs, handlers and messages, any
capacities, any modulus. So is the refinement of `Flow`. The assumptions are the named
ones of the modules:

| Assumption | Why the code justifies it |
|---|---|
| `BoundAssumption`, `ClickAssumption`, `TaskAssumption`, `RunAssumption`, `NoOneAssumption`, `NameAssumption`, `FlagAssumption`, `BuildAssumption` | none of the code: bounds are numbers, flags are Booleans, a value that stands for "none" is none of the others |
| `CapAssumption`, the capacities in `BoundAssumption` | a channel has room for one message at least (tokio creates no other) |
| `KeyAssumption` of `RelaySessions` and of `Deploy` | every key has an id, every proxy a key, and some key directory is not empty; a damaged or missing key file is no key |
| `ModulusAssumption`: `Window < Modulus` | 65535 < 2^32, see `NatTable` above |
| `HandlerAssumption`: `Handler # {}` | the dashboard has handlers |

None of the properties is inductive. What each proof adds, and why it cannot do without:

**`RelayConnsProofs`** (`RelayConns`).

- `TypeCorrect`: the inductive form `TypeInv` adds that a flow the proxy knows was opened. The
  capacities need the guards `DataRoom` and `TxRoom`; `SendType` and `TaskReplaced` are
  the lemmas all steps share.
- `SessionsIsolated`, `EntriesAreLive`, `DrainIsComplete`: from `IInv == TypeInv /\ ConnInv`.
  `ConnInv` adds, for every task (`TaskOK`), which positions of connect phase, writer and
  reader go together, and that `due` never exceeds what was written or is still queued; for
  every entry (`OwnerOK`), that it holds the flow's own task, one that is live and has not
  finished unregistering; and for every queued message (`SenderOK`), that its task belongs to
  the session. The argument for `EntriesAreLive`: an entry is put there by `Register` of a
  task that starts both halves. Whoever unregisters a flow removes the entry whatever task
  it holds, so the reader's last step cannot leave its own entry behind; the writer alone may
  be gone, and then either it removed the entry itself or it was aborted by a reader that has
  still to do it.
- `UpstreamIsOrdered`: `UpInv` says that what a task has accepted (written, then queued) is
  increasing and that nothing in it is newer than the flow's last payload. The second part is
  what a new payload's place rests on, also when the table's entry is an older task's than the
  flow's.
- `DownstreamIsOrdered`: `DownInv` adds that nothing that came, or is about to come, through a
  tunnel (`Through`) is beyond what its task has announced (`Heard`). A task appends only what is
  beyond that, whoever else appends in between (`SendStepDown`). A delivery through the tunnel
  moves the head of the queue to the end of `told`, which leaves `Through` as it is
  (`HeadMoves`); a delivery without one is not part of it; a lost tunnel cuts it short
  (`FewerDown`).

**`RelaySessionsProofs`** (`RelaySessions`): `IInv == TypeOK /\ TunnelInv /\ KeyInv`. `TunnelInv`
adds to `ChannelHasWriter` that a handler past its cleanup left no channel in the table:
without it, aborting the write task could strand an entry. `KeyInv` adds that a handler past
authentication, and a UDP loop past the lookup, dealt with a key that was loaded; the key
may be gone from `keys` by then, never from `ever`. `RevokedKeysStayOut` is about what one step may
do: without a loaded key `KeyKnown` is false (`UnopenedGainsNothing`), so only who is past that
test already gets on. `SendType` shows that a stale copy cannot
overfill a channel. Of the maps of keys it uses one fact: whatever key an id is given,
it is one that was in the directory (`MapsAreKeys`).

**`NatTableProofs`** (`NatTable`, upstream): with losses in both rings, repeated SYNs and late
reports.

- Arithmetic first: `Quotient`, `Remainder`, `SameNumber` (numbers that are equal modulo
  `Modulus` and less than it apart are equal), `CountOn`, `Distance`.
- `UpstreamIsExact`: `Forwarding` counts what was given to the relay or waits for it, and ties
  the entry's next number to the count for as long as the client is there. That a segment
  the entry expects brings the byte after those taken, and not one 2^32 bytes away, needs
  the window and that the client has not been told of more than was taken. Hence
- `AckedBytesWereTaken`: `Acknowledged` says that the acknowledgements under way to the client
  rise from what it knows to what was taken (`Acknowledge`), and `Opening` that before the
  handshake is over nothing that follows its answer acknowledges more than the SYN. When the
  client has sent FIN and the entry is gone this stops being true: a FIN is answered whatever
  is missing before it.

**`NatFlowProofs`** (`NatTable`, downstream and the contract). What can break here is listed as
hazards: the adapter drops a segment, and the proxy never sends it again; the client repeats
its SYN, and gets another initial number; reports of the connection before come late. The
theorems say that there is nothing else.

- `NumbersAgree`: unless the adapter drops or the SYN is repeated, the numbers agree.
  `Downstream` says that the segments under way follow each other without a gap (`Links`) from
  the number the client expects, or from the answer to its SYN, to the entry's next number.
  `Sends` is what a step that sends to the client does to that; `LinksMore` and
  `LinksNext` are its two lemmas. Segments to the proxy may be lost, and reports may be late.
- `ContractKept`: `Spec => KeepsContract`, when in addition no report comes late. `Relayed` ties
  the entry to the relay's side: an entry is closing exactly when the server is over, it has
  not been told that the client is done, and it knows of the connection when there is one.
  `Content` follows the bytes: the segments under way carry, each in its place (`Carries`), the
  server's bytes from the first the client has not read, all of them as long as there is an
  entry, and the end of the stream only when it is due (`Done`). Each step is then a step
  of `Flow` or one that neither application sees: `FlowOpens`, `FlowWrites`, `FlowResets`,
  `FlowConnects`, `FlowReports`, `FlowHears`. The initial states map to `Flow`'s.
- `StreamsAreKept`: what the contract, whose steps say it one by one, makes of whole behaviours
  (`Promise`): the server's side has a prefix of what was taken, all of it while both are
  there; the client has a prefix of what the server said; and a client that has not hung up
  reads the end only after the last byte. The proof uses nothing of `NatTable` but its types
  and `ContractKept`: `PromiseKept` goes through the steps of `Flow`.

**`TunnelProofs`** (`Tunnel`): `TypeCorrect`, for all channels. `ControlIsNeverLost`: `InOrder` says
in addition to the property that `said` is at least every number under way, that a message
the receive loop only tries to hand over is Data, and that the UDP loop has nothing while the
tunnel is up, for else two loops would feed the events. `TestStreamIsExact`: `Streaming` ties what
was not applied yet (`Exact`) to what the relay has said, and what was applied (`Stored`) to
the number of bytes, so that the first Data cannot come before Connected.

**`ProxyManagerProofs`** (`ProxyManager`): all four from one `IInv`. `CmdOK` and `StarterOK` say
what the mutex is for: a start that has stopped what ran finds the state empty until it
fills it, and the key file is its own from the write on. `HolderOK` says that the running
proxy has not been signalled, and is cancelled and without its key file only on the way to being killed;
`LooseOK` that a child nobody has signalled is the running one or the one being
started. `RecordOK` is for `ExitsAreNoticed`: a log task that was not cancelled ends by clearing
the connection.

**`DeployProofs`** (`Deploy`): `IInv == TypeOK /\ Installed /\ Begun /\ FirstTry`. `Installed` says
what each step that has passed left on the server; `pc = "upload key" => key \notin Key`
in it is what `KeysAreKept` rests on. `FirstTry` says that until a deployment fails, a running
relay was started from the files on the disk unless `need` is set. A failure breaks exactly
that, and `deploy_not_restarted` shows what follows.

**`ProfilesProofs`** (`Profiles`). `TypeCorrect` and `ActiveExists` come from `IInv == Shape /\
ActiveIsSaved`: `Shape` adds to the types that what a handler has still to do is what is left of
one click (`Fits`), without which `Changed` might be asked to save a profile with no name;
`ActiveExists` then rests on `set_active_profile` looking the name up in the copy it changes,
and on a delete taking the active name back in the same copy. `AloneExact` adds `Alone`: while
handlers have not overlapped at most one runs, a file that does not exist means that nothing
was written, and, if no file was taken for none, a copy about to be written is what its command
makes of `told`. A write that fails leaves a file nobody can read, and that file stays: this is where `Readable` is
needed. `ShownExact` adds `Shows`: while a handler runs, what is shown may be ahead of the store
by the choice it has still to save, and the file may be unreadable until its write is done,
or until a restarted app has loaded it.

Model-checked only: the liveness properties (`ShutdownReachesServer`, `OrphanIsClosed`,
`TunnelTornDown`, `ClosingIsRemoved`, `KeepsMoving`, `DeathIsShown`,
`StopIsShown`), because the prover handles neither fairness nor ENABLED. Each of these
inductive invariants that is not a property itself was model-checked before it was proved.

## Not modelled

Serialisation and encryption (messages are values, a packet sealed with a key is opened by
that key alone), packet parsing, building and checksums, adapter and route set-up,
argument parsing, pings of the proxy and its counters, log texts, Windows privileges, the
updater, the dashboard's log and presentation, entry points and build scripts. They are
calls of libraries and of the system, or pure functions of one packet with no state.
Timestamps and the round trip time are no part of any property. Process ids are not
modelled, so neither is a signal to one that was reused.

`RelayConns` does not model two tunnels of one session, because a proxy opens one and
never again.

## Plan

All modules of the table are written, and every safety property is proved. In the order
of importance, what could be added:

1. `RelaySessions` with `RelayConns`: an abstract specification of one session's two streams
   that both implement, so that the order proved for a channel and the channels that
   come and go with tunnels are stated together.
2. The safety halves of the liveness arguments: for `KeepsMoving` that no two of `Tunnel`'s
   processes wait for each other on Windows, for `TunnelTornDown` that a handler past its loop
   holds nothing it waits for.
3. `NatTable`: an invariant for what remains of `InStep` after a drop (the client's number is
   behind the entry's by what was dropped).
