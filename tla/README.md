# HyX in TLA+

This directory holds the formal model of HyX, the peer-to-peer file transfer
of this repository: TLA+ modules that follow the Rust code, TLC configurations
that model-check them on small instances, and theorems whose proofs TLAPS
checks for every value of the constants. `PROJECT.json` lists the same things
for tools: components, runs, mutants, the line each definition models, findings,
hazards and theorems.

## The system

| component | source | state it keeps | operations | module |
|---|---|---|---|---|
| Folder transfer, sender | `core/src/session.rs` (`send_path`), `transfer_folder.rs` (`send`), `transfer_file.rs` (`send_file`) | `FolderTransferState` in memory and in a JSON state file, retry counter, running hash, batch of frames | scan, offer the manifest, send files as batches on uni-streams, compare checksums, retry, resume | `FolderTransfer` |
| Folder transfer, receiver | `cli/src/receive.rs`, `transfer_folder.rs` (`receive_folder`), `transfer_file.rs` (`receive_file`, `write_loop`, `ChunkWriter`) | manifest, chunks seen, flush buffer; a detached writer task with a bounded queue; `.partial` and final files | accept, reject, skip, receive, write, finalize, compare, accept again | `FolderTransfer` |
| Sender's chunk loop | `transfer_file.rs` (`send_file`), `bandwidth.rs`, `compression.rs`, `progress.rs` | token bucket, ratio statistics, batch, byte counters | compress or not, wait for tokens, batch, flush, count | `SendLoop` |
| Rendezvous server and client | `rendezvous/src/server.rs`, `client.rs` | map code → waiter, semaphore, one task per connection | register, wait, match, relay match, expire, clean up | `Rendezvous` |
| Relay | `rendezvous/src/relay.rs` | sessions by token, reverse index by address | reserve, hello, forward, sweep | `Relay` |
| Session establishment, STUN, handshake | `core/src/traversal/`, `handshake.rs`, `session.rs` | a UDP socket, the connections in the race, the one kept | STUN, register, hello to the relay, race connect against accept, Hello/HelloAck/Config/ConfigAck | `Establish` |
| Discovery | `core/src/discovery.rs`, `network/udp.rs`, the bridges' `discovery.rs` | peers, echo throttle, probe back-off, activity | broadcast, receive and echo, clean up, probe, start, stop | `Discovery` |
| Transfer history | `core/src/history.rs`, `cli/src/history.rs` | a JSON file, its lock and its `.tmp` | append under the lock, quarantine, show without it | `Stores` |
| Identity and trust store | `core/src/identity.rs`, `known_peers.rs` | key and certificate files, known fingerprints | load or generate, verify or pin | `Stores` |
| Bridges | `mobile/src/lib.rs` (JNI), `packages/hyx_isolates/` (FRB) | one `ACTIVE` abort handle, a task and a channel or stream per call | listen, connect, pair, send, cancel, block | `AppTransfers` |
| Chunk state | `core/src/state.rs` | chunk bitmaps | mark, next chunk | — |
| Front ends, CLI tools, vendored `quinn-proto` | `android/`, `app/`, `cli/`, `vendor/` | — | — | — |

How they interact. A sender and a receiver first get a QUIC connection: directly
on a LAN (Discovery), or by a shared code (Rendezvous), which hands each peer the
other's address (punch) or a token for the Relay. After the handshake the two
sessions exchange one message at a time on a control stream, and file data on
uni-streams; the receiver's network task hands data to its writer task through a
bounded channel. The control stream, the uni-streams, the writer's channel, the
rendezvous map with its oneshots, the relay's locked maps, the two connections of a
punch, the bridges' `ACTIVE` handle and the files that several processes share are
the places where orders and failures matter.

What is hard, and what would make each part right (the full list, with lines, is
under `hazards` in `PROJECT.json`):

* **Folder transfer.** A connection may go away between any two steps, on either
  side of a reply; a retry must neither lose nor duplicate data; the state file may
  be missing, torn or old; the writer of a lost connection lives on. Right means:
  success and "completed" are never claimed of bytes the receiver does not hold,
  a final file is whole, a claimed chunk is on the disk, and every send ends.
* **Sender's loop.** A chunk larger than the bucket borrows, sleeps end late, a
  batch is lost with its connection. Right means: the rate is kept, a chunk counts
  as complete only when its batch was sent, the bar never stays behind.
* **Rendezvous.** Each handler gives up the lock several times and acts on what it
  saw before. Right means: matches are exclusive and mutual, each client is
  served or let go, Expired is told only for a reason, a waiter is not removed by
  somebody else's cleanup. One `accept()` that fails ends the server.
* **Relay.** UDP repeats, delays and reorders, the sweep runs beside the forwarder,
  and the index is a second copy of the slots. Right means: the copies agree,
  data only reaches a partner that showed the same token, idle sessions go.
* **Establishment.** Both sides race two handshakes and should keep the same
  connection; answers of two STUN servers, closes and third parties mix. Right
  means: a session is shared with the right peer, nobody waits for ever.
* **Discovery.** Throttled echoes against probe rounds, lost beacons, devices with
  several addresses, stale addresses, echoes of echoes. Right means: neighbours find
  each other, those who left go, echoes die out, an online target is found.
* **Stores.** Processes of one account write the same files, two of the three
  without a lock, and crash between any two system calls. Right means: no record,
  no peer and no identity is lost.
* **Bridges.** One cancel handle for all transfers, an address that changes hands
  between the beacon and the dial, a peer that falls silent. Right means: each call
  returns, or can be cancelled, and tells what happened; cancel reaches a transfer that
  runs alone; a pin is kept, or the app is told of the other certificate.

## Modules

| module | models |
|---|---|
| `Delivery` | abstract specification: files arrive whole, stay, and success means all arrived |
| `FolderTransfer`, `MCFolderTransfer` | both sides of a folder transfer, the connection, the writer tasks, the disk, the state file |
| `SendLoop`, `MCSendLoop` | compressor, limiter, batches and progress of the sender |
| `Rendezvous`, `MCRendezvous` | the pairing server, one handler per connection |
| `Relay`, `MCRelay` | the UDP relay |
| `Establish`, `MCEstablish` | two peers from nothing to a session |
| `Discovery`, `MCDiscovery` | managers, beacons, echoes, probes |
| `Stores`, `MCStores` | the files that the processes of one account share |
| `AppTransfers`, `MCAppTransfers` | the calls an app makes through JNI or FRB |
| `FolderDelivery` | the invariant behind the theorems about delivery |
| `FolderTransferProofs`, `SendLoopProofs`, `RendezvousProofs`, `RelayProofs`, `EstablishProofs`, `DiscoveryProofs`, `StoresProofs`, `AppTransfersProofs` | theorems |

`FolderTransfer` implements `Delivery` (`Delivers`). The modules meet at their
edges: a match of `Rendezvous` is the step `Match` of `Establish`, whose hellos are
those of `Relay`; the session that `Establish` ends in is where `FolderTransfer`
starts (`Connect`) and one step of `AppTransfers` (`Meet`, `Move`).

### FolderTransfer

`spc` is where the sender is: `start` (top of the retry loop), `awaitReady`, `next`
(top of the file loop), `send`, `flushing` (waiting for `stopped()` of a uni-stream),
`awaitSum`, `error` and `saving` (the error arms), `backoff`. `rpc` is where the
receive loop is: `accept`, `info`, `file`, `recv`, `finalizing`, `awaitSum`,
`complete`, `dead`. `writers[e]` is the write_loop task started on connection `e`;
several may be alive. `toR` and `toS` are the control stream's two directions,
`unis` the uni-streams not yet accepted.

Abstractions. A file is a sequence of chunks; a chunk is the version of the source
it was read from, so editing a file changes the version and a hash is the sequence
of versions hashed (collisions are left out). Chunks count from 1. Frames of one
batch travel in order on their stream. Compression, paths and byte counts are left
out. A lost connection loses a suffix of each control direction, possibly cutting a
message in two, and possibly the one stream that is not acknowledged; what arrived
stays readable. Frames of a stream are taken one at a time; the writer interleaves
with everything. `verified[f]` is a history variable: the hash that was compared
when `f` was marked complete.

The receiver's disk may fail under any writer (`DiskFails`): it leaves the file as it
is, with a torn chunk (`Torn`, a hole unless the same bytes were there), or, in
`finalize`, renamed but not read back. The write_loop then ends, and the receiver
learns of it only where it next hands it frames or waits for the hash
(`NeedsWriter`), which ends the receiver; a writer without a connection fails
unseen. A writer that has ended but is not needed yet cannot be told from a slow one,
so the failure is one step taken where it shows. What a write that succeeded has put
on the disk stays there.

One abstraction narrows what is claimed: an edit of the source changes all of a file
at once.

### SendLoop

One sender, its files one after the other. Sizes are counted in units and time in
the time a unit takes at the limit, so the bucket gains one token a tick. A codec
is a library: a chunk compresses to any size up to `Grow` more than it has. A
connection may be lost at each flush and in the exchange of checksums; `Lost` is
send_path trying again, and `Open` starts either from no chunk of the file (the
state file has dropped them) or from those that were called back as complete.
A step and a sleep may take up to `MaxLag` ticks longer than they should.

### Rendezvous

`pc[c]` is where the handler of connection `c` is. Each critical section on
`waiting` is one action (`Lookup`, `PutBack`, `Insert`, `Cleanup`), and so is each
write and each wait. A waiter is named after its handler, its oneshot is `mail[c]`;
dropping the sender delivers `dropped`. `expired` grows on its own: the order in
which TTLs pass is left open, which allows more than equal TTLs would. A device
stands for its `device_id` and its certificate. A write may fail at any time. The
relay is a table of reserved tokens; a token that is in use is refused. `AcceptFails`
is the error path of the accept loop: `run()` returns, the process ends, and every
connection that is open or queued ends with it; a client that was told its match
before keeps it.

### Relay

One datagram at a time, as in `forward_loop`; `sending` is the datagram held after
the lock was given up. Hellos stay in `hellos` for ever, so they may be repeated or
come late. The rate cap and a failed `send_to` are lost datagrams, which change
nothing. `now` is a clock; a sweep that is due holds it up (`Tick`), which states
that the sweep runs on time.

### Establish

A connection is named after the peer that dials it; `client[c]` and `server[c]` are
its two ends, `wire` the packets on their way. `stage[p]` goes from `stun` over
`register`, `hello` (relay only) and `race` to `shake` and the steps of the
handshake, and ends `up` or `failed`. The future that loses the race is dropped,
which closes its connection; the close may be lost. The stranger is a third party
that dials the smaller device. `Match` leaves the rendezvous as a choice of whom it
tells. `calm` is a history variable: nothing was lost or late and nobody else called.

### Discovery

Time is discrete and everything due happens before the next tick, so a datagram
takes no time or is lost. Ages saturate at the duration they are compared with,
so time has no bound. `at[d]` is the set of a device's addresses, one for each network
it is in; a move changes it. A manager sends by a socket for each network. A multicast
beacon leaves each with that network's address and is copied to every other manager of
its subnet; a unicast goes to an address, where any of the managers there may take it
(`SO_REUSEPORT`). The sockets are bound to the port and to no address, so the system
chooses the source of a unicast: any nonempty set of the device's own addresses
(`Sources`). A beacon of one's own device is ignored (`Ignore`). `tale[m]` is the history
of the probe of `m`: whether its target was online and neither end was disturbed
(`clean`: moves, stops, a second manager beside the prober), whether it owed the prober
an echo (`quiet`), whether it was heard from another address (`other`), and how many
beacons to it (`unasked`) and from it (`unheard`) were lost.

### Stores

A process runs once: it gets its identity, may pin a peer, transfers, and appends
its record under the lock; or it is `hyx history` and reads without it. It may
crash before any system call, and each of those of the identity and the history may
fail with the same effect (`Stop`). A crash is of the process, not of the machine:
what is written stays. A file that is created but not filled, or that a second
writer left too long, is `Torn`. The disk may damage the history once: it no longer
parses and is moved aside, or it is emptied and taken as no records.

### AppTransfers

`caller[c]` is the thread that made call `c`, `task[c]` the spawned task, `chan[c]`
what the task has said: the channel a JNI call drains, or the stream of an FRB one.
`active` is `ACTIVE`; `doomed` are the tasks whose abort handle was used, which die
when the runtime comes to them. `port` is the listening port: a dropped endpoint
drains before it is free. A transfer and a pairing are one step each, with either
outcome; the step that ends a transfer (`Move`) need never come, since the receives of a
transfer have no timeout and keepalives hold the connection of a silent peer up.
`Dial` pins inside the TLS handshake; `FallBack` is the arm of the Flutter `connect` for
`FingerprintMismatch`, which it gets from a peer that presents the pinned certificate and
claims another in its HelloAck, and which dials whoever answers next. `holder` and
`blocked` are the world: addresses change hands, and the app blocks devices.

## Runs

| run | asks | bounds |
|---|---|---|
| `retry` | types, three safety invariants, the refinement of `Delivery`, and that a send ends, with lost connections, a failing disk, an interrupt and a resume or a second send (`RenameFindsThePartial`, `SuccessMeansDelivered`, `FinalFilesAreWhole`, `Delivers`, `SendTerminates`) | 2 files of 3 and 0 chunks, batches of 2, 2 faults, 2 attempts, 3 connections, 2 launches |
| `edits` | an edited source never makes a success, or a completed file, out of other bytes (`SuccessMeansDelivered`, `DoneFilesAreDelivered`) | 2 files of 2 and 1 chunks, 1 edit, 1 fault, a rejection, a receiver crash and restart, a state file keyed by path, 2 launches, writers drained before a new connection |
| `limits` | the rate, what completion means, the bar (`RateIsKept`, `CompleteMeansSent`, `ProgressCovers`) | 2 files, one longer than the sample, one with a chunk larger than the bucket, a lag of 1, 3 attempts |
| `rdv_pairs` | matches are exclusive and mutual, Expired has a reason, each client is served or ends with a server whose listener failed (`PairsAreExclusive`, `ExpiredHasReason`, `EveryClientIsServed`) | 3 connections of 2 devices under one code, 1 token, 2 permits |
| `relay_forward` | index, routing and sweep (`IndexIsInverse`, `OnlyPartnersHear`, `IdleSessionsGo`) | 2 tokens, 3 addresses, 4 hellos, time up to 3 |
| `punch` | NAT, sessions, termination (`SymmetricIsNotPunched`, `OneSession`, `EstablishEnds`) | 2 peers, each way to meet, each NAT, another version or not, a stranger or not |
| `neighbours` | types, what makes a probe miss a device that is online, echoes die out, who knows whom (`RoundsMakeUpForLoss`, `EchoesDie`, `NeighboursKnowEachOther`, `GonePeersGo`) | 2 devices, 3 addresses in 2 subnets, 3 managers of which one probes in 2 rounds, 1 loss, 1 move, 2 starts |
| `stores` | records, reader, identity, peers (`NoRecordIsLost`, `HistoryIsReadable`, `IdentityIsOne`, `PeersAreKept`) | 3 processes of any kind, 2 peers, 1 damage (the history does not parse, or is empty), crashes anywhere, up to the second of two races |
| `phone` | types, cancel, pins, results, calls return (`SoleTransferIsActive`, `PinIsKept`, `ResultIsTrue`, `EveryCallReturns`) | 2 calls of any kind of either bridge, 2 devices of which a given one starts at 1 address, 1 visit, 1 change |

Each of these passes. Why the bounds are enough for what they ask. Two faults and
three connections let an old writer, a retry, a send that gives up after it and the resume of
that send meet; an empty
file and one of more than one batch are the two ends of the chunk count; a queue of
one batch makes the writer lag by a batch in the queue, one in hand and one in the
buffer. Three rendezvous connections are a waiter, its partner and a retry or a
stranger, and two permits let waiters hold them all. Two sessions and three addresses
let an address be confused between them; a timeout of one tick and a sweep each tick
let three sweeps happen. `Establish` has no bound but its two peers and its one
stranger, and retransmission adds nothing that `wire` does not allow.

In `neighbours` the second device is in the network of the first, or in another as well;
its third address is also where it may move. With `MaxStarts = 2` two managers at most run
at once: any two of a prober, the manager beside it that can steal its echoes, and the
manager it looks for, or one of them twice. The code's durations are: probe rounds that send
at 0, 0.55 and 1.2 s and end at 2.05 s; echo throttle and fast broadcast 2 s, slow broadcast
and sweep 5 s, cooldown 10 s, stability window 15 s, time to live 60 s (10 s in `hyx
discover`). The run keeps their order, each with the smallest number: rounds that send at 0
and 1 and end at 2; throttle and fast broadcast 2; slow broadcast, sweep and cooldown 3;
stability window and time to live 4. The pause after a round, 0.1 to 0.4 s, has no tick of
its own. The theorems do not depend on durations, except that an entry outlives the pause
of a round and a poll.

Three processes are two that clash and one that reads or
comes after; `OneRace` cuts a run once both the identity and the peers were raced,
where the properties of those two ask nothing any more and the history, which reads
neither, can do nothing it cannot do without the races. Two calls are one that may be cancelled and one that overlaps it or
holds the port.

Each property has a mutant, an operator beside the definition it changes, named
after the mistake it makes (`SendChecksumMarksDone`, `PutBackOver`, ...), under
which the run must fail.

The following runs show where the code does not do what its comments or docs say;
each is explained under `findings`:

| run | comment refuted |
|---|---|
| `stalechunk` | both hashes compared equal means the data is intact (`ComparedFilesAreIntact`) |
| `rdv_generation` | a cleanup never drops a fresher waiter (`FresherWaiterStays`) |
| `cross` | whichever direction's handshake completes first is the connection both keep (`BothKeepTheFirst`) |

`stalechunk` has its cause in `write_loop`, which is detached: nobody waits for it
when a connection is lost. `edits` shows that with the writers drained the transfer
is right even when the source changes; that assumption is the action constraint
`WritersDrainFirst`. `cross` needs no fault, only a round trip of more than 100 ms:
both sides complete their own connect before the other's control stream arrives.

### Also seen

Met while modelling. Those in the models are there as the code does them.

* Folder transfer: the same old writer can grow a `.partial` again after it was cut
  to size (`transfer_file.rs:722`). `max_attempts = n` makes n - 1 retries
  (`reconnect.rs:78`). Ctrl+C promises a state file that is up to date
  (`cli/src/resume.rs:87`) but none is written. Whether a disconnect is graceful
  depends on the side of a reply it falls on (`cli/src/receive.rs:150`, `:154`). The
  size check of pending files on a resume hangs on bitmaps that every save has
  cleared (`transfer_folder.rs:338`, `:343`).
* Sender's loop: a limiter is made per file (`transfer_file.rs:113`), so each file
  gets a fresh two-second burst and a folder of small files is not limited. Progress
  counts files and chunks again on a retry or resume (`transfer_folder.rs:293`), and
  the history records that number.
* Rendezvous and relay: a first peer whose TTL passes while its match is being
  written is told Expired and its partner Match (`server.rs:304`). One failed
  `accept()` ends the server with everybody who is waiting (`server.rs:157`). The second and
  third of a peer's hellos are forwarded to its partner (`relay.rs:305`). The rate
  cap's bucket holds half a second, so a larger datagram never passes
  (`relay.rs:292`).
* Discovery: three ways in which a probe misses a device that is online, with nothing
  else wrong, where the comments promise that a single lost packet is tolerated
  (`discovery.rs:41`, `:282`) and that an online device is found (`:276`). The target's
  one echo is lost: the throttle of two seconds is set before the echo leaves and covers
  all rounds, so no later round gets another (`:167`). The target echoed to this address a
  moment ago, for an earlier probe or a discover, and is still throttled (`:163`). The
  target, in two networks, is first heard from its other address, which its entry then
  keeps (`:188`, compared at `:306`). In the model these are what the conditions
  `unheard = 0`, `quiet` and `~other` of `RoundsMakeUpForLoss` leave out; without any one of
  them TLC finds the probe that fails. A moved peer that is heard late from its old
  address is missed in the same way. Each failure starts a cooldown of ten seconds, in
  which every probe of that address is `None` at once (`:319`).
* Stores: two processes that pin at a time may lose a peer or leave a file that does
  not parse (one temporary name, no lock). A crash within the identity's two writes
  leaves a torn certificate that makes every later start fail, and two first starts
  may leave the key of one with the certificate of the other. `verify_or_pin`'s only
  caller presents the fingerprint it claims, so the store never detects a change. Two
  quarantines of one second share a name.
* Bridges: of two overlapping calls the later owns `ACTIVE`, and the first JNI call
  to end clears the other's handle. A cancel between spawn and track is missed.
  Cancel's doc promises an event, none is emitted; a blocked device is told Failed
  twice. `start_listener` binds a new endpoint for each accept, which fails while the
  old one drains and ends the listener, where its comments (429-431, 472) say the
  endpoint stays. The doc of the Flutter `connect`
  (`transfer.rs:487`) promises that it falls back to trust on first use when the peer has
  changed its identity. It does not: a certificate that is not the pinned one fails inside
  the TLS handshake as `Error::Quic` (`quic.rs:129`), which takes the last arm (`:641`),
  and the user is told that the transfer failed. The arm for `FingerprintMismatch` (`:612`) is
  reached by a peer that presents the pinned certificate and claims another in its
  HelloAck (`handshake.rs:89`), after which whoever holds the address is accepted and the
  app told of its certificate. A peer that is silent in a transfer keeps
  the call until it is cancelled (`transfer_folder.rs:309`).

## Fairness

`FolderTransfer.Fairness`: the sender, the receiver and each writer take steps as
long as they can, which is what tokio does for a task that is ready. Nothing is
assumed of the user, the network or the editor. `SendTerminates` does not assume
that a reconnect succeeds, only that the sender goes on after its backoff.
`Rendezvous.FairSpec`: handlers run, a timer that is set fires, and the accept loop
serves each connection in the backlog for as long as `accept()` does not fail; it may fail
at any time, and then everybody's end is that of the server. `Establish.FairSpec`: tasks run, the server
answers and the timers of punch, handshake and STUN fire; each is shorter than
QUIC's idle timeout, which is therefore left out. `Discovery.FairSpec`: what is due
is done and time goes on; nothing is assumed of losses, moves, starts and stops.
`AppTransfers.FairSpec`: per call, its thread and its task run, and a dial and a pairing
have their timeouts; nobody need dial a listener, nobody cancel, and no peer need answer
in a transfer. `Relay`, `Stores` and `SendLoop` have no liveness
property: the relay's sweep is bounded by the clock, a process may crash for good,
and the loop's end is part of `SendTerminates`.

Deadlock is checked unless a cfg says otherwise. It is switched off where an
edited file may leave both sides waiting on a live connection (`stalechunk`,
`edits`); in `rdv_pairs`, whose liveness property says it; and where the system
ends for good with everything done, failed or used up: `punch`, `cross`, `stores`,
`limits`, `phone`.

## Proofs

Each proof module assumes only the named assumptions on the constants of the module
it extends: any number of files, chunks, connections, processes, sessions, addresses
and calls. None uses fairness.

`FolderTransferProofs` proves `TypeCorrect` and `RenameCorrect` from one inductive
invariant, `IInv`. Types alone are not inductive: `finalize` takes the hash of the
file it renames, so its type hangs on the `.partial` being there, and that hangs on
what the other writers may have done. `IInv` therefore adds `ReceiverIsSomewhere`
(past the accept there is a connection, in the middle of a file there is a file) and,
of each writer, `WriterHoldsItsFile`: a writer that has not been replaced has its
file under the name it has for it; a writer told to finalize is the one of the
current connection, with the receiver waiting for it and its channel open; and while the receiver still
receives, its writer's channel is open and its file still named `.partial`. The last
part is what shows that an abandoned writer, which may go on writing for as long as
it likes, never renames: only a writer that is told to does, and `PeerDisconnected`
never tells one. The proof types the operators on the data first (`NextFile` by the
well-foundedness of `<`, `Cut`, `Truncate`, `WriteAt`), splits `TypeOK` into parts a
step leaves alone or changes together, and then goes action by action.

Its second part, with the invariant of `FolderDelivery`, proves that the transfer does
its job: `FinalFilesCorrect`, `DoneFilesCorrect`, `SuccessCorrect`, and `TransferDelivers`, that
it implements `Delivery`. All four assume `KeepState` (the sender has a state file, as
`hyx send` does) and speak of a source nobody has edited yet (`edits = 0`; for the
refinement `MaxEdits = 0`); nothing is assumed of losses, crashes, restarts, retries,
resumed sends, failing disks, or of how many writers are left behind. The invariant is `Delivering`.

* `SenderKnows`: the sizes in memory, in the state file and in the manifest are those
  of the source; a retry finds a connection that is new or gone; the sender is at the first
  file that is not done, and its batch and running hash are of that file.
* `TheyAgree`: a manifest on its way is alone; once it is taken, sender and receiver
  agree which of the files ahead are done, and the receiver's checksums come in the
  order the sender waits for them, so that no late answer is taken for another file's.
* `NothingLost`: the frames in flight are of the current file, each chunk once and in
  rising order, after all the receiver has seen and before all the sender has yet to
  send. This is why a chunk that is counted is never one that will be written again
  and why no frame of a file meets the writer of the next.
* `DiskIsSound`: a `.partial` holds source chunks or holes, a final file is the source
  file, whoever writes: a writer an earlier connection left behind writes chunks of its
  own file, and on an unedited source these are the same bytes. What is seen is on the
  disk or on the way there (`SeenIsKept`), so when the channel is drained the file is
  whole and the rename is safe (`FinalizedIsWhole`); what is done is final and was
  hashed (`DoneIsDelivered`). A disk that fails only makes holes, and only in a
  `.partial` (`FailingDisk`), whose writer is gone: the next one writes them again.

The proof starts with lemmas on queues seen as sets and on what a lost connection may
lose (`Less`), and then goes through the steps. With an edited source `DiskIsSound`
fails, as the run `stalechunk` shows.

`SendLoopProofs` proves `RateIsAlwaysKept` from `RateInv`, whose heart is `Account`:
what passed and what is left in the bucket are at most the burst and the time up to
its last update, and a sleeper's frame is paid for by the end of its sleep. A late
wake only adds time, and the cap only takes tokens. `CompleteIsSent` adds `SentInv`:
the chunks of the file before the one in hand are complete or in the batch, and what
is in the batch is of this file. `ProgressAlwaysCovers` is about sums of chunk sizes,
which no prover here can do by induction, so the model has them as cardinalities: the
units of a set of chunks are pairs of a chunk and a number below its size (`Units`), a
sum is how many there are, and disjoint sets add up. The invariant `CoverInv` counts
what is in the batch as well as what is on the wire (`AtLeast`: a frame is counted as
it is appended, so a lost batch is counted but not sent), and knows of the first attempt
that nothing is counted twice (`Exactly`).

`RendezvousProofs` proves `TypeCorrect`, `PairsAreAlwaysExclusive` and
`ExpiredAlwaysHasReason`. The invariant says of each handler what it knows of itself
(`Role`), that its token is reserved for the two (`Reserved`), that it is told whom
it took or what its oneshot got (`Answered`), that a match in a oneshot comes from
the one who took it (`Woken`); of the map, that a waiter is under its own code
(`Queue`); and, which is the point, that a waiter taken by somebody is taken by
nobody else and is not in the map (`Sole`). A waiter that is put back is no longer
taken, which is why `PutBack` keeps it. `ExcuseInv` follows a oneshot from the step
that drops it to the answer: reasons never go away, because a handler writes its last
answer once and registers once.

`RelayProofs` proves four theorems. `TypeCorrect` is inductive as it stands.
`IndexCorrect` needs it: lemmas say what a join, a forward, a reservation and a sweep
make of the sessions (`JoinFillsOneSlot`, `ForwardOnlyRefreshes`, `ReserveIsFresh`,
`SweepRemoves`), and a join is only taken by an address that has no session, so two
slots never claim one address. `ForwardingCorrect` is strengthened by `SlotsAreEarned`:
who sits in a slot has shown the token with that slot's fingerprint, and the two
fingerprints differ; the datagram held after the lock was given up then stays right
although its session may be gone, since hellos only grow. `SweepCorrect` is
strengthened by `SweptInTime`: after the last sweep nothing was older than the
timeout, and every step since leaves a session's last sign of life or sets it to now
(`YoungerStaySwept`).

`EstablishProofs` proves three theorems of two peers with any NATs and versions, and
lost or late messages. `TypeCorrect` needs to know that a peer that talks has kept a
connection (`KeptIsThere`). `SymmetricIsNeverPunched` follows the ports a peer was told
to the match: both are mapped ones when it registers (`PortsAreMapped`), two that differ
are a symmetric NAT and two that agree are not, and nobody dials before the match
(`NobodyDialledYet`), after which the relay was chosen (`RelayWasChosen`).
`SessionIsAlwaysOne` rests on what a message and a stage say of the other side
(`HandInv`): words of the client on a connection mean that it kept this one, answers
that the server kept it and has seen the client's version, so the two agree before
either goes on (`ServerKnows`, `ClientKnows`), and the last answer means that the server
is up (`AckMeansUp`).

`DiscoveryProofs` proves `TypeCorrect` and `RoundsAlwaysMakeUpForLoss`, among any number
of devices, addresses and managers, whatever is lost. What keeps an undisturbed probe
going is the invariant `FoundInv`. A probe always has a hope left: the target owes an echo
to each address of the prober, an answer is on its way, or the target was heard and its
entry will be in the table at the next poll, because it is younger than the time to live
by more than that (`Ready`, `Answered`, `Seen`). And a round is only ever missed at the
price of a beacon: `unasked` is at least the number of rounds that are over, since a probe
that still arrives (`Asked`) is answered by whoever owes the echo before time goes on
(`OtherHearsKeepsGood`), and one that does not is counted (`LoseKeepsGood`). A last round
that is missed has then lost as many beacons as there are rounds. The conditions of the
property are the three ways in which the code does fail (an answer is lost, no echo is
owed, another address is heard: Also seen), and a target or a prober that moves, stops or
gets a sibling.

`StoresProofs` goes in four stages. `TheLockIsHeld` (the lock is whose process is
between the read and the release) and `OwnerHasAll` (the owner holds, in memory, in its
temporary file or in the history, its record and all that was acknowledged and not
moved aside) give `RecordsAreKept`. `ReadersSee` (while the disk is sound nothing is
quarantined, the history never goes away again, and what a reader has to see was
acknowledged) gives `HistoryIsAlwaysReadable`. `IdInv` (nobody generates once there is
a certificate, nobody reads before) gives `IdentityIsAlwaysOne`, and `PeerInv` (the
temporary file is not the store, and the one process that pins knows all that is
pinned) gives `PeersAreAlwaysKept`. The four type the state (`TypeCorrect`).

`AppTransfersProofs` proves `PinIsAlwaysKept` by following a record from the call to
the exchange (`Asks`), and `SoleTransferIsAlwaysActive` with two facts: a caller that
clears `ACTIVE` has a task that is over (`Waiting`), and nothing runs beside a call
that is alone (`Quiet`). `ResultIsAlwaysTrue` counts the events of a stream by their
positions (`Oks`); of a JNI call its invariant says (`Honest`) that the task's last word
is in the channel or was the result, never both, that it is true (`SaysTrue`), and that
a task which vanished without one was cancelled before anything moved.

Every invariant of the passing runs but those of `edits` has its theorem. Only
model-checked: what `FolderTransfer` promises of sources that are edited when the
writers drain first, and every liveness property (`SendTerminates`, `EstablishEnds`,
`EveryClientIsServed`, `EveryCallReturns`, and the three of `Discovery`), since temporal
reasoning with fairness is out of the prover's reach.

## Not modelled

* Cryptography, TLS certificates and QUIC's inside: a connection is reliable and
  ordered and may be lost; a hash is injective; a certificate check compares
  fingerprints. The vendored `quinn-proto` is a library.
* Frame, JSON and compression codecs, argument parsing, progress bars, the fields of
  history records, device names, the user interfaces.
* `TransferState` (`core/src/state.rs`): only its own tests use it. `forget` and
  `list` of the trust store: nothing calls them.
* The bandwidth cap of the relay, beyond the loss of datagrams; the length of the
  backoff between attempts; a machine that crashes and loses what was written.
* The apps' own logic, which is the environment of `AppTransfers`. One thing seen
  there: after a send the old listener still holds its port, so the Flutter app's
  automatic restarts of the listener (`transfer_provider.dart:379-385`) fail once a
  second until it is gone.

Components without a module are listed with their reason in `PROJECT.json`.

## Plan

What would come next:

1. Edits that change part of a file in `FolderTransfer`.
2. `Rendezvous` and `Relay` composed with both clients of `Establish`.
3. Theorems about `edits`: that a success delivers what was hashed when the writers of a
   lost connection have drained before the next, whatever is edited.
