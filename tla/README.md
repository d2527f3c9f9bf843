# Phobos WireGuard client: TLA+ models and proofs

The repository is a Windows VPN client in Rust. It captures the machine's
traffic with a Wintun adapter, encrypts it with BoringTun (WireGuard),
obfuscates every datagram (CRC-8 key stream, dummy bytes, an optional STUN
frame) and sends it to a Phobos server. It runs in three modes: a window
(`gui.rs`), a command-line tunnel (`--cli`) and a loopback relay for the
official WireGuard client (`--proxy`).

This directory holds TLA+ modules translated from that code, TLC configurations
that check them on small instances, and TLAPS proofs of the central safety
properties for every value of the constants. `PROJECT.json` lists the
components, the runs, the lines every definition stands for, a plausible
mistake per property that TLC must catch, and the hazards.

## 1. Inventory

| Component | State it keeps | Operations | Hard behaviour | What makes it correct |
|---|---|---|---|---|
| Forwarding table (`windows_net.rs` 25-88, 434-675) | the machine's routes | add (delete an equal row first), delete, best interface, best route | shared with the rest of the machine; calls refused | our rows go in and out, nobody else's |
| Wintun device and route manager (`wintun_adapter.rs`) | adapter, session, `physical_if_index`, `gateway_ip`, `routes_installed` | `create`, `install_routes`, `remove_routes`, `shutdown`, drop | the look-ups read the table the manager changes; partial installation; a killed process | the server is never reached through the tunnel; the table is restored |
| Tunnel service (`tunnel_service.rs`) | `status`, `active_profile_name`, `stats`, `stop_signal`, `logs`, one thread per `start` | `start`, `stop`, `is_active` | one window thread and any number of session threads share four cells under separate locks; `start` waits at most two seconds | at most one session; the status tells the truth; a stop ends the session |
| Window (`gui.rs`) | selected profile, list, tab, log count | toggle, add, delete, drop files, copy, clear, timer, close, destroy | reads name and status separately; exits while sessions run | no hang; no routes left |
| Tunnel workers (`tunnel_service.rs` 261-413, `tunnel.rs`) | `Tunn`, `Obfuscator`, socket, Wintun session, byte counters | TUN to UDP, UDP to TUN, timers, monitor | three threads, two locks, a read without a time limit | no deadlock; all end after a stop |
| Packet codec (`obfuscator.rs`, `crc8.rs`, `stun.rs`) | key, `max_dummy`, `obfuscate_bytes` | encode, decode, wrap, unwrap, binding request | two ends must agree on how much of a packet is enciphered from its length alone | decode undoes encode; padding stays in its bounds |
| Relay (`relay.rs`) | `client_addr`, `running`, counters | `start`, `stop`, client loop, server loop, keepalive | rebinding while an answer is under way | only the bound client is served |
| Proxy mode (`main.rs` 222-317) | the exported `.conf` | export, relay, wait, delete | early return after the export | the private key does not stay on disk unasked |
| Profile store (`profile_store.rs`, `archive.rs`) | the files of the profile directory | import, load all, delete | names collide after sanitising; a deletion stops half-way | what is shown can be deleted; an import is found again |
| Command-line tunnel (`main.rs` 129-219, `tunnel.rs` 33-123, 320-363) | the device, `running`, the Ctrl+C handler | set-up, socket, workers, monitor, every early return | Ctrl+C before and after the handler is set, a killed process before this one | a tunnel that runs is whole; Ctrl+C ends it; the routes come out |
| Configuration parsing (`archive.rs` 265-392, `wg_config.rs`) | none | split, parse, read settings, rewrite for export | several readers of one text, in any order of sections and keys | all readers agree; the exported text is the same tunnel by way of the relay |
| Start-up (`main.rs` 33-127) | arguments, passed file, elevation | help, elevation, import of the passed file, choice of the mode | the program starts a copy of itself from a text it writes | the user gets the mode and file asked for |
| Log buffer (`tunnel_service.rs` `add_log`, `gui.rs` log tab) | the last 2000 lines, the number drawn | append, drop, draw | drawn by number, not by content | the pane shows the newest lines |
| Windows utilities (`windows_net.rs`, rest) | none | elevation and its command line, ACL, MTU, address, DNS, socket option | a line of text written here and taken apart by Windows | the copy gets the same arguments; the rest is pure I/O |
| Build script (`build.rs`) | none | embeds resources | none | out of scope |

How they interact: the window thread calls `TunnelService::start`, `stop` and
`is_active` and reads its cells; every session thread owns one `WintunDevice`
and three workers; `WintunDevice` calls `windows_net` for the table; workers
call the codec; `run_standalone_cli_mode` drives one device and one
`StandaloneTunnel`; `run_proxy_mode` drives `PhobosRelay`, which calls the codec.

What each component promises, in a sentence: the route manager never lets the
server be reached through the tunnel and leaves no row behind; the service runs
one session at a time, tells the truth about it and ends it on a stop; the
workers keep packets in order, never block each other for good and are all gone
when the end is reported; the codec gives back what it was given; the relay
serves one local client; the store's list shows what the directory holds and an
import is found again under its name; the start-up ends in the mode the user
asked for; the readers of a configuration agree about it.

## 2. Plan

Order of work, most important behaviour first. Steps 1 to 10 are done.

1. `RouteTable`, `VpnRouteManager`: the forwarding table and the device that
   changes it, with refusals, kills and sequential runs.
2. `TunnelService` (extends `VpnRouteManager`): the window thread and the
   sessions, interleaved; `TunnelLifecycle` is what the user may understand of
   it, and `TunnelService` implements it.
3. `VpnRouteManagerProofs`, `TunnelServiceProofs`.
4. `PacketCodec` with `Crc8`, `PacketCodecProofs`.
5. `TunnelWorkers`, the threads inside one session; `Relay`, the loopback relay
   and the proxy mode around it.
6. `ProfileStore`, the profile directory and the window's list.
7. `StandaloneClient` (extends `VpnRouteManager`) with its proofs: the
   command-line program is a refinement of the device's own specification.
8. `CommandLine`, `ConfigFile` and `Startup`, which composes them, with proofs
   of all three.
9. `TunnelWorkersProofs`: lock ownership, packets in order, and the ordered
   channel `PacketChannel` that `TunnelWorkers` implements.
10. `RelayProofs` and `ProfileStoreProofs`; what is in the table after kills and
    ordinary ends, in `VpnRouteManagerProofs` and `StandaloneClientProofs`; the
    session that is alone, in `TunnelServiceProofs`. With these every invariant
    the runs check is proved.
11. Next to model: the log buffer with the error text, two programs on one
    profile directory, a file the proxy exported among the packages the next
    start finds.
12. Next to state abstractly, and to prove: a map from names to contents that
    `ProfileStore` implements while nobody else writes.

## 3. Modules and the code

| Module | Code | Variables and their fields | Actions and their code |
|---|---|---|---|
| `RouteTable` | `windows_net.rs` | rows `[ifx, dest, hop]` | `RouteAdded` (`add_ip_route`: delete, then create), `RouteDeleted`, `BestRows` (`GetBestInterface`, `GetBestRoute`: longest prefix, any metric) |
| `VpnRouteManager` | `wintun_adapter.rs` | `table`; `dev`, `physIf`, `hop`, `installed` per device (`physical_if_index`, `gateway_ip`, `routes_installed`) | `Probe`, `OpenAdapter`, `NewManager`, `InstallRoute`, `InstallRefused`, `BeginRemove`, `RemoveRoute`, `Close`: one per call that reads or writes the table; `Kill` |
| `TunnelService` | `tunnel_service.rs`, `gui.rs` 558-589, 730-751, 874-893 | `status`, `activeName`, `stopSignal`, `stats` as in the struct; `pc` per session; `gui` for the window thread | one action per lock a thread takes; `Create` and `Drop` run the device's actions inside the session |
| `TunnelLifecycle` | the abstract specification of the service | `phase`, `running` | `Start`, `Attach`, `Connect`, `End`, `Overrun`, `Exit` |
| `PacketChannel` | the abstract specification of a session's packets | `accepted`, `pending`, `sent`, and `steady`: whether the order is promised | `Accept`, `Transmit`, `Lose`, `Unsettle` |
| `PacketCodec` | `obfuscator.rs`, `stun.rs` | one datagram and how far it is | `Encode`, `EncodeVersion0`, `Frame`, `SendBinding`, `Receive`, `Decode` |
| `Crc8` | `crc8.rs` | none | the table and the key stream |
| `TunnelWorkers` | `tunnel_service.rs` 261-475, `tunnel.rs` 125-362 | `tunn` and `obf` are the holders of the two mutexes; `at` and `hand` per thread; of BoringTun's `Tunn`, `established`, `answered`, `begun` and `queue`; `lapsed` as history | one per stretch between two locks, sends or receives; `Encapsulate`, `Decapsulate`, `NextQueued`, `UpdateTimers` are the calls of `Tunn` inside them |
| `Relay` | `relay.rs`, `main.rs` 222-317 | `client_addr`, `running`; `conf` is the exported file | one per lock, send or receive of the three loops, and the main thread's steps |
| `StandaloneClient` | `main.rs` 129-219, `tunnel.rs` 33-123, 320-363 | those of `VpnRouteManager`; `main` for the main thread, `handler`, `running`, `sockIf` | `Start`, `Prepare`, `Create`, `SetHandler`, `BindSocket`, `SpawnWorkers`, `Monitor`, `DropDevice`; `CtrlC` and `Terminate` at any point |
| `CommandLine` | `windows_net.rs` 172-256 | `args`, `written`, `place`, `style`, `held`: where `escape_windows_arg` is; `line`: what a reader of the line has understood | `Open`, `Put`, `Close` for an argument, character by character |
| `ConfigFile` | `archive.rs` 218-392, `wg_config.rs` | one record per reader, with the section it is in and what it has found: `wg`, `obf`, `rewrite`; `ready` reads what `rewrite` writes, `whole` the text before it was split | `ReadLine`, `EndText` |
| `Startup` | `main.rs` 33-127, `windows_net.rs` 90-256 | those of `CommandLine` and `ConfigFile`; `phase`, `admin`, `file`; `asked`, `imports`, `unread` as history | `Help`, `Elevate`, `Write`, `Relaunch`, `Declined`, `TakePassed`, `Choose`, `Load`, `Enter`, `LoadFails` |
| `ProfileStore` | `profile_store.rs`, `archive.rs`, `gui.rs` 183-207, 538-573, 686-712 | `files`, `list`, `selected` (`selected_index` plus one) | `Import`, `Delete`, `Open`, `Select`; `Place` is another hand in the directory |

`Fault` definitions (`BeginFault` and the like) are mistakes the code does not
make. No specification uses them; `PROJECT.json` pairs each with a property
that must catch it.

Composition: `TunnelService` extends `VpnRouteManager`, so two sessions share
one forwarding table there. `StandaloneClient` extends it too: one process after
another, each with one device, and every step of it is a step of the device, a
kill or a stutter. `Startup` extends `CommandLine` and `ConfigFile`: the copy of
the program starts with what the reader of the line understood, and the modes
that need a profile read a text. `TunnelWorkers` refines what `TunnelService` treats
as one step (`CompleteHandshake`, and the joins inside `Shutdown`) and takes
from it that a session has its own device. The two implementations of the
workers, in `tunnel_service.rs` and `tunnel.rs`, take the same locks in the same
order and differ in logging and in how often the watching thread looks; one
module stands for both. `PacketCodec` is what a datagram goes through between a
worker or a loop of the relay and its peer. The joins at the end of a session
are two actions in `TunnelService`: either the workers have seen the stop signal
by the time the adapter is shut down, or they have still to see it (`Join`), and
then a `start` that has cleared the signal keeps the session there.

Wintun, the routing of Windows and the file system are modelled from how this
code uses them and marked external: `receive_blocking` ends once the session is
shut down and its ring is empty, a closed adapter takes its routes with it, file
names ignore case, a command line is taken apart as `CommandLineToArgvW` does.

BoringTun (0.7.1 in `Cargo.toml`) is external too, and the properties of the
workers turn on it. What `TunnelWorkers` takes it to do:

* `encapsulate` enciphers in the current session. Without one it keeps the
  packet (`Keep`: 256 at most, `MaxKept` here, beyond which the newest is
  dropped) and begins a handshake unless one is under way.
* `decapsulate` may answer any datagram with an error, which changes nothing. A
  response makes its session current at once and is answered by a keepalive. The
  session of the server's own initiation becomes current with the first data in
  it (`answered`), unless it takes the place of the current one. A cookie reply
  has no result. Data is a packet for the adapter, or a keepalive without a
  result.
* `decapsulate` of an empty buffer takes the oldest thing kept and enciphers it
  again: without a current session that keeps it again, now as the newest.
* `update_timers` lets sessions expire, sends or keeps a handshake or keepalive,
  or gives up the handshake with everything kept.

So a handshake of the server's can leave `Tunn` with a session that is not
current and none that is. `lapsed` records it: worker 2 then takes the oldest
kept packet out and puts it back as the newest (`tunnel_service.rs` 376), and
when a keepalive makes the session current the loop ends at once (374) and what
is kept waits for another datagram. Up to there packets keep their order and
nothing stays behind; afterwards no packet is invented or sent twice, and that is
all the code gives. `PacketChannel` is `steady` until then, and
`FlushedWhenEstablished` has the same condition.

`ConfigFile` runs all readers over the same text in step, one line at a time,
instead of storing a text and reading it again: each reader is a loop over lines
that keeps a few flags, so the state after a line is what each of them would
have after that line, and texts of any length and order come out of a handful
of kinds of line. `CommandLine` does the same with characters.

## 4. Runs

| Run | Instance | Shows |
|---|---|---|
| `cli` | two processes one after the other, two servers in different halves, one profile with IPv6, a user's route to one server, the look-up of the gateway, the host route, the halves and deletions refusable, sockets and workers failing, Ctrl+C and kills | `ServerOutsideTunnel`, `TunnelProbedOnlyAfterKill`, `RunningTunnelIntact`, `HealsAfterKill`, `ExitLeavesMachine`, `CtrlCEnds` |
| `service` | two profiles, two sessions, a wait of one look that may run out | `ActiveHasReporter`, `ConnectedHasHandshake`, `NoOverlap`, `StatsOfCurrentSession`, and that `TunnelLifecycle` is implemented |
| `service_live` | two sessions in sequence, two profiles, refused halves, with fairness | `SoloTunnelIntact`, `RestoredWhenDisconnected`, `StopHonoured`, `StartReturns` |
| `codec` | all types, lengths 4 to 11 and one of 258, `obfuscate_bytes` 0, 3, 6, 8, `max_dummy` 0, 2, 300 | `RoundTrip`, `PaddingBounded`; and the repository's own golden vector as an assumption |
| `workers` | two packets, two datagrams of five kinds, four threads, room for two in `Tunn` | that `PacketChannel` is implemented, `FlushedWhenEstablished`, `NoCircularWait`, `NothingAfterReport`, `StopEndsSession` |
| `relay` | two endpoints, three packets, two answers, STUN on, an export that may leave a part of its file | `ForwardedFromClient`, `HandshakeAnnounced`, `NoStaleDelivery`, `ConfAccountedFor`, `StopEndsLoops` |
| `profiles` | five names that collide in case or after sanitising, three packages, one file of another hand | `NamesDistinct`, `ImportedIsFound`, `DeletedIsGone`, `ListMatchesStore` |
| `startup` | arguments of up to four awkward characters, of up to three with apostrophes, pairs of up to two each, the flags alone and with a path; texts over fifteen kinds of line | `RelaunchSameArgs`, `StartsAsAsked`, `SplitReadsAlike`, `ExportUsable`, `ExportReadsAlike` |
| `routes_partial_install`, `service_stop_cleared`, `service_name_lost`, `service_socket_looped` | as above | the four disagreements of section 7 |

### Bounds

* Two devices or sessions: every hazard of the service is between one session
  and the next; a third would have to find the first two both gone or both
  overlapping, which two reach. The proofs have no such bound.
* `MaxPolls` is 40 in the code; one look and none reach both ways out of the
  wait. `SlowSessions` says whether a session may outlast the wait, so that the
  behaviours with and without an overlap can be asked about separately.
* In `cli` the processes run one after the other, and each has the first unused
  device: two tunnels of two processes at once would be two adapters of one
  name, which Wintun does not make.
* `Refusable` names the calls of Windows that may fail in a run. `cli` refuses
  the look-up of the gateway, the host route, the halves and deletions;
  `service_live` the halves, since that refusal is the one that ends a set-up
  and what follows must still leave the service able to start again; `service`
  none, because its properties are about the shared cells. The IPv6 row is not
  refused in any run: its refusal is a warning like the host route's and no
  property looks at that row. The proofs allow every refusal.
* `startup` has arguments of up to four characters out of backslash, quotation
  mark, space and a letter: runs of one, two and three backslashes before a
  mark, before the end and before a letter. Arguments of up to three characters
  out of apostrophe, quotation mark, space and a letter have every order of what
  `clean_path` takes off. The texts have no bound on their
  length: the readers keep flags and sets, so the states are finite. Among the
  lines are two addresses, of which the first counts, a key that does not
  decode, both default routes and every section. `MaxUnread` is how often an
  elevated process may fail to read its own rights; once is enough for a second
  copy.
* The codec's limits 1024, 512 and 65535 are scaled to 10, 3 and 260 so that
  each comparison of `encode` is met from both sides by packets of a few bytes;
  the length of 258 needs both bytes of STUN's length field, and a dummy limit
  of 300 exceeds the total. The proof is for any limits.
* `workers` needs two packets to see an order, and two datagrams for a response
  and data, for the server's initiation and the data that makes its session
  current, or for an initiation and a response. Two places in `Tunn` are full
  with a packet and a keepalive, so the drop at the limit happens, and so does
  the packet that is kept again. Two packets that leave in the other order need
  a third place or a third datagram; `MaxKept = 3` reaches it and takes longer.
  The proofs have no bound. `relay` needs three packets so that an endpoint can be bound, lose
  the binding and try again.
* In `relay` pings are bounded by one: a binding request has no state of its own.
* `profiles` lets one foreign file in; two imports of one name and the foreign
  file give three files of one name, which is what a deletion has to find.

`codec`, `workers`, `relay`, `startup` and `routes_partial_install` do not check
deadlock: a delivered datagram, a session that has ended, a program that has
exited and a machine whose devices are used up really stop. The other runs check
it; in `cli` the machine on which every process has run is the stutter
`Finished`, so any other stop would be a deadlock.

### Fairness

`TunnelService!FairSpec`: weak fairness of the window thread's own steps once a
handler has begun (Windows runs a handler to its end) and of each session's
thread (the scheduler). Nothing is assumed of the user or of the server's
answer. `StandaloneClient!FairSpec`: weak fairness of the main thread; a process
that waits for a key may wait for ever, and no Ctrl+C or end from outside need
come. `TunnelWorkers!FairSpec`: weak fairness of each thread; taking a lock
that others use too is weakly fair only, which is enough because every holder
lets go of it and, after the stop, does not come back. Packets, datagrams and
the stop need never come. `Relay!FairSpec`: weak fairness of each loop, none of
the main thread, which waits for a user. The loops of the workers and the relay
come round by the read timeouts the code sets, which the models have as a
receive that finds nothing.

## 5. Proofs

All proofs are for every value of the constants, under the assumptions named in
the modules, which TLC evaluates on every run. Most say only what sort of value
a constant is. Three say more. `RouteTableAssumption`: before the client first
ran no row led into the tunnel, and there was a default route.
`StoreAssumption`: cleaning a name twice is cleaning it once, and a name that
differs from a clean one in case only is clean, because clean names are ASCII
letters, digits, `-`, `_` and `.` (`archive.rs` 55-67) and neither
`eq_ignore_ascii_case` nor the case table of NTFS makes any other character
equal to one of them. The codec's assumption is that a key stream depends on key
and length only.

* **Route manager** (`VpnRouteManagerProofs`). `RTypeCorrect`: the type
  invariant. `ServerStaysOutside`: `ServerOutsideTunnel` is not inductive, since
  it does not say why the look-up answers with the physical interface. `RInv`
  adds that at most one device lives (`OneLive`), that a device that has not
  begun to install is at its first call (`NotYetInstalling`), that the rows to
  one server's address are all on one interface (`Unmixed`), the one the device
  found when it looked (`RowsAsProbed`), and that the host route is in once its
  step has passed (`HostRouteIn`). `OneLive` is what
  fails for two overlapping sessions, hence the property is one of the
  route manager alone; `SoloTunnelIntact` is its counterpart in the service.
  `TunnelProbedAfterKillOnly`: either some process was killed or the table is
  `Tidy`, which ties every row through the tunnel to the one living device and
  to a step it has reached. `ActiveDevicesCapture`: `AInv` follows the halves
  from the step that adds them to the removal.
  `RowsAreAccountedFor`: `MInv` keeps the books of the table. Every row that is
  new is the k-th route of a device whose gateway is known and whose routes
  therefore no longer change (`Owned`), every original row that is missing is
  such a device's host route (`Lost`), and as long as nothing was killed and no
  half and no deletion refused, somebody will yet delete every new row
  (`Debts`, by what a device at each step still `Owes`).
  `KillsAreHealed`: `HealsAfterKill` needs besides that the rows a complete run
  deletes are those the killed ones left. The halves are the same for all; the
  host routes are because the client adds one row to a server at most
  (`OneHop`): a device that finds a row to its server takes its gateway from
  that row (`HostKnown`). `Clearing` then counts what a removal without a
  refusal has taken out so far. All three need every look-up of a gateway to
  have been answered (`Sighted`), which is why `HealsAfterKill` asks for it.
* **Command-line client** (`StandaloneClientProofs`). `ClientImplementsDevices`:
  `StandaloneClient` implements `RSpec`, so the route manager's theorems hold of
  the program as a whole (`ClientServerStaysOutside`, `ClientProbesOutside`,
  `ClientHealsAfterKill`); needed is that a process starts only when no device lives (`IdleHoldsNothing`,
  `OneLive`). `RunningTunnelsIntact` adds where the socket was bound
  (`SocketOutside`), from `ServerOutsideTunnel` at the moment of binding.
  `ClientExitLeavesMachine` is `MInv` read when all devices are closed: nobody
  owes a row, and what is lost is a host route of a closed device.
* **Service** (`TunnelServiceProofs`). `TypeCorrect`; `SessionsDoNotOverlap` and
  `StatsAreCurrent` from `OverlapInv`: unless a wait ran out there is one session
  at most, none while `start` writes, and the status is active exactly while one
  will report; `ActiveIsReported`, `ConnectedIsEarned` hold even with overlaps
  and have an invariant of their own. `ServiceImplementsLifecycle`: initial
  states map to initial states and each step to a step of `TunnelLifecycle` or a
  stutter, under the same invariant. The proofs go through lemmas that reduce
  every action to its effect on the variables concerned (`SessionEffect`,
  `WindowEffect`). `SoloTunnelsIntact` and `SoloSessionsRestore`: sessions may
  overlap, so `RInv` and `MInv` do not hold of the service. They do hold, in the
  form `AloneDevice`, from the moment a session starts alone on the original
  table (`AloneFromStart`), because then its device is the only live one and the
  lemmas about single devices apply. `Threads` is what must be known of all other
  sessions at that moment, after whatever overlaps: those that have not started
  are untouched, those that have ended are closed, and an adapter that exists
  has an owner (`AdapterHeld`). `AloneThread` ties the place of the thread to the
  phase of its device; that only a removal that was completed reports
  Disconnected is part of it.
* **Codec** (`PacketCodecProofs`). `DecodeUndoesEncodeAlways`,
  `PaddingStaysBounded`, `CodecTypeCorrect`, from `CInv`, which says of each
  stage what the datagram is: enciphered with some salt and padding, framed, and
  so on. The lemmas: laying a stream over a buffer twice gives it back
  (`XorDataTwice`), padding keeps a packet on its side of `obfuscate_bytes`
  (`PaddingKeepsSide`), so the receiver deciphers what the sender enciphered
  (`DecodeUndoesEncode`), and unwrapping undoes wrapping (`UnwrapUndoesWrap`).
  Nothing is assumed of the key stream but that it depends on the key and the
  length; CRC-8 itself matters only for agreeing with the server, which the
  golden vector checks.
* **Workers** (`TunnelWorkersProofs`). `LockInv`: a lock is held exactly by the
  thread whose place is between taking it and letting go (`TunnOwned`,
  `ObfOwned`), what a worker has in its hands follows from its place
  (`Handled`), the session thread is done last (`JoinedFirst`). From it
  `NobodyWaitsInACircle` and `QuietAfterReport`. `NothingLeftBehind` needs
  `FlushInv`: until a session was answered while none was current (`lapsed`), a
  current session means an empty queue unless worker 2 is between two calls of
  `decapsulate` (`Flushed`), and worker 2 sends what was kept only under a
  current session (`Draining`).
  `OrderInv` says where packets are: one in a single place only, and
  in order from worker 2's hands by what `Tunn` keeps and worker 1's hands to
  the adapter, as long as nothing lapsed. The one exception is that worker 1 sends past worker
  2 and the queue; `NoneBefore` says that both are then without packets, which
  is where `Flushed` and the lock come in. `PacketsAppend` and `PacketsTail` say
  what an added or a removed packet does to a sequence, the `Places` lemmas what
  each move does to the whole. `WorkersImplementChannel` says what this comes
  to, step by step: whoever sends takes the least of what `PacketChannel` calls
  pending, and whatever `Tunn` drops was pending. `PacketsKeepOrder` states it
  for each state, by an invariant of its own (`SentInv`): no packet is sent
  twice, and those sent are in order until something lapses.
* **Relay** (`RelayProofs`). `OnlyTheClientIsForwarded`: `SpeakerBound` says that
  a client bound now, or carried by worker 1 between its lock and its send, is
  the endpoint of the latest handshake or first packet and that nobody else's
  packet went to the server since. `HandshakesAreAnnounced`: `Announced` holds
  from the binding request to the handshake behind it, over the keepalive's
  pings. `AnswersReachAnOwner`: from the receipt of an answer to its delivery the
  owners so far include whoever is bound (`DeliveryInv`). `ConfIsAccountedFor`: a file
  with the key, whole or in part, that outlives the program was kept by the user
  or refused removal, or the program ended before it could ask; these ways out
  are a write that failed half-way, a relay that did not start and a Ctrl+C that
  no handler took (`ConfInv` follows `left` and `conf` through them).
* **Profile store** (`ProfileStoreProofs`). `StoreInv`: as long as no other hand
  has put a file there, every file is called after the profile in it but for
  case, and no two files have one name but for case (`Own`); a listing shows
  every readable file once (`ListingOf`). From it `ImportsKeepNamesDistinct`,
  `ListShowsTheStore`, `ImportsAreFound` (`WrittenFile`, `ImportedFile`: the file
  written is called what the list will call it) and `DeletionsAreComplete`.
* **Command line** (`StartupProofs`, like the next two). `SameArgsAfterRelaunch`: `LineInv` says
  that what the reader has of the current argument, with the backslashes not yet
  written, is the part of the argument seen so far (`Holds`), and that the
  reader is between quotation marks exactly when the writer is.
* **Configuration**. Three invariants that hold the readers
  in lockstep: `SplitInv` (both readers of a half agree with the reader of the
  whole text, and where the splitter is says which of them moves), `UsableInv`
  (a reader of the written text has seen what the writer believes to have
  written) and `ExportInv` (the reader of the written text has what the reader
  of the original has).
* **Start-up**. `StartsAsTheUserAsked`, from
  `RelaunchSameArgs` at each copy, and from `PassedBare`: `clean_path` leaves a
  path as it is that has no white space and no mark at its ends; `StartupKeepsParts`: what was proved of the
  command line and the configuration by themselves holds inside the program.

Only model-checked: liveness (`StopHonoured`, `StartReturns`, `StopEndsSession`,
`StopEndsLoops`, `CtrlCEnds`), which the prover does not reach, and that `Crc8`
computes its table, a recursion over data. `RestoredWhenDisconnected` and
`ExitLeavesMachine` allow the loss of an original row that equals a host route
of the client; without that they would be false of the code, which deletes such
a row (section 6), although a run whose original table has no such row would
not show it.

## 6. What is not modelled

* A session of the window whose worker 2 cannot be spawned. The command-line
  tunnel has that failure (`SpawnWorkers`), and the process ends with it.
* What sessions that overlap on an error path do to each other's routes. The
  model has the overlap (a session writes Error before its device is dropped,
  `tunnel_service.rs` 198), and in it the old device's removal takes the new one's
  halves; no comment says what overlapping sessions are worth, so the properties
  about routes are of sessions that have the machine to themselves.
* White space is `Blank` and line ends: the other characters Unicode counts as
  white space, which `trim` takes off a path too, are not told apart from them.
  A path whose name really begins or ends with an apostrophe is another path
  after `clean_path`; `StartsAsAsked` says which path it is.
* Other ways to write a default route than the two `archive.rs` 374-376
  replaces, `0.0.0.0/0` and `::/0`: `ExportUsable` and `ExportReadsAlike` are about
  these two.
* What BoringTun does inside: keys, replay windows and counters. A datagram
  that it refuses for any of them is the error `Decapsulate` allows at any time.
* Poisoned locks: no code panics while it holds one.
* The log buffer and its pane, the text of errors in the window, byte counters and rates:
  nothing but the picture depends on them. The stale picture is a hazard of the
  list without a property.
* What a second `[Peer]` means: the model has what `parse` does with it, but no
  test or configuration of the repository says what it should do.
* The search for a package in the working directory and its prompt are one step
  of `Startup`, which may succeed or not; that a file the proxy exported may be
  found there is a hazard of the list.
* Drawing, fonts, clipboard, dialogs, file access rights, the calls
  that set MTU, address and DNS (they appear as failures of `create`), the build
  script: calls of Windows without state of their own.
* The user's own host route to a server: a run deletes it with its own
  (`add_ip_route` deletes an equal row before it adds one). `cli` starts with
  such a row, and `ExitLeavesMachine` lets a run take that row and no other.
* The MTU of the exported text is 1280 also where the configuration asks for a
  lower one, while the built-in client takes the lower one. No comment of the
  code says otherwise, so it is no disagreement; `ExportReadsAlike` says the
  MTU is all that differs.

## 7. Disagreements between the code and its comments

* `routes_partial_install`: when one of the halves is refused, the host route
  stays in the table, because `remove_routes` does nothing unless
  `routes_installed` was set at the end of `install_routes`
  (`wintun_adapter.rs:150` says it removes all installed routes).
* `service_stop_cleared`: `start` waits two seconds and then clears the stop
  signal whatever the status is; a session that was slow in its set-up then never
  sees the stop, and two tunnels run (`tunnel_service.rs:66`).
* `service_name_lost`: a session writes its last status and then clears the
  active name; `start` may have written the next tunnel's name in between, so a
  connected tunnel is shown as disconnected and its button starts it again
  (`src/README.md:42`).
* `service_socket_looped`: when the host route is refused, which is only a
  warning, the interface looked up for the UDP socket is the tunnel itself
  (`src/README.md:88`).
