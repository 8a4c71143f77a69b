# Pixiecore in TLA+

Specifications of Pixiecore (`src/`), checked with TLC on small instances and, where that was
in reach, proved with TLAPS for every value of the constants.

## The system

Pixiecore takes a machine's PXE ROM from nothing to Linux. One process runs four servers in
front of one *Booter*:

| part | source | state | operations |
|------|--------|-------|------------|
| ProxyDHCP | `src/dhcp/dhcp.go` | a loop, blocked in `ReadFrom` or in the Booter | `ServeProxyDHCP`, `ParseDHCP`, `OfferDHCP`, `DhcpOption`, `InterfaceIP` |
| PXE | `src/pxe/pxe.go` | a loop | `ServePXE`, `ParsePXE`, `ReplyPXE` |
| TFTP | `src/tftp/tftp.go` | a goroutine per read request: block, offset, retry counter | `Serve`, `transfer`, `sendPacket`, `parseRRQ`, `nullStr`, `mkError` |
| HTTP | `src/http/http.go` | a goroutine per request | `Ldlinux`, `PxelinuxConfig`, `File` |
| Booter, API mode | `src/api/api.go` | a key drawn at start | `ShouldBoot`, `BootSpec`, `File`; `getSpec`, `signURL`, `getURL` |
| Booter, static mode | `src/api/api.go` | the spec shared by all requests | `ShouldBoot`, `BootSpec`, `File` |
| start-up | `src/pixiecore/pixiecore.go` | flags | `pickBooter`, `main` |
| logging | `src/log/logging.go` | an unbuffered channel | `Log`, `Debug`, `RecordLogs` |
| assets | `src/assets` | none (generated) | lookup by name |
| example API server | `src/example` | none | one handler |

A boot passes through all of them: DISCOVER -> `ShouldBoot` -> OFFER -> PXE request and reply
-> pxelinux over TFTP -> `ldlinux.c32`, the configuration (`BootSpec`) and the files (`File`)
over HTTP. Pixiecore itself keeps no state per machine; what a boot depends on is spread over
packets, signed file IDs, the machine and an API server that may change its mind at any point.

What is hard about it, and the properties each part owes:

- **TFTP**: packets are lost, repeated, delayed and reordered; a repeated request starts a
  second transfer to the same client; block numbers are 16 bits wide; timeouts race late
  acknowledgements. Owed: the client's bytes are a prefix of the file; neither side takes a
  part for the whole; every transfer ends; a few losses are survived.
- **Booter and HTTP**: three calls of the Booter per boot see different answers; a restart
  invalidates every ID; handlers share the static spec. Owed: one boot uses one answer; only
  the API server's own URLs are fetched; a configuration names files that can be served.
- **ProxyDHCP**: its only loop waits for the API server. Owed: ignored machines stay ignored;
  a hanging API server delays but does not stop the others; approved machines end up booted.
- **wire formats**: nested length fields, options in any order, one buffer for all packets.
  Owed: no byte of an earlier packet is used, the right requests are accepted, what is written
  parses back, and the option loops end.
- **connections**: `getSpec` never closes a body. Owed: what it leaves behind is freed, and no
  call waits forever for the rest of an answer.
- **start-up and logging**: everybody waits for one reader, and any server may fail. Owed: there
  is a reader and everybody gets their turn; all servers run, or the process ends; what the
  log says of their sockets is true.

The hazards, at their lines, are listed in `PROJECT.json`.

## Modules

| module | models |
|--------|--------|
| `TftpRequest` | `parseRRQ`, `nullStr`: which datagrams are read requests, and their block size |
| `Tftp` | the TFTP server, a client and the network between them |
| `FileDelivery` | what the TFTP server promises, abstractly |
| `TftpProof` | theorems about `Tftp` |
| `Booter` | both Booters and the encoding of file IDs, as operators |
| `NetBoot` | ProxyDHCP, PXE and HTTP in front of a Booter; machines, API server, network |
| `BootPromise` | what Pixiecore promises a machine, abstractly |
| `NetBootProof` | theorems about `NetBoot` |
| `ExampleApi` | the example API server: its answer, its URLs, the file behind each |
| `ExampleBoot`, `ExampleProof` | `NetBoot` in front of the example API server, and the theorem about it |
| `DhcpPacket` | packets and the reused buffer as bytes, `DhcpOption`, `InterfaceIP` |
| `ProxyDhcp`, `Pxe` | the loops of `ServeProxyDHCP` and `ServePXE`, option by option |
| `Process` | `main`, `pickBooter`, the servers up to their loops, the log channel |
| `ApiConns` | the connections and timers behind `getSpec` and `File` |
| `DhcpPacketProof`, `ProxyDhcpProof`, `PxeProof`, `ProcessProof`, `ApiConnsProof` | theorems about these |
| `MCTftp`, `MCNetBoot` | constants for TLC |
| `MCDhcpPacket`, `MCProxyDhcp`, `MCPxe` | packets, interfaces and other constants for the packet loops |
| `MCProcess` | constants, and the composition of `Process` with `ApiConns` |

Definitions named `x_something` right before a definition `x`, marked *Mutant*, are wrong
variants of `x` that show that a property can fail; no specification uses them.

### Tftp

One client address, any number of transfers to it (`Transfers`): transfers to other addresses
share nothing with these. A goroutine can be observed only where it blocks in `conn.Read`, so
each action runs from one such point to the next:

| action | code |
|--------|------|
| `Serve` | one iteration of `Serve` |
| `Start` | `transfer` up to its first `conn.Read`: dial, handler, OACK or first block |
| `RecvAck` | `sendPacket` returns nil; the next block is read and sent, or the transfer is over |
| `RecvError`, `ConnError` | `sendPacket` returns an error |
| `Timeout` | the deadline of one try: next try, or give up |

`pc` is `idle`, `start`, `oack` or `data` (waiting for that packet's acknowledgement), `sent`
(the line "Sent ..." was logged) or `failed`. A payload is a range of the file. A packet
carries its true block number `blk`, but only `wire(blk) = blk % SeqMod` is ever compared.
Acknowledgements of other blocks, short packets and unknown opcodes leave `sendPacket` in the
same `conn.Read` under the same deadline, so they are no steps. The client follows the
protocol: it binds to the first transfer it hears, acknowledges what it keeps and what it has
already, and answers other transfers with ERRORs.

With 16-bit block numbers nothing can be right if a packet may be delayed without limit:
`Lifetime < SeqMod` says that a packet about block b is gone once its transfer has reached
block b + Lifetime. For the code that is 65535 blocks of at least one round trip each.

### Booter, NetBoot

`Booter` has the two Booters as operators. `signURL` seals a URL with the process's key,
`getURL` opens it only with the same key; base64 counts how often an ID has been encoded.
`NetBoot` has one process (`inc` numbers its incarnations and stands for its key) and the
machines:

| action | code |
|--------|------|
| `DhcpRead`, `DhcpAnswer` | `ServeProxyDHCP` up to the call of `ShouldBoot`, and after it |
| `ServePXE` | one iteration of `ServePXE` |
| `Ldlinux` | the handler |
| `ConfigRequest`, `PxelinuxConfig` | the handler up to the call of `BootSpec`, and after it |
| `ServeFile` | the handler `File`, for the machine's next file |
| `Restart` | the process ends and starts again, with a new key |

Packets are the fields the parsers take from them; packets they reject change nothing. The
TFTP transfer is one step that succeeds or fails, which is what `Tftp` and `FileDelivery`
justify. The in-place encoding of `spec.Initrd` in `PxelinuxConfig` writes to the booter's
spec unless `BootSpec` returned a copy (`specCopied`). `given` and `fetched` are histories that
only properties read. Machines, API server, image servers and network are not in the
repository and are modelled from how the code uses them.

`BootPromise` forgets packets, requests and retries: machines run nothing, their disk, or an
image that was approved. `NetBoot!Promise` maps to it. `ExampleBoot` adds what the repository's
example API server (`ExampleApi`) answers and serves, given the files static mode would have
been given.

### DhcpPacket, ProxyDhcp, Pxe

A packet is its fixed header, as a record, and the bytes after the magic number; the field
`whole` of the header tells whether the packet has its 240 bytes, without which both parsers
reject it. (A shorter packet leaves header bytes of the one before it in the buffer. None of
them is ever looked at, so the model replaces the header whole.) Beside its
bytes (`wire`) it has the options its sender meant (`means`); parsing has to recover these. A
slice of the buffer is a pair of bounds, so that what a parser holds on to can be compared with
what was read: `overwritten` leaves the bytes behind a short packet as they were.

| action | code |
|--------|------|
| `Read` | `l.ReadFrom(buf)` |
| `ParseHeader` | `ParseDHCP` / `ParsePXE` up to the options |
| `ScanOption` | one turn of the option loop, or what follows it |
| `ScanVendor` | (`Pxe`) one turn of the inner loop over option 43 |
| `Answer` | the rest of the loop: Booter, `InterfaceIP`, `OfferDHCP` / `ReplyPXE`, the write |

Replies are bytes; `decode` reads them as a ROM does. What the Booter says is left open here.

### Process, ApiConns

In `Process` a goroutine blocked in a send waits in `logCh`; `RecordLogs` takes the first.
Actions: `PickBooter`, `LoadAssets`, `Spawn` (`main`: one step for each go statement, between
which the servers already started run; then it is in `RecordLogs`); `ListenUDP`, `StartHTTP`,
`ListenHTTP` (each server to its loop), `Fatal` (`log.Fatalln`), `Loop` and `Work` (whatever logs later).
In `ApiConns` a call gets a connection (`Get`), a response (`Response`), and returns (`GetFails`,
`Decode`, `CopyEnds`), giving the connection back or forgetting it; `Timeout` is the timer.

## Runs

| run | question | result |
|-----|----------|--------|
| `tftp` | is the file delivered in order and completely, with two transfers, wrapped block numbers, every fault? | holds |
| | does the server implement `FileDelivery`, and does every transfer end? | holds |
| `tftp_lossy` | does a transfer survive numRetries - 1 losses? | holds |
| `tftp_exact_multiple` | is every file served? | violated: a length that is a multiple of the block size |
| `netboot_api` | are machines ignored, or booted with exactly one answer, whatever changes meanwhile? | holds |
| | and does it implement `BootPromise`, and treat the example API server like static mode? | holds |
| `netboot_static` | do two machines that share the static spec both boot? | holds |
| `netboot_live` | do approved machines boot while the API server hangs for others? | holds |
| | is an answer that is given once useless, as README.api.md says? | holds |
| `netboot_denied` | does a BootSpec error restart the boot, as `Booter` says? | violated: the machine boots its disk |
| `netboot_example` | does the documented answer with relative URLs boot? | violated: it is rejected |
| `netboot_status` | is what boots always the file? | violated: error pages are booted |
| `proxydhcp`, `pxe` | do the packet loops accept the right requests and answer them readably, and come back? | holds |
| `process` | do all servers start or the process end, and is everybody who logs read? | holds |
| | do calls of `getSpec` return, and do the connections they forget have a timer? | holds |

### Bounds

- TFTP: two transfers (a request and its duplicate) are the least that interfere; a third
  would meet the same client state. 1600 bytes are four blocks of 512 or 500, more than
  `SeqMod` = 3, so block numbers wrap within a transfer; 2000 exercises the clamp. `MaxLoss`
  bounds losses; with `Duplicates` a packet stays deliverable, so loss only matters in
  `tftp_lossy`, where it is off and `MaxLoss = NumRetries - 1`.
- NetBoot: two machines are the least that share the loop and the spec. `MaxFaults` = 2 faults
  of any kind, among them a restart followed by a lost packet or an API change during a boot.
  A ROM repeats a request when nothing of it is under way any more; a repetition that is only
  impatient is the fault `resend`. `netboot_live` and `netboot_static` have the faults that matter
  for liveness only; that a one-shot answer boots nothing with any other fault either is left to
  the theorem `OneShotBootsNothing`, and what `BootInv` implies in static mode to the theorems of
  `NetBootProof` that derive it.
- Packets: all options the parsers look at, right and wrong, in several orders and nestings,
  cut off within an option or within the header, by any interface. The buffers have 26 and 33 bytes for options, so
  that some packets just fit and some do not. The two loops share no variable, so each has a
  run of its own.
- Process: command lines for either mode, for both and for none; ports that differ or clash; one
  fault of each kind; one request goroutine beside the four servers, so that five goroutines
  compete for `RecordLogs`. ApiConns: the ProxyDHCP loop, a handler that asks the API server
  and one that copies an image share three connections, so that forgotten ones can use up all
  of them. `Process` and `ApiConns` share no variable, so in `MCProcess` one of them goes on in
  each behaviour; a process that has ended stutters.
- The example server's answer is one the API server may change to, not one it starts with:
  that keeps `netboot_api` small and still lets a machine see no other answer.
- Deadlock is not checked for `Tftp` and `NetBoot`: transfers end, and booted machines do nothing
  more. It is checked in `proxydhcp`, `pxe` and `process`.
- Symmetry is used only in runs without liveness properties; `KeepsPromise`, in `netboot_api`,
  is an initial condition and an action property that treat all machines alike.

### Fairness

- `Tftp!ServerFairness`: a runnable goroutine runs, and `conn.Read` returns after its deadline. A read
  that fails (`ConnError`) is never owed.
  Nothing is assumed of client and network, except in `TimelySpec` (run `tftp_lossy`), where
  they do answer and timeouts are not premature.
- `NetBoot!ServerFairness`: `http.Client.Timeout` ends every call of the API server (weak
  fairness of `DhcpAnswer`, whatever `api` says); sockets queue packets first come first
  served, so a machine's repeated DISCOVER is read in the end (strong fairness of `DhcpRead`
  per machine); net/http has a goroutine per request. `FairSpec` adds that the machines go on.
  An image server answers or fails: `File`'s HTTP client has no timeout of its own.
- `proxydhcp`, `pxe`: weak fairness of `Handle`, that is, a loop that has a packet goes on. Nothing
  makes packets arrive.
- `Process!Fairness`: the Go runtime lets every goroutine go on: `main`, `RecordLogs`, each server
  on its way to its loop, and `log.Fatalln` after a failure. Nothing makes anybody log, or
  `accept` fail. `ApiConns!TimersGoOff`: a timer goes off; no server need ever answer.

## Proofs

`TftpProof` proves, for every set of transfers, file, set of requests, sequence-number width,
retry limit and set of faults that satisfy `TftpAssumption`:

- `Invariance`: `IndInv` is an invariant; from it `TypeCorrect`, `PrefixDelivered`
  (`InOrder`), `CompleteWhenDone`, `DeliveredWhenSent`, `InLockStep` and `SameBlockSize`;
- `Implements`: `Spec => DeliversFile`, the refinement of `FileDelivery`.

`InOrder` alone is not inductive: that the next payload starts where the last one ended needs
the server's offset, which needs that the server advanced only on an acknowledgement of its
current block. `IndInv` adds: the server's own bookkeeping (`ServerInv`); that packets in
flight describe their transfer (`DownInv`) and only the client's own transfer is acknowledged
(`UpInv`); what the client's block count says about its transfer (`BoundInv`), or about one
it has not heard of (`UnboundInv`); and `SentInv`. The key lemmas are `WireInjective` (numbers
closer than `SeqMod` differ on the wire), `AckMeansKept` (an acknowledgement `sendPacket`
accepts means that the client kept the current block), `HeardData` (the same on the client's
side) and `BlockSizeBound` (`parseRRQ` yields at most 1450). Every action has a lemma of its
own. TLC checked `IndInv` first, in `tftp`.

`NetBootProof` proves, for any number of machines, answers, URLs and faults, in both modes
(the assumptions are those named in `Booter` and `NetBoot`):

- `BootInvariance`: `BootInv` is an invariant; from it `TypeCorrect`, `IgnoredStay`
  (`IgnoredStaysInRom`), `ProxyIsClosed` (`ProxiesOnlyApiUrls`), `ConfigsAreServable` and
  `BootsAreWhole` (`BootsOneAnswer`);
- `PromiseIsKept`: `Spec => KeepsPromise`, the refinement of `BootPromise`, with one lemma for
  each kind of step: it approves a machine, starts or ends an image, or is not seen;
- `OneShotBootsNothing`: in API mode, if the API server does not change its mind, a machine that it
  approves of only in one-shot answers does not boot, whatever other machines do.

`BootsOneAnswer` speaks of a machine that runs Linux. To be inductive it has to be said at every
stage: a machine beyond its ROM was approved, the configuration it holds lists, encoded once, the
references of one answer that approved it, and what it has loaded so far is a prefix of that
answer's files. `MachineInv` says so for a machine at each of its stages; `BootInv` adds the
types, that offers are for approved machines only, that the spec static mode shares is still the
one it started with, and `ProxiesOnlyApiUrls`. TLC checked
`BootInv` in `netboot_api` and `netboot_static`.

`ExampleProof` proves `ExampleIsStatic` (`SameAsStatic`) from `BootsOneAnswer`. It assumes
`ExampleAssumption`: the two URLs the example server makes are absolute and different.

The packet loops, for every set of packets, buffer size and list of addresses that satisfies
`DhcpAssumption` (packets are the encodings of some options, with any tail that holds no
whole option):

- `TypeCorrect`, `StaysInPacket`, `PxeTypeCorrect`, `PxeStaysInPacket`: what a parser holds on to
  are bytes of the current packet, and the inner loop of `ParsePXE` stays in its option. Together
  these are inductive as they stand (`ProxyInv`, `PxeInv`); `OptionInSlice` says what
  `DhcpOption` returns;
- `OptionsAreConsumed`, `PxeOptionsAreConsumed`: each turn of an option loop leaves it or
  shortens its slice by two bytes or more. That the loops therefore end is left to TLC;
- `DecidesEveryPacket`, `PxeDecidesEveryPacket`: a request is accepted exactly when it is
  `Acceptable` (`Selects`), which is told from its header and the options it means and not from
  the bytes in the buffer. `Acceptable` is what the code asks for: a GUID, nothing malformed, no
  option that says another message type or architecture (neither option need be there), and one
  PHY field that says Ethernet.
  `ScanInv` and `PxeScanInv` say that the loop is at the k-th option the packet means, rejected
  none before it, and holds the last GUID (and boot item) of those;
- `OffersReadBack`, `PxeRepliesReadBack`: a ROM that reads an answer by its lengths finds what was
  meant. The bytes of an answer are taken apart into pieces, and `ReadsNext` shows that reading
  one piece gives its option and goes on with the next. `PxeRepliesReadBack` assumes `UrlsFit`:
  the server's own URL, of 29 bytes at most, fits in an option;
- `OffersBestAddress`: no address that `InterfaceIP` prefers was passed over.

What `encoded` and `decoded` compute for lists of any length needs induction. The library's
induction theorems cannot be used here; instead `NatMin` (a set of numbers has a least one,
from the well-foundedness of `<`) gives the least counterexample, and `UpTo` packs this up.

`Process` and `ApiConns`, for every command line, choice of ports, set of faults, goroutines and
connections:

- `LogsAreRead` (`BlockedHaveReader`), `LogsAreTrue` (`ListeningIsTrue`): whoever is blocked on
  `logCh` has a reader, `main` in `RecordLogs` or past everything that could keep it from there,
  and exactly one entry; a UDP server that is logged as listening has its socket, and the HTTP
  server has it, is about to get it, or has failed. `ProcessInv` adds `Started` (no server does
  anything before its go statement), `TrueEntries` (entries still in the queue tell the
  truth) and `LogQueue`: the entries belong to different goroutines, just those that wait.
  `WorkersAssumption`: the request goroutines are not the servers;
- `ConnectionsAreNotLost` (`ForgottenHaveTimer`): a connection no call uses any more has a timer.
  `ConnsInv` adds that calls share no connection and that a call of `getSpec` has a timer as long
  as it lasts. It assumes `NoConnIsNone`: the value for no connection is not a connection.

Every safety property that a passing run checks is thus proved. Only model-checked is liveness,
since the prover handles neither fairness nor ENABLED: `TransferEnds`, `SurvivesLosses`,
`DhcpLoopReturns`, `ApprovedMachinesBoot`, `ScanEnds`, `PxeScanEnds`, `LogsAreTaken`,
`AllOrNothing` and `GetSpecReturns`.

## Noted, without a run

`ParseDHCP` (`src/dhcp/dhcp.go:140`) rejects a packet for its PHY only if hardware type *and*
address length are wrong, while its message says "not for an Ethernet PHY".
`DecidesRight` states what the code does: a packet with one wrong field is accepted.

## Not modelled

- `File`'s client has no timeout, which the comment at `src/api/api.go:148` accepts: an image
  server that hangs holds one handler for ever;
- PXE boot items of another length than 4 in `ReplyPXE`, which `src/pxe/pxe.go:131` accepts;
- the texts of configurations, logs and errors, content types; secretbox and base64 beyond
  what opens and decodes what;
- the embedded assets but for their lookup by `main` (generated).
