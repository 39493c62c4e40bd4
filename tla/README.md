# code-local: verification

`code-local` mounts the file system of a remote VS Code server locally (over
NFS or WebDAV) and attaches a terminal to it. It speaks VS Code's IPC protocol
over one WebSocket. This directory holds TLA+ models of its core, the TLC
configurations that check them, and proofs that TLAPS checks. Paths below are
relative to the repository (`src/` here). Every model was written from the
code; where the documentation says something else, the code won (see
[Findings](#findings)).

Contents: [the system](#the-system) ·
[the modules](#the-modules-and-the-code) · [the runs](#what-is-checked) ·
[bounds](#bounds) · [fairness](#fairness) · [proofs](#what-is-proved) ·
[findings](#findings) · [not modelled](#what-is-not-modelled) ·
[plan](#plan) · [how to run](#how-to-run)

## The system

```
 go-nfs / x/net/webdav     (external: call the backends from many goroutines)
        |
 nfs.FileSystem+File  |  webdav.FileSystem+File       terminal.Session
        |  own caches (nfs)      |  buffer whole files      |
        +----------+-------------+                     terminal.Client
                   |                                        |
          remotefs.CachedFS   (stat/dir caches, singleflight, watch)
                   |                                        |
          remotefs.Client     (one Call per operation)      |
                   +---------------------+------------------+
                                         |
                              protocol.IPCClient   (calls, answers, events)
                                         |
                              protocol.Conn        (frames, acks, keep-alive)
                                         |
                              WebSocket, VS Code server   (external)
```

### Components

**Connection** (`internal/protocol/conn.go`). State: `closed` (under `mu`),
`closeCh`, the bounded channels `regularCh` (64) and `controlCh` (16), the
counters `outgoingID` and `incomingAck`. Goroutines: `readLoop` decodes
frames and hands them to the two channels; `keepAliveLoop` writes a frame
every few seconds; any goroutine may send. Operations: `SendRegular`,
`SendControl`, `RecvControl`, `RegularMessages`, `Handshake`, `Close`.
*Hard:* back-pressure on a full channel, the end of both goroutines while one
of them is blocked, IDs drawn outside the lock, acknowledgements stored by one
goroutine and reported by others. *Correct when* no Regular frame is lost,
repeated or reordered; an acknowledgement never runs ahead of delivery; IDs on
the wire are distinct; only a connection the server has accepted is used; a closed
connection leaves no goroutine behind, even if a write was blocked.

**Frames and serialization** (`frame.go`, `serialize.go`). Pure encoders and
decoders of the 13-byte header and of VS Code's tagged values, with lengths in
digits of seven bits (VQL). *Hard:* the edges of a digit, of a VQL and of a word;
messages and payloads that lack their end. *Correct when* decoding gives what was
encoded, and no value that nobody wrote where something is missing.

**IPC client** (`ipc.go`). State: the tables `handlers` and `events`, `nextID`,
the `initialized` channel. One `dispatchLoop` reads the connection; every
event is handled in a goroutine of its own; `Call`, `Listen` and unsubscribe
run anywhere. *Hard:* the answer races the time-out and the registration;
answers that come late, twice or for nobody; `dispatchLoop` must not block on a
caller that has left; nobody tells waiting calls that the connection closed.
*Correct when* a call returns its own answer, once, or an error; leaves nothing
in the table; a subscription misses nothing while it lasts.

**Cache** (`internal/cache/cache.go`). State: `entries`, each with a value and
the instant it expires; `maxSize`, `ttl`. Operations `Set`, `Get`,
`Invalidate`, `InvalidatePrefix`, `Clear`, `Size`, under one mutex. *Correct
when* it stays within its bound, serves what was last set, nothing expired,
and evicts in the order it claims.

**Cached file system** (`internal/remotefs/cachedfs.go`). State: two caches,
two singleflight groups, the watch. Reads go through cache and singleflight;
`WriteFile`, `Mkdir`, `Delete`, `Rename` call the remote and then invalidate;
file-change events of the watch invalidate too, each in its own goroutine.
*Hard:* a read that was answered before a change and stored after its
invalidation; readers that join an old call; invalidations of five or ten
separate steps; changes that time out and happen anyway. *Correct when* a
finished change is seen afterwards, what is stale is about to be dropped, and
no answer is older than the TTL allows.

**Remote client** (`internal/remotefs/client.go`). Turns each operation into
one `Call` with a time-out, and parses the answer. `Watch` is a call and a
subscription. No state of its own beyond an ID.

**NFS backend** (`internal/nfs/`). `FileSystem` keeps two caches of its own, on
top of those of `CachedFS` and unknown to its watch. `File` loads a file whole
on first use, changes it in memory, writes it back whole on `Close`. *Hard:*
two layers of caches; several open files of one file (go-nfs opens one per
WRITE); a write-back that fails, or happens after it was given up. *Correct
when* what a change names is seen through both layers, a write-back changes
nothing but what was written, and success means the remote has it.

**WebDAV backend** (`internal/webdav/`). The same with no caches of its own,
with `OpenFile`'s flags, `Readdir` by pages, and `RemoveAll`, which asks `Stat`
before it deletes. *Hard:* `Stat` may answer from a cache, and what it spoke of may
be replaced before the deletion. *Correct when* the pages of a directory are its
listing, and only what was seen to be a directory is removed with all that is in it.

**Terminal** (`internal/terminal/`). `Client`: calls, events and the
acknowledgement of output (`charCount`). `Session`: bridges the local terminal and
the remote one: a goroutine for keys, one for resizes, one for each event, a
`select` over `done` and signals, and five deferred calls. *Hard:* the process, a key,
a broken terminal and a signal may end it at once; output is counted by goroutines
that overtake each other, and the server stops at what is not acknowledged.
*Correct when* what it has set up locally is undone, a signal ends the shell at the
server, every byte is acknowledged once, and no output is held back for good.

**Authentication** (`internal/auth/client.go`): one HTTP login. **Command**
(`cmd/code-local/main.go`): starts all of this in order, waits for a signal or
for an error, and stops it by deferred calls. *Hard:* every step may fail, a signal
may come at any of them, the connection may die. *Correct when* it ends, and leaves
nothing behind, locally or at the server.

### Interaction

All calls share one `IPCClient` and one `Conn`, so a stalled `readLoop` or
`dispatchLoop` stalls everything: their progress is what the protocol models are about.
A write that TCP blocks holds the connection's mutex, and everybody who sends, or
closes, waits for it. `CachedFS` is shared by all goroutines of a backend and by the
event goroutines of the IPC client. `main.go` lets a backend start only when
`StartWatch` has succeeded, so no client of `CachedFS` acts before the watch is on.

The hazards, each at its line with the properties that would notice it going
wrong, or the reason why none does, are in `PROJECT.json`.

## The modules and the code

Definitions keep the names of the code where TLA+ allows it. Each module opens
with a comment saying what its variables stand for. `PROJECT.json` maps each
definition to the lines it models. Definitions marked *Slip* in a comment are
plausible mistakes the code does **not** make; no specification uses them. Each
property is shown to notice one when it is put in place of the correct
definition, so no property holds merely by the shape of the model.

| Module | Extends | Models |
|---|---|---|
| `FrameChannel` | | abstract: a FIFO channel of numbered frames, which may end early |
| `Conn` | | `conn.go`: both loops, `deliverFrame`, `SendRegular`, the taking of a frame by `RecvControl`, `Close` |
| `Handshake` | `Conn` | `conn.go` from `Dial` to `Close`: `Handshake`, `SendControl`, `RecvControl`, the mutex and writes that block |
| `Codec` | | `frame.go`, `serialize.go`: bytes |
| `RPC` | | abstract: what a caller may expect of one call |
| `IPCClient` | `Conn` | `ipc.go`, on top of a whole connection |
| `CacheOps` | | the cache's operations as operators on a map of entries |
| `Cache` | `CacheOps` | `cache.go`: the cache with its clock |
| `CachedFS` | `CacheOps` | `cachedfs.go` and the calls of `client.go` |
| `NFSFileSystem` | `CachedFS` | the two caches of `nfs/filesystem.go`, on top |
| `FileBuffer` | | what `nfs.File` and `webdav.File` have in common |
| `NFSFile`, `DavFile` | `FileBuffer` | how either backend opens and writes files |
| `OpenFiles` | `FileBuffer` | a mount's open files, of whichever backend was chosen |
| `Process` | | a main goroutine, its deferred calls and signals, and the connection as seen from above |
| `DavTree` | `Process` | `webdav/filesystem.go`: `Mkdir`, `Rename`, `RemoveAll`, open directories |
| `Terminal` | `Process` | `terminal/`: a session and its flow control |
| `Command` | `Terminal`, `DavTree` | `main.go`: both commands with what they start |
| `*Proofs` | the module, `TLAPS` | theorems |
| `MC*` | the module, `TLC` | values of the constants for TLC |

**`Conn`.** `inbound` is what the server has written and `readLoop` has not
read, as WebSocket messages of several frames, perhaps torn at the end;
`reader` is where `readLoop` is (reading, decoding the next frame of `batch`,
or blocked in the `select` of `deliverFrame`). Control frames and keep-alives
carry nothing and are all called bare. `SendRegular` is two steps, since
`outgoingID.Add` precedes `WriteMessage` and its lock. `WriteMessage` is one
step here, and so is `Close`: both hold `mu` from beginning to end, and what takes
its time meanwhile is the business of `Handshake`. A `select` with
several ready cases may take any of them. `outbound` logs the Regular frames
that reached the wire. The acknowledgement inside outgoing frames is not kept:
it is `incomingAck` at the moment of writing, on which `AckMatchesDelivery`
speaks.

**`Handshake`.** Adds the goroutine that dials, shakes hands, uses and closes the
connection (`phase`), and `mu`: a writer locks it in one step and `WriteMessage`
returns in another, as late as the other end likes; `Close`, and `readLoop` when it
notes an error, wait for it. The server answers each request, refuses it, or says
nothing, and once it has accepted may send Control frames nobody waits for; what
those frames say is in `replies`, beside the frames of `Conn`. `RecvControl` takes
any of a frame, the end and the time-out, of those that are ready. Each step is a
step of `Conn` or leaves `Conn` alone (`HandshakeIsConn`).

**`Codec`.** Bytes are numbers. A byte has twice as many values as a digit of a VQL, and
`Digit` is a constant (128 in the code); that a word has four bytes, and a VQL up to
five digits, is as in the code. `WriteVQL` and `ReadVQL` are written with recursive
functions over the digits, `Serialize` with one over values, and `Deserialize` with one
over the positions of a buffer, which says what is read there. A message is put together
from frames, each with some values, and arrives whole or cut anywhere; a payload may
lack its end, too. `readLoop` decodes frame by frame until an error (a length at which
the 32-bit sum wraps would make it panic, but no frame `EncodeFrame` wrote has one).
`dispatchLoop` then reads two values of the payload: a header (`NextHeader`), without
which it drops the frame, and a body (`NextBody`), which becomes nil if it cannot be
read. What the header says, and what becomes of the body, is in `IPCClient`. What a
value becomes (an int is reduced to a word, a number that is no word goes as JSON, ...)
is `Normal`; JSON texts are opaque and told apart.

**`IPCClient`.** A call draws its id, registers its channel, builds and writes its
frame, waits, and removes its channel: separate steps, each of which the others may
interleave with. Ids and frames are those of `Conn`, whose `Senders` are the calls, the
subscriptions and the main goroutine (which sends the connection context). The server
answers any request it has read, in any order, once or twice; it fires events for
subscriptions; it may send what cannot be decoded. (An answer whose header is whole and
whose body is torn, which its caller gets as success with nil, is in `Codec` only.)
`dispatchLoop` looks a channel up and sends to it in two steps, with the table's lock
held for the first one only, as in the code.

**`CachedFS`.** What the remote would say of a key (a kind of metadata and a
path) is the number of the last change that affected it, and a change is the
paths it names: enough to tell stale from fresh. Reading is: look up; join the
flight or lead one; ask; be answered (the remote reads its state in between, or
the request fails or times out); fill the cache; land. Changing is: ask; be
answered; invalidate step by step. A request that timed out may still be carried
out. An event is a member of `events` from the moment of the change until its
goroutine has done its last step. `raced` marks an answer whose key was
invalidated, or changed, between the reading and the filling: it is a history
variable that the properties use to name the known race.

**`NFSFileSystem`.** Adds to every reader the lookup before, and the fill
after, what `CachedFS` does, and to every change the dropping of its keys after
`CachedFS` has dropped its own. It leaves events to `CachedFS`, as the code does.

**`FileBuffer`.** A byte is who wrote it. An operation, together with the load
it may start with, is one step, since the file's mutex is held throughout; what
happens at the remote meanwhile is before or after the moment it reads. The
exception is `Close`, which waits for `WriteFile`: the request is a step, its
execution by the remote is another (at any later time, even after the caller
gave up), the return of `Close` a third. A second `Close` (`CloseAgain`) returns
nil, whatever the first one did; `failed` remembers, as history, that one has failed.
Other operations on a closed file are left out: `nfs.File` refuses `Read`, `ReadAt` and
`Write`, and its `Seek` and `Truncate`, like everything but `Close` of `webdav.File`,
work on a buffer nobody will write back. (So a `Write` to a closed `webdav.File` reports
success and is lost.) `nfs.File` and `webdav.File` differ in
how they are opened, in what counts as "not found", and in when a file that was
not read is written back; `NFSFile` and `DavFile` give those parts. WebDAV asks
`Stat` before it opens; `Stat` may answer from a cache, and `known` is the set
of answers it may still give.

**`Process`, `Terminal`, `Command`.** `at` is the statement main is at; `defers` is the
stack of deferred calls that it works off when it returns, from wherever it does. A
signal nobody has asked for kills the process where it is, as it does before
`signal.Notify` and after `signal.Stop`. A call to the server is one step of main that
needs a connection to succeed, and may fail at any time, carried out or not: how it does
so is the subject of the other modules. In `Terminal` the goroutines of keys, resizes
and events run beside main; an output event is a number of bytes, of characters, and
whether it is of this terminal. What the server does with acknowledgements is external:
it holds output back beyond `High` characters and goes on below `Low`. That `done` is
closed only once is left to `sync.Once`. `Command` puts the steps of `run` and
`runTerminal` together with `Terminal` and the requests of `DavTree`, and lets the
connection die and signals come at any moment.

**`DavTree`.** `node` is what is at a path: nothing, a file, or a directory with its
entries; `known` is what `CachedFS` may answer: what is there, or one thing that was
there before. A request is a step of the caller, its execution another, its return a
third, so that a change whose caller gave up can still happen. One open directory
has the fields of `File` (`loaded`, `infos`, `pos`), with what it has answered so far
as history.

## What is checked

| Run | Shows |
|---|---|
| `MCConn_frames` | `NoFrameLost`, `AckMatchesDelivery`, `SignalImpliesClosed`, `WireIDsUnique`, and that `Conn` implements `FrameChannel`: back-pressure on small queues loses, repeats and reorders nothing, whatever message boundaries, stray frames, dead sockets and `Close` do, and racing senders never reuse an ID |
| `MCHandshake_life` | `OnlyAcceptedInUse`: no time-out, lost or late reply makes a refused connection look accepted; `Shutdown`, `EverythingEnds`: the handshake comes to an end, and once closed so do both loops, even if a write was blocked and nobody drains anything; `EveryFrameArrives`, `DeadSocketNoticed`: while the channels are drained, frames arrive and a dead socket is noticed |
| `MCIPCClient_calls` | two calls, answers out of order, late or twice, time-outs, send errors: `ImplementsRPC`, `WaitingIsReachable`, `DispatchNeverBlocks`, `NoHandlerLeft` |
| `MCIPCClient_events` | `NoEventMissed`: beside a call, a subscription misses no event until it ends; `CallsReturn`: the call returns whatever becomes of the connection |
| `MCCache_bounded` | `CapacityBound`, `NeverOutdated`, `EvictionOrder` |
| `MCNFSFileSystem_named` | a file and its directory, of which a client or somebody else writes or renames either, read through both layers of caches: `OneFlightPerKey`, `OnlyRacesMissWrites`, `StaleIsExplained` of `CachedFS`, and `OnlyRacesHideChanges` of both layers: a finished change is seen, for what the change names |
| `MCNFSFileSystem_age` | `NFSStalenessBounded`: no answer of `CachedFS` is older than TTL and time-out together, and none of the mount older than that and its own TTL; `OperationsReturn`: leaders, joiners and writers come back |
| `MCOpenFiles_two` | `OnlyOwnBytesChange`, `WrittenBytesArrive`, and `SuccessIsFinal` (a `Close` that reports success, and none before it an error, has stored what was written) of two open files of one file, which others change too, under either backend |
| `MCCodec_torn` | `RoundTrip`: the frames that arrived whole come out as they went in, and no other; of each the header, if it can be read, and the body are what was written, where a body that is missing or torn is nil |
| `MCCommand_life` | both commands from login to the end: `NothingLeft`, `CommandEnds`; a session's `OutputAccounted`, `OutputResumes`; WebDAV's `PagesAreTheListing`, `RemovesOnlyWhatItSaw` while the command runs, is signalled, or loses its connection |

Two further runs, `MCCachedFS_writes` and `MCDavFile_put`, check what the
repository says of itself and end in a counterexample: see
[Findings](#findings). The invariants that are no more than types are checked
where a proof rests on them (`ConnTypeOK`, `Cache`'s `TypeOK`).

How to read the properties with an exception:

- `OnlyRacesMissWrites` and `StaleIsExplained` say that the race named in the
  first finding is the **only** way to see something old, apart from the
  `Stat` of a directory in which something changed (`Tracked` leaves it out:
  the code drops the listing of the parent, not its metadata).
- `NFSStalenessBounded` has no exception: it bounds that race, lost events and
  changes that timed out. Its first half is `StalenessBounded`, of `CachedFS`; the
  properties of `CachedFS` are checked where a mount sits on top of it, since every
  behaviour of `CachedFS` occurs there.
- `EveryFrameArrives` and `DeadSocketNoticed` assume `Drained`: that somebody
  ranges over `RegularMessages`, and that no more frames come for `controlCh`
  than it holds, because nothing reads it after the handshake. `Shutdown` assumes
  neither. `EverythingEnds` assumes `OtherEndReads`: a write that is never taken
  off the socket keeps `mu`, and `Close` waits for it.
- `OutputResumes` excuses a lost acknowledgement (its error is ignored by the
  code) and output of other terminals, which is counted and acknowledged for the
  wrong terminal: after either the server may hold the output back for good.
- `CommandEnds` asks for a signal, an exit the server could report, or a key that
  finds no connection. A mount does not notice that its connection is dead, and
  neither does a session in which nobody types.
- `NothingLeft` allows what a failed request leaves behind (`missed`, `abandoned`),
  and a process that was killed leaves what it likes. It also allows a shell that
  `RunSession` deserts (`Deserted`), since only a signal makes it call `Shutdown`: one
  that was created, perhaps by a request that failed, before `Subscribe` or `Start` failed
  (`session.go:57`, `68`, `74`), and one whose session ended because a key could not be
  sent or the input not be read (`101`, `107`). `Conn.Close` sends nothing, so
  a watch or a shell at the server has to be ended by a call before.
- `SuccessIsFinal` says nothing of a `Close` after one that reported an error: it
  reports success with nothing stored (see [Findings](#findings)).
- `RoundTrip` lets a torn body become nil: that is what `ipc.go:87` does.
- `OnlyOwnBytesChange` says when overwriting a whole file is harmless: as long as
  the remote still has the version that was loaded. What happens otherwise
  (the later `Close` wins) is by design of the code.

Deadlock is checked except where the system may stop for good: a closed
connection, finished calls, a message that was read, open files that have all been
closed, and a process that has ended.

## Bounds

Every bound is a constant, with a comment where it is declared. They are chosen
so that the cases in question happen; each property is shown to fail, under the
same bounds, for a Slip that is noticed only when they do.

- `Conn`: `regularCh` of 2 and `controlCh` of 1, against 4 frames in messages of up to 2
  and up to 2 stray frames: both channels fill, a message is cut in the middle by a full
  channel, and `readLoop` is blocked on either. Two senders and two sends: an ID drawn
  first may be written last.
- `Handshake`: both channels of 1, against 2 frames in a message and 4 Control
  frames: both replies, and two more that nobody takes, of which the second blocks
  `readLoop`. One sender beside main and the keep-alive: all three may want the mutex.
- `Codec`: `Digit` is 16, so that a byte has five bits and a word twenty: less would not
  do, since the fifth digit of a VQL holds the last four bits of a word. Lengths and
  numbers are one digit (15), the first of two (16), of three (256), the first number
  that is no word (2^20), -1 (as a word, the greatest, and five digits), and lengths of
  nothing; arrays are empty and nested. Two values, in one frame (a header and a body)
  or two (headers alone), the message cut at every byte, a payload by up to two: the
  body is torn, or missing with the end of the header. No frame is longer than a word
  can say (`Fits`).
- `IPCClient`: two calls suffice for every confusion of two; four frames hold
  the initialization, both answers and one to spare that comes twice or late.
  Bare frames and keep-alives are covered by `Conn` alone.
- `Cache`: three keys, two places, two values, a TTL of 1 and 4 instants:
  eviction among live entries, among expired ones, and of the key that is set.
  (A cache of size 0 is covered by the proof of `CapacityBound`.)
- `CachedFS`, `NFSFileSystem`: two clients (a race is between a filler and one
  other), caches of one entry, one change by a client or by others, with its event. In
  the runs about order time stands still (`MaxTime` 0): nothing expires, so what is
  wrong stays wrong. `MCNFSFileSystem_age` has time instead, enough for an entry of the
  upper cache to outlive one of the lower; its `Timeout` is 0, so that a request ends
  at the instant it began: how long it takes only adds to the bound, which is
  otherwise tight.
- `FileBuffer`: two open files, contents up to two bytes, reads and writes of one
  byte, a change by others: gaps, overlaps, truncation below the position
  and reads at the end all occur.
- `Command`: one path that is followed (and all others as one name), with nothing,
  a file, or a directory of none or three entries; a request at a time, and a change by
  others; pages of 1 and 2 entries, so that the last page is full or not. Two
  goroutines for output events of one or two bytes, three bytes in all, acknowledged
  from two on: the threshold is met, exceeded and missed, by events that overtake
  each other.

IDs, versions and time are naturals that the bounds cap. In the code they have
32 or 64 bits; wrap-around is left out, since it takes 2^32 requests or frames.

## Fairness

- `Handshake`: fairness of `readLoop`'s steps: the Go scheduler runs a goroutine that can
  run, and the network reports an error to a read of a dead socket. It is strong, as is
  that of `Close` and of taking the mutex, because all of these may need `mu`, which
  others take and release meanwhile: Go's mutex hands over to a goroutine that has
  waited for a millisecond. Strong fairness of `KeepAliveStop`: a `select` with several
  ready cases picks at random, so a closed `closeCh` is picked in the end although the
  ticker keeps being ready. Weak fairness of `RecvControl`, which has a time-out, and
  of the return of a write to a socket that is broken or closed. That the other end
  reads what is written to it (`OtherEndReads`) and that a consumer keeps receiving, as
  `IPCClient.dispatchLoop` does (`Drained`), are hypotheses of properties and not part
  of the specification. Nothing is assumed of the server's answers, of senders, or of
  the decision to stop.
- `IPCClient`: weak fairness of each step of a call, its time-out included (the
  runtime's timers). That `WriteMessage` returns is part of the model, so
  `CallsReturn` is conditional on it, as `EverythingEnds` is on `OtherEndReads`.
- `NFSFileSystem`: weak fairness of each client's steps and of its time-out, which
  `CallsReturn` justifies. Nothing is assumed of the remote.
- `Command`: weak fairness of main, of the sending of a key, and of the goroutines of
  events: all of them run, and their calls return (`CallsReturn`). Nothing is assumed of
  the user, of signals, of the remote process, or of the remote. That `Low` is at least
  `AckSize` is an assumption about the VS Code server (it resumes at 5000 characters
  and the code acknowledges every 5000): were it less, output just below the unit
  could be held back for ever.

## What is proved

All theorems are about the specifications TLC checks, for **every** value of the
constants that satisfies the assumption stated in the module, not only the
values in the configurations. Every invariant and action property of a passing run
is among them. Each inductive invariant was checked by TLC
before it was proved.

`ConnProofs` (any senders, payloads, capacities of at least one, any bounds):

- `ConnTypeInvariant`: types, and capacities of the channels. `ConnTypeOK` is
  not inductive: that `reader` is at a step implies that `batch` is what that
  step needs. `TypeInv` adds `Framing`, which says so.
- `SignalImpliesClosedHolds`: from `Closing`, which relates `closed`, `closeCh`,
  the end of `readLoop` and the end of the stream.
- `WireIDsUniqueHolds`: from `IDsDrawn`: what is on the wire or built by a sender
  was drawn (it is at most `outgoingID`), and no two share an ID.
- `NoFrameLostHolds`, `AckMatchesDeliveryHolds`, `ImplementsFrameChannelHolds`: from
  `Delivery`, which says that the Regular frames in `regularCh`, `batch` and the
  messages of `inbound`, in this order, are numbered without gap from `consumed + 1`
  to `serverID`, as long as the reader lives. `Numbered` says it with a function from
  messages to the IDs before them, and `NoFrameLost` with the places of frames, so
  that no fold over messages is needed; `WayNumbered` leads from one to the other.
  The refinement maps `sent` to `serverID`, `received` to `consumed` and `ended` to
  `streamEnded`: each step is a step of `FrameChannel` or a stutter.

`HandshakeProofs` (the same, with the goroutine that dials and closes, and the mutex):

- `HandshakeIsConn`: every step of `Handshake` is a step of `Conn` or changes nothing of
  it, so that a write that blocks while it holds `mu`, for as long as it likes, adds no
  behaviour. `ChannelFromDialToClose` and `WireIDsUniqueFromDialToClose` follow: no
  frame is lost or repeated that comes during the handshake or while `Close` waits, and
  an ID drawn long before its frame is written is nobody else's.
- `OnlyAcceptedInUseHolds`: from `HandshakeInv`. Before the server has accepted at most
  one Control frame is on its way, and `replies` says what is in it (`NonePending`,
  `OnePending`): a second request is only written when the reply to the first has been
  taken. So whatever is taken after the second request answers that one.

`IPCClientProofs` (any calls and subscriptions, any answers and events, any bounds):

- `IPCClientIsConn`: every step of the IPC client is a step of `Conn` or changes nothing
  of it; with it come the theorems of `ConnProofs`.
- `IPCSafe`, the inductive invariant: that of `Conn` (`TypeInv` and `Delivery`), and
  `IPCInv`. The latter says that `nextID` is the number of those who have drawn an id,
  no two the same (`Fresh`); that a channel is in the table under its caller's id only,
  and empty as long as it is there (`TableInv`); and that every frame on its way is
  honest (`FramesInv`): an answer was given by the server to the request with its id, and
  an event is in the frame whose number it was fired with. From it follow
  `WaitingIsReachableHolds`, `DispatchNeverBlocksHolds` (`dispatchLoop` takes a channel
  from the table once, so that its one place is free), `NoHandlerLeftHolds` and
  `ImplementsRPCHolds`, in which each step is a step of `RPC` for one caller, or a
  stutter. `NoEventMissedHolds` needs `Delivery` too: which frame is delivered next.

`CacheProofs` (any finite or infinite set of keys, any bound and TTL):

- `CapacityBoundHolds`: `SetBound` shows that one eviction before an insertion is
  enough; it needs that the map is finite, which is part of the invariant.
- `TypeCorrect`, `NeverOutdatedHolds` (with the history `last`), and
  `EvictionOrderHolds`, an action property derived from `NeverOutdated`: entries
  expire in the order they were set, so the entry that expires first is the one
  set first.

`CachedFSProofs` (any clients, paths, changes, sizes, TTLs and time-outs), for `CachedFS`
alone and with the NFS mount on top, which adds steps between those of `CachedFS`:

- `OneFlightPerKeyHolds`: from `FlightInv`, which adds the types of `pc`, `key`
  and `leader` it needs.
- `CachedFSInvariant`: `CachedInv`. An answer is held by a cache, or by a caller that the
  remote has answered; `Held(k)` is the set of those held for `k`. What is held after a
  step was held before, is marked `raced`, or is what the remote says now (`HeldOrigin`),
  and an invalidation leaves only answers that it has marked (`DropRaces`). So it is
  enough to say of all that are held for a key that each contains a change or is marked
  (`NotOlder`), unless the step that invalidates the key for this change is still to
  come: `WatchInv` says so of changes with an event, `WritesInv` of those of clients,
  and of those that a reader has seen to be done (`floor`). `AgeInv` relates the age of an
  answer to where its holder is. `StaleIsExplainedHolds`, `OnlyRacesMissWritesHolds` and
  `StalenessBoundedHolds` are read off where an answer is cached or returned.
- `NFSInvariant`: `NFSInv` says the same of answers in the upper layer (`NFSHeld`,
  `NFSHeldOrigin`, `NFSDropRaces`), with the TTLs added up, and uses `CachedInv` for what
  comes up from below. `NFSStalenessBoundedHolds` and `OnlyRacesHideChangesHolds` follow.

`OpenFilesProofs` (any number of open files, contents of any length,
anything read, written, sought and cut off):

- `FilesInvariant`: `FilesInv`, the inductive invariant. Every open file and every
  content on its way to the remote is `Good`: it holds what was written to it, and agrees
  with the remote outside `touched` while the remote has the version (`base`) it was
  loaded from; what was written makes it dirty. Every Close waits for what it sent.
  Neither half follows from the properties themselves: they speak of a request when
  it is carried out, the invariant of the buffer from the moment it is loaded.
- `WrittenBytesArriveHolds`, `OnlyOwnBytesChangeHolds`, `SuccessIsFinalHolds`: action
  properties of `MountSpec`, whichever backend is chosen. The lemmas `PaddedContent`,
  `OverwrittenContent`, `ResizedContent` and `WrittenContent` say what the operations do to
  a sequence of bytes; `GoodWritten`, `GoodTruncated` and others say that each keeps a
  file `Good`. They are about `FileBuffer`, and both backends use them. A second `Close`
  keeps `failed`, so that `SuccessIsFinal` can tell a first success from it.

`CommandProofs` (any output, any tree, any number of goroutines and of failures):

- `NothingLeftHolds`: from `CommandInv`. `NothingLeft` speaks of the end only; the
  invariant says of every moment that what has been done (raw mode, a subscription, the
  watch, the connection) has its deferred call on the stack (`UndoneInv`), that the
  stack has `Close` at its bottom and nowhere else, so that all others still find a
  connection that nobody has closed (`StackInv`), and from where a session may be left
  while its shell stays (`ShellInv`): after a request to end it that failed, or deserted.
  The lemmas `Push` and `Pop` are about stacks.
- `OutputAccountedHolds`: from `OutputInv`. The property sums over goroutines with a
  fold, and what a fold computes needs an induction over finite sets. The library's
  induction theorems cannot be instantiated here, so `Least` derives what is needed from
  the well-foundedness of `<`: a set of counterexamples has one of least cardinality.
  With it `SumsExist`, `SumsAreNumbers` and `SumsDiffer` say that a sum is a number, and
  moves by as much as one of its terms (`BytesDiffer`).
- `RemovesOnlyWhatItSawHolds`: from `TreeInv`: a request that saw a file does not ask for
  a recursive deletion, and without it the remote refuses a directory that has entries.
- `PagesAreTheListingHolds`: from `PagesInv`: what was given so far is the part of the
  listing before the position of the directory.

`CodecProofs` (bytes of any size from five bits, any values, any texts of JSON, any
number of frames, any loss):

- `VQLRoundTrip`: `ReadVQL` gives what `WriteVQL` wrote, for every word. After each
  digit, what the digits so far add up to and what is left behind them (`Rest`) still make
  up the number; after the fifth nothing is left.
- `ValueRoundTrip`: the same for `Serialize` and `Deserialize`, any value that is shorter
  than a word can say, standing anywhere in a buffer (`Survives`). It is an induction on
  how deep arrays nest: the set of the numbers below which all values survive contains 0
  and is closed under the successor, hence contains all (`EveryNumber`, again from
  the well-foundedness of `<`). Within an array the same argument runs over its elements.
- `TornReads`: of a buffer that lacks its end `Deserialize` gives what it gives of the
  whole one, or an error, whatever the bytes are. So a value that is read of a
  torn payload was written there, and none is made up from what is left.
- `FrameRoundTrip`: `DecodeFrame` gives what `EncodeFrame` wrote, whatever follows, if the
  frame is there as a whole, and an error if not.
- `RoundTripHolds`: from `CodecInvariant`. `RoundTrip` speaks of what has been read;
  that the next read is right too needs to know where the rest of the message is
  (`MessageRight`: it stands in the message where the first unread frame does) and the
  rest of the payload (`PayloadRight`: the header, and then the body, stands at its
  beginning, as far as the payload was not cut). `NextHeaderKeeps` and `NextBodyKeeps`
  are the two steps of `dispatchLoop`; `TornReads` gives their failures. `Laid` says
  where the parts of a concatenation stand, so that no fold is needed: that `FlattenSeq`
  lays its parts like that (`FlattenLaid`) is proved once.

What stays with TLC is liveness, which the provers cannot do: `Shutdown`,
`EveryFrameArrives`, `DeadSocketNoticed`, `EverythingEnds`, `CallsReturn`,
`OperationsReturn`, `OutputResumes`, `CommandEnds`.

Four things were changed in the models for the sake of proofs. `Codec` was written with
recursive operators, of which TLAPS cannot say anything, and with a word of two bytes;
it now has recursive functions and the counts of the code, so that what is proved of any
`Digit` holds for the one the code has. In
`Handshake`, `SendControl` and `AfterReply` had `CASE`s with overlapping guards, of
which TLA+ does not say that the first is taken, as the code does: they are now nested
`IF`s. `TerminalAssumption` did not say that the bytes of an event are a number, nor
that there are finitely many goroutines, without which their sum means nothing; nor
`DavTreeAssumption` that directories are finite. And `IPCAssumption` allowed messages
that hold no frame (`MaxMessage` 0), so that nothing could be answered.

## Findings

Each has a run that ends in a counterexample.

1. `MCCachedFS_writes`: a `Stat` (or `ReadDir`) that is answered before a write
   and stores its answer after the write's invalidation leaves the old metadata
   in the cache until the TTL ends; a `Stat` that starts after the write may
   also join that call (`cachedfs.go:44-49`; `cachedfs_test.go:121-126` expects
   the next `Stat` after a write to ask the remote).
2. `MCDavFile_put`: `OpenFile` of WebDAV ignores `O_TRUNC` for a file that exists,
   so that a PUT of less than was there leaves the old tail
   (`webdav/filesystem.go:57`; `server_test.go:196` expects what was written).

Met on the way, visible in the models, and not the subject of a run:

- A second `Close` after one that failed returns nil, with the content lost
  (`nfs/file.go:158-160`, `webdav/filesystem.go:146-148`; `nfs/file.go:14` and
  `docs/superpowers/specs/2026-04-12-multi-backend-mount-design.md:64` say that changes
  are flushed on close): see `CloseAgain`.
- The error of a body that cannot be read is ignored (`ipc.go:87`): an answer that lacks
  its end is a success with nil for its caller: see `NextBody`.
- `DecodeFrame` would panic at a payload length within 13 of 2^32 (`frame.go:50-57`): see
  `FrameEnd`. No frame that `EncodeFrame` wrote has one.
- A session that fails to start after `CreateProcess`, or ends by a failing key or input,
  leaves its shell to the server (`session.go:57`, `68`, `74`, `101`, `107`): see `Deserted`.
- `IsNotFound` looks for parts of the text of an error (`types.go:83-93`); the models take its
  answer for exact.
- The cache evicts by the time of the last `Set`, not of the last use
  (`cache.go:14` and `docs/architecture.md:38` say LRU): `EvictionOrder` is the
  order it does have.
- `Set` of a key that is present in a full cache evicts an entry although nothing
  would exceed the bound (`cache.go:44` says "if over capacity"): see `Evict`.
- The cache is not looked up again inside singleflight, so that of two concurrent
  `Stat`s both may call the remote, one after the other (`cachedfs_test.go:77`
  expects one call).
- `README.md:57` and `session.go:24` say that Ctrl+C ends a session. In raw mode the
  terminal makes no signal of it, and it is forwarded as a key; only a signal from
  elsewhere reaches `Select`.
- A signal that comes when `signal.Stop` has been called ends the process before the
  local terminal is restored: see `Signal` and `NothingLeft`, which excuses it.
- Output is counted in bytes where the comment (`client.go:14`) says chars, and output
  of other terminals is counted, and acknowledged, as this one's (`client.go:180`): see
  `HandleOutput` and `OutputResumes`.
- If `Listen` fails after the request to watch has succeeded, nothing cancels the
  request: see `Listen` in `Command`.
- `docs/usage.md` says that neither the cache nor the file watch is connected
  yet, and `docs/large-project-performance.md` (lines 82 and 97) lists as open
  what `cachedfs.go` does by now.

## What is not modelled

- `SetDebug` and other output; the parsing of answers in `remotefs.Client` and
  `terminal.Client`, which maps fields and keeps no state; `ListProcesses`, which
  nobody calls; what `Resize` does at the server.
- Path mapping (`abs`, `Chroot`), file modes, and the metadata an open file reports:
  pure, and nothing in the code depends on them. Paths are sequences of names:
  cleaning and URI encoding are left out.
- The NFS, WebDAV and HTTP libraries, with their listeners and handles: external. They
  are goroutines that call the backend. The listener that stays open when `MkdirAll`
  fails is left out: the process ends. So are the texts of mount commands.
- The URLs, cookies and headers of `auth`, of which only the outcome counts.
- Data races on single fields (the shared `*FileStat`, `cachedfs.go:55`): below the
  granularity of the models.
- Answers with a whole header and a torn body, above `Codec`; operations other than `Close`
  on a closed file.
- A frame that is spread over two WebSocket messages: whether the server ever does that
  is outside the code, which would drop both halves.

## Plan

All stages of modelling are done: `Conn`, `Handshake`, `Codec`; `IPCClient`; `Cache`,
`CachedFS`, `NFSFileSystem`; `FileBuffer` with both backends; `DavTree`, `Terminal`,
`Command`. So are the proofs of all safety properties. What could follow:

1. What `HandshakeIsConn` and `IPCClientIsConn` carry over could be stated for the two
   together: a connection that is dialled, used by `IPCClient`, and closed.
2. `IPCClient` with the bytes of `Codec`: answers are honest there because frames say what
   was written, which `RoundTripHolds` shows of the bytes below them.

## How to run

```
tlc -config MCConn_frames.cfg MCConn     # any run: MC<module>_<name>.cfg
tlapm ConnProofs.tla                      # any proof module
```

Every run takes about two minutes or less with two workers.
