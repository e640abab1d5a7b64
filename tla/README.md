# spiped: TLA+ models and proofs

This directory is a formal model of spiped, the secure pipe daemon, and of its
client spipe. The modules are translated from the C code of the repository.
TLC checks them on small instances; TLAPS proves the central theorems for all
values of the constants. `PROJECT.json` maps every definition to the lines it
models, and lists the runs, the mutants that show each property can fail, the
hazards and the theorems.

To repeat the checks, in this directory:

    tlc -config MCProtoConn.cfg MCProtoConn
    tlapm ProtoConnProofs.tla

## 1. The system and its parts

spiped accepts connections at a source address and forwards each of them to a
target address, encrypted on one side. spipe does the same for one connection
between stdin/stdout and a target. Both are one process with one event loop;
threads are used to resolve names (spiped) and to copy stdin and stdout
(spipe).

| Part | Code | State | Operations | Module |
|---|---|---|---|---|
| event loop | `events/events.c`, `events_immediate.c`, `events_timer.c` | queues of immediate events, timers, interrupt flag | register, cancel, reset, run, spin, interrupt | `EventsLoop` |
| network event registry | `events/events_network.c` | socket list, poll array, scan position | register, cancel, select, get | `EventsNetwork` |
| timer queue, heap | `datastruct/timerqueue.c`, `ptrheap.c` | heap array, position cookies | create, add, delete, increase, decrease, get | `TimerQueue`, `PrioQueue` |
| elastic arrays | `datastruct/elasticarray.c` | size, allocation | init, resize, append, shrink, truncate, export, free | `ElasticArray` |
| memory pools | `datastruct/mpool.h` | stack of spare structures, statistics | malloc, free, exit handler | `Mpool` |
| key stream | `crypto/crypto_aesctr*.c` | counter block, position | init, stream, free | `AesCtr` |
| random bytes | `crypto/crypto_entropy.c`, `util/entropy.c` | generator, counter of uses | read, seed, reseed | `Entropy` |
| hashes | `alg/sha256.c` | state, bit-count, buffer | SHA256, HMAC, PBKDF2 | `Sha256` |
| key exchange | `crypto/crypto_dh.c` | big numbers, key pairs | generate, check, compute | `DiffieHellman` |
| choice of code | `cpusupport/`, `crypto/crypto_aes.c`, `crypto_aesctr.c`, `alg/sha256.c` | cached features, three cached choices, expanded keys | detect, self-test, expand, encrypt, free | `HwAccel` |
| buffered reads | `netbuf/netbuf_read.c`, `network/network_read.c`, `network_write.c` | buffer, positions, read in progress | init, wait, cancel, peek, consume, free | `Netbuf`, `NetbufReader` |
| addresses, sockets | `util/sock.c`, `sock_util.c` | address lists, socket | resolve, copy, serialize, listen, connect | `Sock` |
| command line | `util/getopt.c`, `getopt.h` | option table, position in the words | getopt, switch, registration | `Getopt` |
| privileges | `util/setuidgid.c`, `setgroups_none.c` | ids and groups of a process | set group, set user, leave groups | `SetUidGid` |
| connecting | `network/network_connect.c` | address list, socket, timer | connect, callbacks, cancel | `NetworkConnect` |
| packets and keys | `proto/proto_crypt.c` | keys, packet numbers | derive, encrypt, decrypt | in `ProtoHandshake`, `ProtoPipe` |
| handshake | `proto/proto_handshake.c` | nonces, parameters, cookies | start, callbacks, cancel | `ProtoHandshake` |
| pipe | `proto/proto_pipe.c` | reader, output buffer, status | start, read, write, cancel | `ProtoPipe`, `ByteStream` |
| connection | `proto/proto_conn.c` | cookies of six operations, sockets, keys | create, callbacks, drop | `ProtoConn`, `Connection` |
| resolver thread | `dnsthread/dnsthread.c` | structure shared under a mutex | spawn, resolveone, kill, worker | `DnsThread` |
| thread creation | `util/pthread_create_blocking_np.c` | structure shared under a mutex | create, wrapped thread | `CreateBlocking` |
| dispatcher | `spiped/dispatch.c`, `network/network_accept.c` | connection list and count, accept, DNS timer | accept, conndied, shutdown | `Dispatch` |
| graceful shutdown | `util/graceful_shutdown.c` | flag, timer | handler, timer callback | `Dispatch`, `Spipe` |
| server start-up | `spiped/main.c`, `util/daemonize.c`, `ipc_sync.c` | resources, pipe between two processes | main, daemonize | `Startup` |
| client | `spipe/main.c`, `spipe/pushbits.c` | threads, connection, flags | main, threads, callbacks | `Spipe` |

How they interact. Every operation that takes time is started with a callback
and returns a cookie; the callback, or a cancellation, ends it. A callback
runs to its end before the event loop starts another one, so the steps of the
event-driven modules are whole callbacks. A callback that returns non-zero
ends the loop, and then the program. Only `DnsThread`, `CreateBlocking` and
the two threads of `Spipe` run at the same time as anything else; there, a
step is what a thread does between two synchronizing operations.

What makes this code hard to test, and what correctness means:

- A connection has up to six operations in flight, any of which may end or
  fail first. Whatever the order, each must be cancelled or have answered
  before the structure is freed, and everything is released exactly once.
- A timeout races the answer it guards, in connections and in connects.
- The poll array is reshuffled by callbacks in the middle of a scan. A ready
  event must not be skipped or handed to a descriptor that took the number.
- The stream may be cut or altered at any byte. The receiver must deliver
  a prefix, and report EOF only for a stream that ended between two packets.
- SIGTERM may arrive at any moment, with connections in any state.
- Two threads share memory that one of them frees.
- Sizes wrap around, buffers are exactly full, arrays are empty.
- Half a dozen allocations in a row, any of which may fail, are undone by
  labels that free exactly what there is.
- Choices made once and kept in several files must agree for as long as the
  process lives.

The hazards, each at its line and with the properties that would catch it
going wrong, are listed in `PROJECT.json`.

## 2. Modules and how they correspond to the code

Each module opens with a comment that says how its variables stand for the
fields of the C structures. Actions have the names of the C functions. A
callback is one action with its tail calls included; an early return is a
disjunct or a guard. Failures of allocations and system calls are
choices wherever the code tests for them. Bytes, addresses, keys and event
records are numbers or model values.

- `EventsNetwork`: `S` and `fds` hold one function per field; bit masks are
  sets. The `assert`s of the code are not assumed; they follow from the
  invariants. `stayed` is a history variable (descriptors registered without a
  gap since the last poll).
- `EventsLoop`: `pc` is the place in `events_run_internal`; the registry and
  the heap are abstracted to what they promise. `promised`, `ran`, `late` are
  history variables.
- `TimerQueue` keeps the array and the cookies of the heap, and implements
  `PrioQueue`, a set of records with times.
- `ElasticArray` computes with sizes modulo `SIZE_MAX + 1`; `want` is the size
  in unbounded arithmetic.
- `Mpool`: the structures the program has, those on the stack and those that
  are malloced are sets and a sequence, so that a leak or a structure with two
  users shows.
- `AesCtr` keeps the counter block as the code does, the last byte apart from
  the others, and alternates the generic and the accelerated code. A byte of
  output names the byte of the key stream it was combined with.
- `Entropy` numbers the keys of the generator in the order they are made; every
  step of reading the seed may fail. `calls` and `buf` are history variables.
- `Sha256` computes on bytes that say where they come from, with a symbolic
  compression function, and compares with the definitions of FIPS 180, RFC 2104
  and RFC 2898. Its count of bytes does not wrap around; the code's does after
  2^64 bits, more than FIPS 180 allows a message to have.
- `DiffieHellman` computes with real, small numbers: digits of base 5, a modulus
  of two digits, every private key and every blinding exponent. The calls of
  `blinded_modexp` are a table of what they allocate and the label they go to.
- `HwAccel`: `machine` is the build and the processor; it is chosen once, and
  so is which of its variants compute wrong results. An expanded key is the
  name of the code that expanded it; `uses` is a history variable.
- `NetbufReader` is `Netbuf` in the hands of any caller that keeps to the
  assertions of the code, with waits of every length.
- `Sock`: a behaviour is one call. Strings are sequences of the characters that
  the code looks at, with one token for a number, an IPv4 address or a word.
- `Getopt`: strings are sequences of characters; the program is a table from
  lines to labels. `Parse` is the description in `getopt.h`, written down
  without the machine, to compare with.
- `SetUidGid`: functions from the credentials of a process to new ones;
  `Startup` applies them to all strings, processes and failures, and to a
  build without `setgroups`, where root keeps its supplementary groups.
- `NetworkConnect`: one call, with the kernel's view of each socket (`sock`).
- `ProtoConn`: a record per connection with the cookies it has (`cookie`) and
  the operations that really exist (`live`). It implements `Connection`, which
  is what an owner of connections may rely on.
- `ProtoHandshake`: both ends and the two byte streams between them. Values
  are symbolic: a Diffie-Hellman value is the set of exponents in it, a MAC is
  the pair of its key and its text. The network and the ends may fail.
- `ProtoPipe`, on top of `Netbuf`: an encrypting and a decrypting pipe in a
  row, byte by byte, every `recv` and `send` moving any part of what it could.
  It implements `ByteStream`.
- `Dispatch`: the server on top of `Connection` (not of `ProtoConn`: that
  `ProtoConn` implements `Connection` is what makes this sound).
- `DnsThread`: the main thread and the worker. `user` is the caller:
  `"timer"` is `dispatch.c`, `"once"` is `dnsthread_resolve`, `"eager"` asks
  whenever the interface allows it.
- `CreateBlocking`: parent and thread, with failing pthread functions.
- `Spipe`: the client on top of `Connection`, with its two threads. `Programs`
  puts it beside the server.
- `Startup`: `main` of the server up to `dispatch_accept`, run by a parent
  and, after `daemonize`, by a child.

## 3. Runs

The MC modules put components that do not share state side by side in one
run. In such a run one component starts in an initial state and the others are
at rest; two of them never move in the same behaviour, so the state space is
the sum and not the product, and each is checked exactly as if it were alone.
Properties of one component that are about the same thing are one conjunction;
its parts have names and comments of their own in the module.

Passing runs:

| Run | Instance | What it shows |
|---|---|---|
| `registry` | 3 descriptors, first allocation 1, at most 4 entries | `RegistryIsSound`: the invariants 1 to 5 that `events_network.c` documents (`RegistryAgrees`); the scan misses nothing that is ready, and readiness is not inherited by a reused descriptor (`ReadinessIsRight`) |
| `connection` | 2 connections; 1 connect with up to 3 addresses; 3 requests to the resolver thread from 3 kinds of callers; 1 thread creation | a connection owns what its cookies name and releases everything once (`ConnectionIsClean`), each operation has its timer (`SetupGuarded`), refinement of `Connection`, every set-up ends (`SetupEnds`); a connect owns what its cookie names (`AttemptIsClean`), answers once and rightly (`AnswerIsRight`), and does answer if it has a time limit (`Answered`); memory shared with the resolver thread is freed when no one will use it (`SharingIsSafe`), each request gets its own answer (`AnswersAreRight`), thread creation is safe (`CreateIsSafe`), and neither waits for ever (`ThreadsGoOn`) |
| `handshake` | 2 secrets, all options of both ends, 2 faults; 3 uses of the generator between seeds; blocks of 5 bytes with a count of 2, keys derived of up to 5 bytes; the group modulo 23; every build and processor, 2 keys | ends that complete have met each other, share keys, and have the secrecy `-g` asks for (`Agreement`); no order of callbacks leaves an end stuck or with an operation pending (`CallbacksSound`); without faults it ends (`HandshakeEnds`); the generator is seeded in time and fails safely (`EntropyIsSound`); digests are those of the standards (`DigestIsRight`); blinding does not change a key, both ends get the same one, and every number is freed wherever a call fails (`KeyExchangeIsRight`); keys are used by the code that expanded them, and only code that was tested is used (`OneImplementation`) |
| `pipe` | 5 bytes, 2 per packet of 3, buffer of 7, output buffer of 6, 1 failure; a reader with waits of 0, 2, 7, 8 and 16; a key stream of 11 bytes, blocks and counter bytes of 2 | buffers are kept to, and a pipe has one operation in progress (`BuffersSound`); output is a prefix, EOF is clean (`OutputIsRight`); refinement of `ByteStream`; without failures everything arrives (`AllDelivered`); a reader hands out the stream without gap or repetition while its buffer moves and grows (`ReaderIsRight`); each byte is encrypted with its own byte of the key stream (`StreamIsRight`) |
| `programs` | 3 connections, limit 2; the client; the start of a server with all relevant options; all command lines of one word of up to 4 characters and many of two and three; all strings of up to 3 tokens and longer ones that look like addresses | the count is exact, the server listens exactly when it should and looks up its target again and again (`ServerIsSound`); every exit is clean (`CleanExit`); a requested shutdown completes once the connections have ended; the client ends when it should, with the right status (`ClientExitsRight`, `ProgramsEnd`); the parent of a daemon tells the truth and ends, everything allocated is freed once, and no connection is accepted with privileges that were to be given up (`StartupIsRight`); a command line means what `getopt.h` says (`OptionsAreRight`); an address string is resolved if and only if it has one of the documented forms, to what it says, nothing is lost or freed twice whatever fails, and a socket is returned only when it is ready (`AddressesAreRight`) |
| `events_loop` | 3 events of any kind, 2 sockets, 2 priorities, 1 signal | order of immediate, network and timer events (`Order`); `events_run` runs at least one event if there is one, and an interrupt stops after at most one more (`LoopIsSound`); nothing pending is forgotten (`AllHandled`) |
| `datastruct` | `SIZE_MAX` 31, record lengths 1, 3, 4; heaps of 6 records, 4 times; a pool of 1 entry, 7 requests | sizes are exact in spite of wraparound (`ArrayIsSound`); the heap property and the cookies (`HeapIsSound`); refinement of `PrioQueue`; the pool loses nothing and hands out nothing twice (`PoolIsSound`) |

Five runs end in a counterexample that shows a disagreement between the code
and what its comments, its manual or its other parts say. The details are in
the findings of `PROJECT.json`.

- `connect_fatal`: `network_connect.c:178` promises the callback on a fatal
  error; the code frees the cookie and returns without it. The owner is left
  with a dangling cookie until the program ends, and cancels it there.
- `spipe_join`: SIGTERM and a connection error in the same pass of the event
  loop; the threads of spipe are cancelled and joined twice.
- `spipe_drop`: the event loop fails in a callback that had dropped the
  connection; `main` drops it again.
- `netbuf_wait`: `netbuf_read.c:143` promises status 0 only if the data is
  there; at the end of a stream it is given for fewer bytes than were waited
  for. The pipe counts the bytes itself.
- `sock_port`: the manual says that the port of the address to bind may be left
  to the system. `sock_resolve_one` adds the port 0 for that, which
  `sock_resolve` refuses for an IP address in brackets.

### Why the bounds are enough

- Three descriptors give a poll array with a first, a middle and a last entry:
  the moved entry, the hole and an entry that stays are then different. The
  array grows 1, 2, 4. Larger arrays are the subject of a proof.
- Connections share only the event loop, so two show every interaction.
- Three addresses: a failed one, a current one and one that is left.
- Two faults in a handshake: one in each direction, or one after the other.
- Five bytes in packets of two: two full packets and a short one. A buffer of
  7 for packets of 3 makes data wrap to the start of the buffer, as 4096 does
  for packets of 1060.
- Three connections for a limit of two reach, leave and reach the limit again.
- Three requests: one that is answered, one in progress, one refused.
- Eleven bytes of key stream in blocks of two, with counter bytes of two values,
  make the last byte of the counter wrap three times. A stream may start
  again at any point, with what the previous one left in the counter block.
- Twelve bytes of input in blocks of five with a count of two give every rest,
  with and without room for the count, after none and after one whole block,
  and inputs that span two. Keys are shorter than, as long as and longer than a block.
- Sixteen changes of the key let the generator be seeded, used up and seeded
  again, with failures in between and requests cut in three parts.
- A pool of one entry doubles three times within seven requests.
- A heap of six has three levels, with a node that has only one child.
- A buffer of 7 and waits of 0, 2, 7, 8 and 16: nothing, less than the buffer,
  all of it, one more, and more than twice as much.
- The modulus 23 has elements of one and of two digits, so that results are
  padded, and all pairs of keys are tried. What depends on the group being
  large is not a property of this code.
- Strings of three tokens, and addresses in brackets with ports of up to two
  numbers, contain every order of the characters that the code looks for, and
  the ports 0, 1, 65535 and 65536. Lists of up to two addresses fail in the
  first and in the second.
- Words of four characters hold a long option with and without argument, or
  three packed options. An option may be unknown, a prefix of another one, or
  lack its argument at the end of the line.
- Two AES keys, expanded before and after other choices were made; builds have
  any subset of the features of one architecture.

### Deadlock

`CHECK_DEADLOCK FALSE` is given for everything that ends: connections that
are all dead, programs that have exited, or a bounded number of events that
are all over. Being stuck before that is excluded by the liveness properties.
The registry never stops, and deadlock is checked there.

### Fairness

- Timers expire: `callback_connect_timeout`, `callback_handshake_timeout`,
  `graceful_shutdown`, `Tick`. The event loop computes its time limit from the
  first timer (`events_run` properties).
- The event loop runs a callback that may run (`MainNext`, `Callbacks`,
  `PipeNext`, `EndNext`), since `poll` is level-triggered and the loop handles
  everything it reports.
- Nothing is assumed of peers, of sockets becoming ready, of signals or of
  stdin. `HandshakeEnds` and `AllDelivered` say themselves that they are about
  behaviours without failures.
- For spipe, somebody takes what is written to stdout. Without that, its
  writing thread may block and the program waits for it, as it should.
- Threads run, and a mutex goes in the end to a thread that keeps asking for
  it (strong fairness, `DnsThread`).
- Fairness never covers a failing alternative: it is stated of
  `... /\ failed' = failed` where an action may also fail, so that no property
  holds because something had to fail.
- In `EventsLoop`, callbacks return, and register a bounded number of events:
  a callback that registers an immediate event each time starves all others,
  by design of the priorities.

## 4. Proofs

Eight modules hold theorems; TLAPS checks every leaf. All are about arbitrary
constants, subject only to the named assumptions of the modules. Every safety
property, action property and refinement that a passing run checks is the
conclusion of a theorem, except the three at the end of this section.

| Module | Theorems | About | Assumes |
|---|---|---|---|
| `NetworkProofs` | `RegistryCorrect`, `HandedOutWasRegistered` | `EventsNetwork` | `NULL` is not a record; `InitAlloc <= MaxAlloc < SizeMax` |
| | `ReaderCorrect` | `NetbufReader` | `NETBUFLEN` positive; lengths are numbers |
| `EventsLoopProofs` | `LoopCorrect`, `OrderCorrect` | `EventsLoop` | there is a priority; delays and bounds are numbers |
| `ProtoConnProofs` | `ConnectionsAreClean`, `ConnectionsNeverWedge`, `ConnectionRefinement` | `ProtoConn` | nothing |
| | `AttemptCorrect`, `AnswerCorrect` | `NetworkConnect` | `MaxAddr` is a number |
| | `ThreadIsSafe`, `AnswersCorrect` | `DnsThread` | `NULL` is not a request |
| | `CreateCorrect` | `CreateBlocking` | nothing |
| `ProtoHandshakeProofs` | `HandshakeAgrees`, `CallbacksAreSound` | `ProtoHandshake` | that the symbolic MACs and hashes do not collide, which is how the module represents them |
| | `OneImplementationHolds` | `HwAccel` | `"NULL"` is not a key |
| | `EntropyCorrect` | `Entropy` | `GENERATE_MAXLEN` positive; the other bounds are numbers |
| `ProtoPipeProofs` | `PipeCorrect`, `BuffersCorrect`, `OutputCorrect`, `PipeRefinement` | `ProtoPipe` | a packet holds a byte and is longer when encrypted; the output buffer is a whole number of packets |
| `CryptoProofs` | `StreamCorrect` | `AesCtr` | blocks are not empty and a byte has a value; `MaxStream` is a number |
| | `KeyExchangeCorrect` | `DiffieHellman` | a byte has two values; the modulus is not zero; lengths are numbers |
| | `DigestCorrect` | `Sha256` | the bit-count is shorter than a block and a digest is not longer than one; bounds are numbers |
| `ProgramsProofs` | `DispatcherCorrect`, `ExitIsClean`, `ShutdownIsFinal` | `Dispatch` | `nconn_max` a number, `Conn` finite |
| | `ClientCorrect` | `Spipe` | nothing |
| `DatastructProofs` | `ArrayCorrect` | `ElasticArray` | record lengths in `1 .. SIZE_MAX` |
| | `PoolCorrect` | `Mpool` | the first allocation is not empty |
| | `HeapCorrect`, `QueueRefinement` | `TimerQueue` | `NULL` is not a record; times and bounds are numbers |

The arguments:

- *Registry.* The documented invariants are inductive only together. Moving
  the last entry into a hole keeps the masks right because the pointers agree,
  and the scan right because every entry above `fdscanpos` is idle. The
  comment in the code states its invariant 6 with `<`, which does not
  hold of the entry a scan starts at; `<=` does, and is what is proved.
- *Event loop.* `QueueInv` is about the three modules that keep events: a
  pending event is in exactly one place, and each queue is in the order of
  registration. Every call keeps it, wherever it is made from. `ControlInv` is
  about `events_run`: what it needs to keep its promise at each place of it
  (`Kept`), how many callbacks an interrupt lets through (`Stopping`), and that
  the poll does not outlast the first timer (`Sleeping`). `Order` follows
  from what a step that runs an event has just looked at.
- *Connections.* The invariant `Good` says of one connection what it owns in
  each of its phases (not created, alive, gone). Every callback is shown to
  take a good connection to a good one; `DroppedGood` is the lemma about
  `proto_conn_drop` that all of them use. The refinement of `Connection`
  follows callback by callback.
- *Connecting.* `AttemptInv` is by what the caller has been told. While it
  waits there is one open socket, or the immediate event once all addresses
  are used up, and the timer if there is a limit. Once it has an answer, was
  refused or has cancelled, nothing is left of the attempt, and likewise when
  the loop fails.
- *Resolver thread.* `Life` relates the places of the two threads, the holder
  of the mutex and the state; with it `T` is never used after it was freed.
  `Pending`, `Work` and `Wakeup` follow the one request of a caller that waits
  for answers, from the request to the byte that announces it. The answers of
  an "eager" caller are not right (see below), and nothing is claimed of them.
- *Thread creation.* `BlockingInv` says who holds the mutex by where the two
  threads are, what `running` and `rc` mean then, and who has freed the
  argument. The failures that section 5 describes are excluded by the property.
- *Handshake.* `Kind` says what is in a stream, and `Sent` who made it: a MAC
  that is not damaged is the one its sender computed from its own secret and
  the nonces it has. So a MAC that verifies means equal secrets and nonces
  (`Accepted`); that both keys are then equal follows from what an end has
  done when it completes. Damage and loss only ever remove such facts.
- *Choice of code.* The cache in front of the detection is transparent: what it
  answers is what detection would answer (`CacheIsTransparent`). So the
  choice does not depend on when it is made, and the two files that choose for
  AES choose alike (`AesChoice`, `ChooseKeeps`).
- *Random bytes.* The counter in the generator is one ahead of the calls since
  the last seed, and every block given out was made with an older key
  (`EntropyInv`). The device is open only while a seed is read.
- *Pipe.* How the stream is cut into packets depends on how reads happen to be
  split. `PipeInv` says that there is a cut of it, a function from packets
  to positions, that accounts for every byte: read and not yet encrypted, in
  the output buffer, on the wire, buffered by the other end, put out (`EncOk`,
  `DecOk`). A step that encrypts extends the cut. A damaged byte is in no
  packet that is accepted, and EOF is reported only at a position of the cut.
  `ByteStream` is refined because a delivery only ever appends bytes that were
  sent.
- *Reader.* The buffer, consumed part included, is a piece of the stream that
  ends where the bytes of the read in progress begin (`Holds`). Moving the
  data or giving it a larger buffer changes how much of the consumed part is
  kept and nothing else (`MovedFacts`).
- *Key stream.* `CtrInv` relates the position in the stream to the counter
  block, whose last byte the code counts apart from the others: it holds the
  number of the last block made, whichever variant made it. The last byte of
  a new stream is one before zero, so that its upper bytes, which may be
  anything, are set with the first block.
- *Key exchange.* Which numbers are allocated is a function of the line a call
  has come to (`LinesOk`), and so is what each end has got by then
  (`ValuesOk`). The rest is arithmetic for any modulus: powers add and multiply
  (`PowAdd`, `PowTimes`), so that blinding cancels out (`BlindedIs`) and the two
  keys are one power of 2; the digits of a number below the modulus, filled up
  with zeros, give the number back (`DigitsRoundTrip`, `ExportIs`); and
  comparing digits is comparing numbers (`SanityIs`), so that no end refuses
  what the other one generates.
- *Digests.* A context has absorbed a message (`Absorbed`) if its state is the
  whole blocks of it, in order, and its buffer starts with the rest; what is
  behind the rest is left over from earlier blocks. `UpdateIs` says that a
  piece of any length takes a context that absorbed m to one that absorbed
  m with the piece, by induction over the whole blocks in it, and `PadIs` that
  padding with or without an extra block ends where FIPS 180 says (`FinalIs`).
  HMAC and PBKDF2 follow call by call, the iterations of the latter by
  induction (`RoundsIs`). `HashInv` is that the context in use has
  absorbed what was fed to it.
- *Dispatcher.* What makes the invariants inductive is what holds outside of
  the loop: before it runs nothing has happened (`Fresh`), an accept in
  progress implies room (`AcceptHasRoom`), and what was cancelled stays so
  (`Down`).
- *Client.* `ClientInv` is what `main` may conclude from where it is: it joins
  the threads only after the connection was closed, and a signal or an error
  that ended the loop is still recorded when the status is chosen.
- *Arrays.* The size computed by `resize` is never too small, although the
  doubling may wrap around, by cases on the wraparound.
- *Pools.* The spare structures, those in use and those freed are a partition
  of what was malloced, and the exit handler is registered before there is
  anything it has to free.
- *Heap.* `IsHeap` is the order along every edge together with the cookies.
  Sifting up and down break it at one place (`Sinks`, `Rises`), and each round
  moves that place; the loops are recursive functions of the number of rounds,
  and what they end with is proved by induction over it. `PrioQueue` is
  refined because the root is then before every record (`MinIs`).

Recursive functions over numbers are reasoned about with one lemma, derived from
well-founded induction: a set that contains 0, and k + 1 with k, contains all
numbers. The theorems about instances (`Connection`, `ByteStream`,
`PrioQueue`, and `Spipe` in `Programs`) name the definitions that the runs
check.

Only model-checked:

- Liveness, which is beyond TLAPS 1.4.5.
- `StartupIsRight`. `Startup` and `SetUidGid` have no constants and finitely
  many states, all of which the run visits: there is nothing left to prove.
- `OptionsAreRight` and `AddressesAreRight` compare a scan of strings with a
  reference definition of its result. For strings of any length that takes an
  induction over them which has not been carried out.

## 5. Differences between comments and code that have no run

Met while modelling; the models follow the code.

- `pthread_create_blocking_np.c:137`: "on failure the provided routine was not
  run" does not hold if `pthread_cond_wait` fails. `:63`: U is written
  after a failed `pthread_cond_signal`, when the parent may have freed it. `:72`:
  the parent waits forever if the thread cannot lock or signal. `CreateIsSafe`
  and `CallReturns` say which failures they exclude.
- `dnsthread.c:235`: between the end of a lookup and its callback a second
  request is accepted, and its callback replaces the first one. No caller
  in the repository asks then.
- `events.c:229`: an interrupt requested just before `poll` starts to
  wait is noticed only when `poll` returns.
- `elasticarray.h:7`: the factor of 4 is exceeded, by rounding, for arrays of
  very few bytes; `NotMuchTooLarge` states the bound that holds.
- `ipc_sync.c`, `ipc_sync_done`: the labels for the two `close` calls are
  the wrong way round, so that a failed `close` leaks one end or closes it
  twice. The process ends right afterwards.

## 6. Not modelled

- The rounds of AES and the compression function of SHA256, in C and in the
  instructions of the processors, and the comparison of MACs: pure functions
  on words, symbolic here, since arithmetic on 32-bit words is beyond TLC.
- The size of the Diffie-Hellman group and all of cryptographic strength.
- `parsenum.h` beyond whole numbers in base 10, the messages (`warnp.c`), the
  exit handler of `getopt.c` and select statistics: no state that matters later.
- Wrappers of clocks, sleeping and interrupted calls (`monoclock.c`,
  `noeintr.c`): time is a variable of `EventsLoop` that never decreases, and
  a call that is restarted is the same call.
- The list macros of `queue.h`, which are external; tests and benchmarks.
- Real time beyond the order of deadlines, and memory ordering: the threads
  share data only under their mutexes and through pipes.

## 7. What could follow

1. Composing `ProtoConn` with `NetworkConnect` and the handshake, so that the
   timers of both are checked against the real operations.
2. Theorems about `Sock` (that nothing is lost or freed twice, whatever fails)
   for strings of any length, apart from what they are resolved to.
