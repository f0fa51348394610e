# A TLA+ development for gift-ares

gift-ares is a client library for the Ares peer-to-peer network (`src/gift-ares/lib`), with two
front ends: a plugin for the giFT daemon (`src/gift-ares/gift`) and a Windows DLL
(`src/gift-ares/aresdll`). This directory holds TLA+ modules that model its core, TLC configurations
that check them on small instances, and TLAPS proofs for all instances. `PROJECT.json` links every
definition to the lines it models and lists runs, hazards, findings and theorems.

## 1. The system

The library is single threaded. `as_event.c` wraps libevent; everything else is a handler of a
socket input or a timer, and runs to completion. Concurrency is therefore the *order* of handlers:
replies, timeouts, incoming pushes, calls of the owner. Two things add to this: callbacks that call
back into the object that raised them, and aresdll, whose exported functions are called from other
threads.

| Component | State | Operations | Talks to |
|---|---|---|---|
| Download connection (`as_download_conn.c`) | state, chunk, socket, input, timer, receive buffer, push id, fail count | create, start, cancel, free; connected, read header, read body, two timeouts, push callback | download (state and data callbacks), push manager |
| Push manager (`as_push.c`, `as_push_man.c`) | table of pending pushes, next id | send, accept, timeout, remove | connection (callback), supernode, incoming connections |
| Download (`as_download.c`, `as_download_chunk.c`) | state, chunk list, connections, received count, timers | start, restart, pause, queue, resume, cancel, add source, maintenance | connections, state file, searches, owner |
| State data (`as_download_state.c`) | record behind the data of the incomplete file | save, load | download |
| Download manager (`as_download_man.c`) | list of downloads, hash index, stopped flag, progress timer | start, restart file or directory, pause, resume, cancel, remove, stop all | downloads (callbacks both ways), owner |
| Uploads (`as_upload.c`, `as_upload_man.c`) | list, active count, host queue and count, progress timer | start (two protocols), auth, cancel, remove, progress | HTTP server, shares, owner |
| HTTP server, push replies (`as_http_server.c`, `as_push_reply.c`, `as_incoming.c`) | half read requests, pending replies | accept, dispatch on first byte, read, hand over, take back, push connect | uploads, push manager, library |
| Library (`as_ares.c`, `as_config.c`) | `AS`, listening port, configuration | init, cleanup, change of port | all managers |
| HTTP client (`as_http_client.c`) | connection, request, buffer, callback state | create, request, cancel, free; connected, read header, read body | its owner (callbacks) |
| Sessions (`as_session.c`, `as_session_man.c`, `as_node_man.c`, `as_netinfo.c`) | handshake state, ping timer, lists of connecting and connected sessions, node cache | connect, handshake, packets, maintain, disconnect, load and empty the cache | searches, shares, pushes, net info |
| Searches (`as_search.c`, `as_search_man.c`) | tables by id and by hash, timeout timer | search, locate, result, new session, stop, remove | sessions, three kinds of owner |
| Shares (`as_share.c`, `as_share_man.c`; `asp_share.c`, `ar_share.c`, `filesrv/server.c`) | list, table by hash, count, batches | add, submit, remove, new session, reload | sessions |
| Event loop (`as_event.c`, `as_tcp.c`, libevent's `event.c` and `win32select.c`) | inputs, timers, queues, descriptors | add, remove, dispatch, time out, write queue | everything |
| Hash table (`as_hashtable.c`) | buckets, count, prime index | insert, lookup, remove, foreach, grow | everything that has a table |
| aresdll threads (`aresdll.c`, `ar_threading.c`, `ar_callback.c`) | thread, socket pair, number of pauses, active callbacks | start up, pause, resume, raise a callback, shut down | the event loop, application threads |
| Data only | | packets, metadata, hashes, cryptography, encodings, lists | |

What makes each of them correct:

* a **connection** gives back all resources of a request on each of its many exits, and while it is
  busy something will always call it again; its pushes never outlive it;
* a **download** neither loses nor duplicates a byte when its chunk list is split, merged, reassigned
  and restored; every connection works on exactly one chunk; the source limit holds; a source that is
  idle and usable gets asked;
* **state data** left by a crash claims nothing that is not on the disk, and can be loaded;
* the **download manager** keeps to its limit and uses it up, however the callbacks of downloads that
  start, end and queue each other nest, and touches no download it has freed;
* the **upload manager** counts what is active, limits it, serves a host once, and serves who waits;
* the **HTTP server** hands each connection to exactly one handler or closes it, and is where the
  configuration says it is;
* the **HTTP client** stands every call its owner makes from a callback, and ends each request once;
* a **session manager** keeps its lists true, gives back the nodes it uses and keeps trying until it
  has the wanted number of sessions;
* a **search** gets the results meant for it, reaches every session and ends; **shares** are announced
  once to every session, and a reload the user asked for takes place;
* the **event loop** calls no owner for what it removed or closed; a **hash table** is a map;
* **aresdll** lets an application thread in only while the event thread stands still, lets it in at
  all, and lets the event thread go on afterwards.

## 2. Modules

| Module | Models | Source |
|---|---|---|
| `DownConnIface` | what an `ASDownConn` promises its owner: states, requested chunk, delivered bytes, fail count | abstract specification |
| `DownConn` | the connection with socket, timers, buffer, and the push table | `as_download_conn.c`, `as_push*.c`, `as_incoming_push` |
| `DownConn_proofs` | its inductive invariant and proofs; it implements the interface | |
| `Download` | the download on top of `DownConnIface`, its chunks, state file and crashes | `as_download.c`, `as_download_chunk.c`, `as_download_state.c` |
| `Download_proofs` | its inductive invariant and proofs | |
| `DownMan` | the download manager and its nested callbacks | `as_download_man.c`, states of `as_download.c` |
| `DownMan_proofs` | its inductive invariant and proofs | |
| `UploadMan` | requests, admission queue, count, progress timer | `as_upload_man.c`, `as_upload.c`, the progress callback of `ar_upload.c` |
| `Sessions` | sessions, their manager, the node cache | `as_session.c`, `as_session_man.c`, `as_node_man.c`, `as_netinfo.c` |
| `Sessions_proofs` | its inductive invariant and proofs | |
| `Links` | what searches and shares see of the rest | |
| `Search` | the search manager and its owners | `as_search*.c`, `asp_search.c`, `ar_search.c`, the search of `as_download.c` |
| `Shares` | the share manager and what fills it | `as_share*.c`, `asp_share.c`, `ar_share.c`, `filesrv/server.c` |
| `Announce` | composes `Search` and `Shares` over sessions that come and go | `session_state_cb` |
| `Sharing_proofs` | invariants and proofs of searches, shares and the file server, and of the upload manager | |
| `Incoming` | HTTP server, push replies, port, start and end of the library | `as_http_server.c`, `as_push_reply.c`, `as_incoming.c`, `as_ares.c`, `as_config.c` |
| `HttpClient` | the HTTP client with an owner that calls back | `as_http_client.c` |
| `EventLoop` | inputs, timers, write queues, descriptors | `as_event.c`, `as_tcp.c`, `event.c`, `win32select.c` |
| `Map` | what a hash table promises | abstract specification, `as_hashtable.h` |
| `HashTable` | buckets, growth | `as_hashtable.c` |
| `Net_proofs` | the table implements the map; invariants and proofs of `Incoming`, `HttpClient` and `EventLoop` | |
| `ArEvents` | event thread, application threads, startup and shutdown, callbacks through the window | `aresdll.c`, `ar_threading.c`, `ar_callback.c` |
| `ArEvents_proofs` | its inductive invariant and proofs | |
| `ListFacts` | lemmas on lists that several proofs need, with induction over their places | |
| `MC*` | instances for TLC | |

Two modules are shown to implement an abstract one, by a run and by a theorem: `DownConn` implements `DownConnIface`
(`ImplementsIface`, under the mapping that keeps the five fields an owner reads), and `HashTable`
implements `Map` (`ImplementsMap`, under the mapping that searches the table for each key). `Download`
EXTENDS `DownConnIface`, so that the detailed connection and the download meet in the interface and
neither carries the other's state.

### How state and actions correspond to the code

**DownConn.** `conn[c]` has the fields of `ASDownConn`; `input` and `timer` name the handler that is
registered. There is one action per handler. A callback whose answer decides how the handler goes on
(TRANSFERRING, data) is part of the handler; FAILED, COMPLETE and QUEUED are raised by a handler's last
statement, so that what the owner does there is a step of its own. What the peer sends is a choice:
header incomplete, refused, queued, accepted with any number of body bytes behind it; body bytes; end of
file. `assert ()` is modelled by `Asserted`: the program ends, or (NDEBUG) it goes on.

**Download.** Sizes are blocks of `Unit` bytes; `Unit` matters because the state data holds inclusive
byte ranges; in the runs it is 1, and a block a byte. `download_maintain` and `start_chunks` choose in loops, so they are steps of their own under
a control variable `run`; no other event is handled until `run.pc` is `idle` again, which makes handlers
atomic as in the code. `file` separates what a crash leaves (`disk`, `saved`) from what stdio buffers
(`pdata`, `psaved`); `Flush` is the effect of a seek or close. Every write and save may fail. The order
of the connection list (by bandwidth) is not kept: any unused connection may be the next. "This source is
faster" in the third loop of `start_chunks` is a choice as well.

**DownMan.** The C stack is part of the state. `download_state_cb` reads a count, calls its owner,
resumes other downloads, which changes their state and so calls it again, and goes on with the count and
the list link it had; a frame holds the function, where it is, and these two locals. A step is what a
function does between two calls; events are handled only when the stack is empty. Of a download there is
its state and whether all its data is there. The owner may remove, from its callback, the download it is
told the end of.

**UploadMan.** `queue` is the list of `struct queue` with ages for times. `Auth` is `upman_auth` with
its early returns in order. `waiting` records which hosts were last answered with 503, and `sized` counts
the file size requests that were answered; both are history, no guard of the code depends on them (the
bound `MaxSized` is one of the model). `Polite` hosts poll as Ares does; they matter to the fairness only.

**Sessions.** A session that ends calls `session_state_cb`, which frees it, releases its node and calls
`sessman_maintain`; all this runs inside the handler and is one step, put together from the operators
`Release` and `Maintain`. Only the ping and pong timers need a clock (in minutes); the others may expire
at any time. A packet either arrives whole or in parts, because the pong timer is only disarmed for a
whole one. A node file may be loaded at any time and again (`Load` is one line of it): `as_nodeman_load` makes
a node for each line, whatever is cached, and the index leads to the last one of a host, so `node[h]` is the
sequence of the nodes made for `h`. All of them can be tried; the last is the one that is released.

**Search, Shares, Announce.** Both tables of the search manager are functions into `Slots`, with
`as_hashtable_insert`'s replacement of older entries. `asked` is what a supernode remembers of our
queries: with it a result can arrive for a search that is gone and whose id was given to another one.
Shares are told apart by file; two files may have the same hash. `told` is what was announced to a
supernode. A submission can fall short in two ways: single shares whose packet cannot be made, and packets
that cannot be sent (`Failures`). The file server's timer opens the shares file (`LoadBegin`) or cannot
(`LoadRefused`), and clears the flag of the signal in both cases (`LoadEnd`). `Announce` connects both to sessions that come and go: its `SessionUp` is the part of
`session_state_cb` that sends searches first and shares then.

**Incoming.** `conn[c].at` says who holds a connection: the server (with the handler it is registered
for), a push reply, an upload, a download, or nobody. A request is of one of five kinds and arrives in a
number of reads. Uploads and downloads are seen from outside: they hold a connection and give it up.
Ports are integers that `in_port_t` cuts off modulo `PORT_SPACE`.

**HttpClient.** `frames` are the callbacks under way. A callback is a window in which the owner may
cancel, ask again or free the client, which may raise further callbacks; when it returns, the rest of the
function that raised it is executed on what is left of the client.

**EventLoop.** An event has the flags of `ASEvent` and of its libevent struct; `active` is libevent's
queue of due events and `chain` the events of a descriptor, as in `input_table`. `Poll` is one round of
`event_loop` up to the calls: what `Selected` and `Timed` offer becomes due. In a callback each call of the
owner is a step. The kernel gives a closed descriptor to the next one that is opened. `Removal` says what
`input_remove` makes of one input, `InputRemove` what becomes of the lists when it is called for some:
`input_remove_all` calls it for each input of a chain, and their order makes no difference. `FdSetSize` is the number of inputs the select loop has room for; the next
one fails (`InputAddFails`). `Owed` is a rule about owners: all of them close a connection whose input timed
out before they do anything else. It is mapped to `session_error` and stands for the handlers its comment
names, which their own modules have in full.

**HashTable.** A bucket is the set of its entries. Growing, and failing to find memory for it in both of
its ways, are actions. When only `realloc` finds memory the wrong part of it is cleared: the new buckets have
what lay there (`Strays`), and the behaviour of a table with foreign entries is not followed further
(`damaged`).

**ArEvents.** `th` says where each thread is in an exported function and `job` what for; `to_event` and
`to_outside` are the two directions of the socket pair; `raised` the threads inside `ar_raise_callback`,
which block until the window's thread serves them. The event thread may fail before it is ready
(`ThreadFails`); it then sends nothing, ever. `mixed` is history: another call or a callback met a
startup or a shutdown.

## 3. Runs

Those that pass:

| Run | Instance | Distinct states | Shows |
|---|---|---|---|
| `downconn` | 2 connections, 2 hashes, 2 bytes, 3 push ids, 2 failures | 63 460 | `IdleHoldsNothing`, `BusyIsAwaited`, `PushTableConsistent`, `OnlyRecvBufAsserts`, `ImplementsIface`, and under fairness `BusyEnds` |
| `download` | 2 sources (one firewalled), 3 blocks, failing writes, crashes | 863 333 | `AssignedConsistent`, `ChunksPartition`, `OnDisk`, `RecoverySound`, `OnlyChunkListAsserts` |
| `download_live` | 3 sources, 2 slots, 2 blocks, fairness | 259 282 | `IdleSourcesAsked` |
| `download_sources` | 3 sources, 2 slots, 5 blocks, up to the first byte | 136 153 | `SourceLimit` |
| `downman` | 3 downloads, 3 hashes, limit 1 | 852 087 | `LimitHeld`, `SlotsUsed`, `IndexConsistent`, `OnlyOddFilesHurt` |
| `upload` | 3 hosts, 3 uploads, 2 slots, 2 file size requests | 218 770 | `UploadsLimited`, `QueueConsistent`, `OnlyNullLink` |
| `sessions` | 2 sessions, 2 hosts, 2 nodes, 2 wanted, 2 attempts at a time, fairness | 509 543 | `ListsConsistent`, `NodesInUse`, `NodesTried`, `AttemptsEnd` |
| `announce` | 2 searches, 1 supernode, 1 hash, ids modulo 3, 3 files of which two have one hash, 1 batch, 3 signals, fairness | 118 701 | `TablesLive`, `OnlyIdReuseHurts`, `SentToAll`, `SharesAnnounced`, `HupsServed`, `SearchEnds` |
| `http` | server: 2 connections, ports modulo 3, values 0 to 4, 2 reads; client: lengths to 2, 2 header reads; fairness | 13 623 | `ListeningConsistent`, `HandedByKind`, `WaitEnds`; `ClientSafe` |
| `eventloop` | loop: 5 events, 2 connections, 2 descriptors, room for 4 inputs; table: 5 keys, 2 values, sizes 2, 3, 5 | 339 925 | `QueuesLive`, `OwnersCalled`; `ImplementsMap` |
| `arevents` | 2 application threads, at most 2 pauses at a time, fairness | 4 291 | `OneAnswerEach`, `ShutdownClean`, `WaitsEnd` |

Why the bounds suffice.

* *Connections and downloads.* Two connections show all interference through the push table, which is
  keyed by id; three ids let a connection be pushed, give up and be pushed again while the other one is
  pushed. Three blocks let a chunk be split while it is transferred (`MinChunk` is 1), be left half
  complete and be consolidated into complete and empty neighbours; two sources race on the two parts, one
  can be replaced by the other, and one is written to the state data while the other is not. The limit on
  sources needs more sources than slots, hence `download_sources`, which is cut off at the first byte
  (`Beginning`) because only the answers to requests matter to it. `download_live` has three sources
  because the replacement of one by another that fails leaves a third one idle, with nothing but the
  maintenance timer to use it.
* *Managers.* Three downloads with a limit of one: one is active, one queued, and one is started,
  restarted or removed from the callback of another, two deep and more. Three hosts over two slots put two
  hosts in the queue with one that is stale.
  With `Unit` = 1 missing ranges of a single byte occur, which `RecoverySound` has as its exception
  (`OneByteRange`). A file of one byte has an exception of its own in `OnDisk` and `RecoverySound`, and no
  run.
* *Sessions* run in parallel with two objects, and nodes run out with two hosts when one is refused. Two
  nodes are one for each host, or two of one host that was loaded again, which both sessions may go to.
* *Searches.* Ids modulo 3 wrap around after two searches, of which one can still be alive. Searches and
  shares share nothing but the sessions, so behaviours with one and with the other are explored side by
  side (`OneManager`); a supernode remembers two queries (`FewQueries`), which is one that is live and one
  that is not; and after a result went astray nothing more is followed (`NothingAstray`: the step that
  leads it astray is still checked).
* *HTTP.* Two connections, since the server keeps nothing else about them. Of the port values one is cut
  down to 0, one to a port that is there as itself. `http` and `eventloop` each check two independent
  subjects in one run: the variable `subject` says which of them a behaviour is about.
* *Event loop.* Each of two connections may have an input and a write queue, and there is a timer; two
  descriptors are enough for one to be closed and given out again. Four inputs are those two of each
  connection, and a fifth, added by a callback before it removes its own, finds no room. The table grows
  twice.
* *Threads.* Two threads show each interference of one call with another; the proofs in `ArEvents_proofs`
  cover any number for the invariants.

Symmetry is used in runs without liveness properties only. Deadlock is not an error in these systems: a
program that was aborted, or whose memory was damaged, stops, and so does one whose ids (a bound) are used
up.

One run is violated; it states what a comment says (`findings` in `PROJECT.json` quotes it):

| Run | Property | What happens |
|---|---|---|
| `arevents_return` | `PauseReturns` | The window's thread waits for the event thread, which waits in `SendMessage` for the window's thread. |

Every property of a passing run has a mutant: a definition next to the original (for instance
`ResetKeepsTimer` before `Reset`) with a bug the code could plausibly have, under which TLC violates it.

### Fairness

* `DownConn`: a pending connect ends, as its input has a timeout in the event loop; scheduled timers
  expire. The data timer is renewed by each piece of data, but a chunk has finitely many bytes. Nothing
  is assumed of the peer, not even that it closes a connection.
* `Download`: a running handler goes on (it is a loop in C), and the maintenance timer, which is scheduled
  as long as a download is active, fires.
* `Sessions`: timers run when they are due: the maintenance timer again and again, the timeout of a connect
  and that of a handshake. The loop of `sessman_maintain` goes on until it ends; a timer that is due
  whenever no loop runs counts as due throughout. Supernodes and users need not do anything.
* `Announce`: the timer of a search fires once it is set.
* `Incoming`: an input's handler is called, for data or for its timeout of 20 seconds.
* `ArEvents`: threads that are not blocked go on, callbacks and handlers return, and the started thread
  runs. Strong fairness where steps compete: several threads wait in recv on one socket and in the queue of
  one window, both of which serve them in order, and the event loop polls all its sockets, so that other
  handlers cannot keep it from a readable one, or from the timer that ends it, for ever.
* `UploadMan` (for `Served`, see 5): transfers end, the owner removes uploads that ended, time passes, and
  a polite host that was told to wait asks again.

## 4. Proofs

**DownConn_proofs**, for any set of connections, hashes, sizes, limits and push ids (`DownConnAssumption`):
`TypeCorrect`, `IdleSafe`, `BusySafe`, `PushTable`, `AssertsSafe`, that is `Spec => []P` for `TypeOK`,
`IdleHoldsNothing`, `BusyIsAwaited`, `PushTableConsistent` and `OnlyRecvBufAsserts`. None of these is
inductive. Whether a handler may count another failure, or drop its timer, depends on what else the
connection holds, and whether a settled connection leaves a stale push depends on the table. `RecOK` lists
the situations a connection can be in: idle with nothing; connecting with a connect input, or with a header
input and the request timer, or with a push and nothing else; transferring with a body input and the data
timer. `PushesOK` says that pushes and connections point at each other. `IndInv` is their conjunction with
`OnlyRecvBufAsserts`. The lemmas show that each part of a handler maps legal records to legal records, then
that the two ways of storing a result (`Keep`, `Settle`) preserve `IndInv`, then that each action does. So
`BusyEnds` fails for no instance for lack of a pending event; that the event comes is fairness.
`Refinement` is `Spec => ImplementsIface`: under `IndInv` every step of a connection, a push or the owner
is a step of `DownConnIface` or changes none of the fields an owner reads. A handler that stores a result
the owner sees at once is matched step by step (`FailSim`, `HiddenSim`); what differs is only in hidden
fields: sockets, timers, buffers and pushes. With it the theorems about `Download`, which extends
`DownConnIface`, hold of the download over real connections as far as `DownConn` describes these.

**Download_proofs**, for any file size, set of sources, limits and failures (`DownloadAssumption`,
`IfaceAssumption`): `SourceLimitSafe` (`SourceLimit`), `AssertsSafe` (`OnlyChunkListAsserts`),
`PartitionSafe` (`ChunksPartition`), `AssignedSafe` (`AssignedConsistent`), `OnDiskSafe` (`OnDisk`) and
`RecoverySafe` (`RecoverySound`), all for blocks of any size, single bytes included. The exceptions of the
last two are in the properties: state data with a range of a single byte is refused (`OneByteRange`), and a
file of a single byte is taken for complete. That these are the only ones needs an argument: `Fine`
(a part of `ListOK`) says that no chunk is the single first byte of a larger file, whose range <<0, 0>> would
end the list; a chunk is split only when it has three blocks to go, so that the half that stays has two.

None of the six is inductive by itself. `Inv`, which the theorem `Inductive` establishes, is the
conjunction of

* `ListOK`: while there is a list its chunks tile the file (`Tiles`) and `received` is the number of blocks
  received. An empty chunk may only occur in a list that was just loaded (`read_chunks` leaves one at the
  end), which is why `ChunkList` has two cases;
* `Linked`: each working chunk has a live connection of its own that is at the chunk's write position and
  asked for at least all of it, and each busy connection has a chunk, but for one that has stopped and
  waits for `disassociate_conn` (`Leaving`);
* `RunOK`: what the pass on its way may rely on. An active download without a pass has something left
  to do, without which the timer of `as_event.c` would be removed twice; a phase of `start_chunks` has
  candidates that are idle and a list in which nothing that is worked on is complete;
* `FileOK`: what was received is on disk or in the stdio buffer, a file that is verified is whole, and the
  state data on disk and in the buffer each claim no more than what is on disk (`Claims`), if the file has
  more than one byte. `RecoverySound` speaks of what the loader makes of that data, `Claims` of the ranges alone;
* the types and the limit on transferring connections.

The lemmas come in three layers. The first is about lists: `consolidate_chunks` keeps the range, the blocks
and the working chunks of a list and leaves no half-received chunk unassigned (`ConsolidateFacts`), the sum
of what the chunks received is the number of blocks (`SumFacts`), assigning, filling and splitting a chunk
keep the list (`AssignFacts`, `StoreFacts`, `SplitFacts`), and the loader undoes the writer: it accepts what
`write_chunks` wrote if no range is a single byte, and takes nothing for complete that was listed as missing (`WriteRangesFacts`,
`LoadFacts`). These are loops in C and recursive functions in `Download`; each is proved by induction over
the places of the list. The second layer is about the file: whatever a save does, also one that fails,
nothing written is lost and the state stays sound (`SavesFacts`). The third has one lemma for each action.

**DownMan_proofs**, for any downloads, hashes and limit (`DownManAssumption`): `LimitSafe` (`LimitHeld`),
`IndexSafe` (`IndexConsistent`), `SlotsSafe` (`SlotsUsed`) and `HurtSafe` (`OnlyOddFilesHurt`). The first three
speak of the time between events, when no function runs; the proof has
to say what holds in the middle of a call, with the functions on the stack each in the middle of a loop over
a list the others change. `StackOK` says which function can wait for which, and what each frame still
relies on: a callback that returns FALSE has freed its download, a download that is being verified is touched
by nobody, a queueing that failed has paused. `TopOK` says what the innermost function knows when the one it
called has returned. `ListOK` is about list and index, with the one exception the code has: the download of
`as_downman_restart_file` is on the list and not in the index until the function ends. For the limit, a
download whose change of state has not been counted by `download_state_cb` yet is `Pending`; the others that are
active are `Settled`, and these keep the limit at every step (`LimitOK`). While `as_downman_stop_all` goes
along the list they are behind the link it has reached. For the slots, a download may wait although one is
free only while the innermost function is `Looking`: it is about to count, or it scans the list and has passed
no download that waits, with a count that is not too high (`SlotsOK`). Without a twin, nothing is freed
while it is active (`TwinOK`). `HurtSafe` needs to know more of the frames (`Plain`): without odd files nobody
but an event finds a download complete, so that a callback never removes the download of a function that
waits; the link of every loop stays on the list; and whoever counted or resumed a download leaves one active, so
that no count is zero or positive wrongly when the progress timer is looked at. The last needs an argument of its
own where a callback queues a download: one that waits below shows that the limit is at least one, and there
were more active than that. There is one lemma for each action, which also says how the action moves the stack;
the lemmas on the limit, the slots and the frames rest on those.

**Sessions_proofs**, for any finite sets of sessions and supernodes and any limits (`SessionsAssumption`):
`ListsSafe` (`ListsConsistent`) and `NodesSafe` (`NodesInUse`). `RecOK` lists the situations of a session,
with its timers (a pong timer runs one minute ahead of the ping timer, so that it is never set when the
latter fires); `ListsOK` says that the two lists hold exactly the sessions of their states, once each;
`OwnNodes` that no more sessions go to a host than it has nodes in use, and as many if it was loaded once,
unless the cache was emptied under it. Most actions change a session and then run `sessman_maintain`: `Ready` is what it must be given, and
`MaintainFacts` that it turns that into a good state whether it drops sessions, starts attempts or runs out
of nodes.

**Sharing_proofs** has two parts that share no variables.

Of `Announce`, for any search objects, supernodes, hashes, files and any size of the id space:
`TablesSafe` (`TablesLive`), `IdReuse` (`OnlyIdReuseHurts`), `SentSafe` (`SentToAll`), `SharesSafe`
(`SharesAnnounced`) and `HupsSafe` (`HupsServed`). A result is matched by an id that a supernode still
holds from a query perhaps long ago, so `IdReuse` needs to know what every such query is worth: `AskedOK`
says that it fits its search while that is alive, and that the id table leads to that search or nowhere as
long as no id was given out that someone still held (`clash`). For the shares, `ManagerOK` says that list and
table hold the same shares and `ClientOK` what each of the three programs keeps besides; the batches that
giFT's plugin adds are folded over by a recursive function, and the invariant of the fold is proved by
induction over the batch.

Of the upload manager, for any hosts, finite set of uploads, limits and timeouts (`UploadManAssumption`):
`TypeCorrect`, `QueueSafe` (`QueueConsistent`), `SlotsSafe` (`UploadsLimited`), `AssertsSafe`
(`OnlyNullLink`). `IndInv` adds `TimerFollows` (the progress timer runs exactly if there is a callback and
an upload counted, without which its asserts cannot be excluded), `Counted` (the count, with the slot limit
in the form that survives an abort) and that a host has one active upload. `AuthFacts` is the central lemma:
whatever `upman_auth` does to the queue keeps it free of duplicates and its counter right, and it authorises
only a host without an active upload while a slot is free. It rests on `NthFacts` and `TidyFacts`: `Tidy` is
defined by ranks rather than by `SelectSeq`, whose recursive definition the prover cannot unfold;
`TidyIsSelect` in `MCUploadMan` checks that the two agree on all queues of up to four entries.

**ListFacts** has what these share: induction over the places of a list, stated for a set of places and
proved from the least element of a set of naturals, so that it needs no operator as a parameter; that a
function defined place by place is what its equations say; and members and order after adding and taking
away.

**ArEvents_proofs**, for any finite set of application threads: `Answered` (`OneAnswerEach`) and
`CleanShutdown` (`ShutdownClean`). Requests and answers balance in ordinary use, but a startup and a
shutdown send zeros on the socket that answers pauses, so neither property is inductive. As long as nothing
ran into a startup or shutdown (`~mixed`; an event thread that fails is not that), `IndInv` says that either nothing is there (`Quiet`), or the
library is there and each thread that waits has one request or answer under way (`Usual`), or one thread
is `Alone`, in one of the phases `Start`, `Pause`, `Resume` and `Stop`, each of which names what both
sockets hold. The proof goes through the actions once for `Usual` and once per phase.

**Net_proofs** has four parts that share no variables.

The HTTP server and push replies, for any connections, ports and limit on a request: `Listening`
(`ListeningConsistent`) and `Handed` (`HandedByKind`). `RecOK` adds to the latter what makes it hold
although a partly read request goes on under another handler: the push and binary handlers only ever see
connections whose first bytes were such a request, and no connection with the server is too long yet.
`HoldersOK` says who may hold a connection while there is no server and no library.

The HTTP client, for any lengths of replies and headers: `Safe` (`ClientSafe`). What the client does
when a callback returns depends on everything its owner did in it, so the invariant `Good` says which
callbacks can be under way at a time. Either they are all of the kind after which nothing is looked at
(`Idling`, or `Gone` if the client was freed), or the top one is `HTCL_CB_REQUESTING` (`Requested`), or there
is one only and the client looks at `cb` when it returns (`Replying`). In the last case the connection is
closed as soon as the owner interferes, which is why no further request can be sent from inside, and the
owner that does interfere in `HTCL_CB_REQUESTING` is the exception `misused`. `Ending` is the moment in which
the owner is told of the end of a reply while the input of `client_read_body` still exists.

The hash table, for any keys, values, hash function and increasing sizes: `Consistent` (each entry is
in the bucket of its key, keys are unique, the count is right) and `TableImplementsMap`
(`ImplementsMap`): every step of the table, with growth and failed growth, is a step of `Map` or leaves the
map alone, but for the one that damages the table. `StoredOK`, `DropOK` and `ExpandPlaced` are about the three things that change buckets.

The event loop, for any finite set of events, any connections and any descriptors: `QueuesSafe`
(`QueuesLive`) and `OwnersSafe` (`OwnersCalled`), from `LoopInv` (`LoopInductive`). Neither property is
inductive. An event's flags, its place in `active` and in a `chain` and the callback that runs have to agree
for every event, freed ones included (`EventOK`, `ListsOK`): a freed event is `NoEvent` as a whole, the queue
of a connection has neither a timeout nor an owner's callback, and the event that runs is not due.
`DescriptorsOK` relates the connections to the kernel, in both directions, with the one exception the
code has: between the moment `libevent_cb` closes the descriptor of an input that timed out and the moment
its owner hears of it, a connection has a descriptor the kernel has closed (`Owed`). Then nobody else
can open it, which is why the second close does not hit a stranger. The proof is about worlds (`World`):
`RemoveOK` and the lemmas next to it say what a removal makes of any `WorldOK` one, and each action cites
them. `LoopAssumption` (the first timer is an event, events are finitely many, `None` is none of them) is
all that is assumed.

Only model-checked: all liveness properties, since fairness is out of the prover's reach. Every invariant
that a run checks and both refinements are proved.

## 5. Other disagreements met while modelling

These follow from the definitions. The first seven can be reproduced by making the named property one of a
run: TLC finds each violated (`Served` needs its fairness). The rest are places where a property of a passing
run names an exception, or a definition keeps what the code does.

* `as_download_conn.c:312`, `assert (conn->recv_buf == NULL)`: a push that succeeds calls
  `downconn_request` while the receive buffer of the first attempt still exists (`NoAssertFails` of
  `DownConn`).
* `as_download.c:1422`: bytes behind the reply header complete a chunk; COMPLETE is not raised, the chunk
  keeps its connection ("complete chunks must be without connection", 937), and the next
  `download_maintain` finds a corrupted list and asserts (`NoAssertFails` of `Download`).
* `as_download_state.c:351`: a missing range of one byte is saved with start = end, which `read_chunks`
  refuses, although as_download.c:231 saves "so we have something to recover from" (`RecoveryPossible`):
  two bytes of a file of three arrive, a write fails, and the pause saves the range <<2, 2>>.
* `as_node_man.c:477`: a host that is loaded again, as `ar_connect` does each time (`aresdll.c:162`), gets a
  second node. An attempt at the first releases the second, so that the first stays "in use" without "a
  session using this node" (`as_node.h:32`; `InUseHasSession`), and two sessions can go to one host.
* `filesrv/server.c:222` clears the flag of a SIGHUP that came during the load, and the timer
  "which reloads shares file if SIGHUP happened" (208) does not read it again (`HupsReread`).
* `as_upload_man.c:485`: new hosts are let in while `nuploads + nqueued < max`, which keeps a slot for the
  head of the queue, but that needs `1 + nuploads < max`; so it can be refused with a slot free while new
  hosts get in before it for ever (`Served`).
* `as_upload_man.c:491`: a new host arrives, tidying empties the queue, and `queue_remove` is called with
  a null link (`AuthReturns`).

Connections, downloads, uploads:

* `as_download_conn.c:102`: `downconn_reset` clears `keep_alive`, so the tests after it (855, 957) always
  close the socket; `as_download_conn.h:28` says it is kept alive if possible.
* `as_download.c:231` saves the state "so we have something to recover from"; it is in the stdio buffer
  until the next seek. A resumed download is not saved as such (460): after a crash it is paused again.
* `as_download_state.c:346`: the missing byte of a file of one byte is the range <<0, 0>>, which ends the
  list; the restarted download is complete without it.
* `as_download.c:977`, "Merge consecutive complete chunks": the complete part of a half complete chunk is
  not compared with the chunk before it. The next call merges them.
* `as_download.c:766` counts the connection it decides about, so a source is turned away with one slot free
  (`EnoughSources`).
* `as_download_man.c:288`: after restarting a file that is complete the download may already have been
  removed by the owner's callback; a file whose hash is known has its entry in the index replaced
  (`OnlyOddFilesHurt`).
* The progress timers of both managers return TRUE from a callback in which their owner may have removed
  them.
* `as_upload_man.c:445` admits a queued host through the spare slots without removing it from the queue.
* `as_upload.c:791` raises COMPLETE for an upload that was never active; `nuploads` drops for good
  (`UploadsLimited` states by how much), one more upload than allowed gets in, and `ar_upload.c:116` asserts
  the opposite.
* `as_upload.c:349` uses the size of a share that was not looked up (`OnlyNullLink`).

Network:

* `as_http_server.c:126`: freeing the server with connections waiting frees their links twice;
  `as_upload.c:964` hands a kept connection to a server that may be NULL; `in_port_t` cuts the configured
  port off, and a port that failed at start cannot be tried again by setting it to the same value
  (`Incoming`'s `hurt` and `unbound`).
* `as_http_client.c:264`: an owner that frees or cancels from `HTCL_CB_REQUESTING` has the request sent on
  what it freed (`ClientSafe` names it `misused`).
* `as_hashtable.c:199`: when only `realloc` succeeds, the memory cleared is not the new part. `as_hashtable_find`
  (627) does not end on a chain of two entries; nobody calls it.
* `as_session.c:320`: a packet that comes in parts leaves the pong timer armed, and a live session is
  disconnected. The assertion that a packet is not shared (379) depends on what a supernode sends.
  `as_session_man.c:209` returns early when nodes run out and leaves the reported counts old
  (`ListsConsistent`).
* `as_search.c:194`: a supernode that has a search from an earlier session is not asked again. Search ids
  wrap around (`as_search_man.c:186`), so that a result can reach another search or none
  (`OnlyIdReuseHurts`); a result nobody wants is not freed (102). `as_shareman_remove_all` does not reset
  `nshares`. `filesrv/server.c:222` clears the flag
  also when the shares file could not be opened (245; `HupsServed` names it `refused`). A share whose
  packet cannot be made is left out of an announcement without a word (`as_share_man.c`, `unsent`).

Threads of aresdll:

* `ar_threading.c:120` and `156` test `callback_active` of any thread: a thread that finds another one's
  callback active is let in without stopping the event thread, or leaves without resuming it. "if we are in
  a callback the even thread will be resumed later" (155): nothing resumes it (`WaitsEnd` names this
  `Abandoned`). `interrupt_cb` answers every pause at once, so several threads can be inside together, and
  any of them takes any answer, so that `assert (i > 0)` (133) can fail.
* A shutdown that meets other calls can end in an assert, closed sockets or a NULL `AS`; one from a callback
  waits for ever; the handle is published before the thread is ready (226). All of these are `mixed`.
* A thread function that fails (`ar_threading.c:59-80`) leaves its creator in recv (239) and the handle
  set. No other call is needed for that; the properties name it `NeverReady`.

## 6. Not modelled

* Within the modelled components: what `fclose` returns (nobody looks at it, `as_download.c:1652` included: a
  last write that fails there is not noticed before the hash is verified), a `send` on the socket pair of
  aresdll that fails after the startup, the asserts at `as_download_conn.c:565`, 776 and 902 and at
  `as_push_man.c:100`, what happens after the hash table was damaged or libevent was full, `as_downconn_suspend`/`resume` and bandwidth (giFT's throttling), torn
  writes of a single state record, giFT's own upload authorisation, `as_upman_free`, `as_pushman_free`,
  `as_downman_free` and `as_downman_restart_dir` (loops over modelled operations), node weights, what
  results hold, and lost updates of the unlocked `callback_active`.
* Data only: header, packet and metadata parsing, hashes and encryption, encodings, lists. What they yield
  is a nondeterministic choice in the models.
* The rest of libevent (signals, priorities, other back ends), the development tools (`crawler`, `test`,
  `tools`), giFT's adapter beyond its searches and shares.

## 7. Plan

What is left, most valuable first:

1. `as_downman_restart_dir` and the order of `as_cleanup` across the managers, with uploads and downloads
   that are still under way.
2. Throttling: suspended connections and uploads, whose inputs are taken away while timers go on.
