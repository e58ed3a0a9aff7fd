# A TLA+ model of the Rmx controller

The program (`src/pistache-master/examples/rest_server.cc`, built on a vendored
and extended copy of the Pistache HTTP library) is a REST server that configures
a DVB remultiplexer: six RMX boards behind one FPGA at 192.168.1.20, tuner chips
on I2C buses behind the same FPGA, a MySQL database that remembers what was
configured, and a Redis server through which a conditional-access process gets
its channels. This directory holds its formal model: TLA+ modules, the TLC runs
that check them on small instances, and proofs checked by TLAPS.

## 1. The system

Paths without a directory are `examples/rest_server.cc`, `src/common/callcommand.cc`,
`src/common/dbHandler.cc` and `src/common/MxLWare_HYDRA_OEM_Drv.c` of
`src/pistache-master/`.

| Component | State it keeps | Operations | Talks to |
|---|---|---|---|
| Configuration handlers (`StatsEndpoint::setX` / `callSetX`) | none of its own between requests; shared members `c1`, `db`, `reply` | about 60 set/get/flush routes (lines 193-211 and around) | callCommand, write32bCPU, dbHandler |
| Command transport (`Callcommand::callCommand`) | one socket per call, bound to UDP port 4660; addresses kept in shared members | build message, send, receive once within 0.3 s | the firmware of the selected board |
| FPGA register access (`write32bCPU`, `read32bCPU`) | one socket per call, UDP port 62000 | write or read a 32-bit register; `write32bCPU(0,0,target)` selects the board | the FPGA |
| Service lists (commands 11, 36, 37, 40, 41, 42) | lists on the board, rows in MySQL | add a program, drop programs, flush | callSetInputOutput, dbHandler |
| dbHandler | one MySQL connection | addX, deleteX, getX queries | MySQL |
| CAS provisioning (ECM, EMM, CW) | tables, Redis keys, cached list of streams, thread flag | add/update/delete channels and streams, scramble | Redis, the control word thread, dbHandler |
| Tuner handlers | registers of the MxL chips | tune, download firmware, LNB voltages, RF authorization | MxL API, I2C through read/write32bCPU |
| Boot restore | - | `runBootupscript` (never called) | all the above |
| Pistache: endpoint, listener, transport, reactor | epoll sets, handler lists, write queues | accept, read, async write, timers | worker threads (main starts 2) |
| Pistache: promises, mailboxes, queues | shared cores, linked lists, eventfds | resolve, then, push, pop | threads |
| Pistache: HTTP parser, router, headers, cookies, client, timer pool | parser cursor, route table, connection pool | parse, match, request | - |

How they interact. A worker thread of the HTTP endpoint runs a handler to its
end. A handler selects a board by writing the one board-select register of the
FPGA, selects an input/output pair on that board with command 02, sends its own
command, checks status and command code of the first datagram that comes back,
saves a row and answers. All of this is synchronous; two threads run it; no
lock spans it. The only exclusion is a side effect: a second callCommand cannot
bind port 4660 and fails. The database is read back only to rebuild the lists
that a command replaces as a whole.

What is hard here, and what the properties are for (the list with lines is
`hazards` in PROJECT.json):

* selections, commands and rows of two requests interleave;
* a datagram is lost before or after the command ran, is refused, or comes late
  and meets the next command on the same port;
* the socket address is a shared member of the one `Callcommand`;
* a selection made by an earlier request is used by a later one;
* a list is read, merged and rewritten, by several threads, for several boards;
* a database write fails and nobody looks;
* table keys and WHERE clauses disagree about what belongs to a board.

What makes each component correct:

* configuration handlers: a success means the named setting, and no other, has
  the value, and its row agrees; an error is reported whenever they may differ;
* command transport: a worker never takes another's reply for its own; each
  call ends;
* service lists: board and rows agree after each acknowledged change; a rewrite
  loses no service; one board's requests leave the others alone;
* CAS: database, Redis and the service map name the same channels; at most one
  CW thread;
* promises: each continuation runs exactly once with the value; queues: no entry
  is lost or left without a wake-up; reactor: an event reaches the handler that
  registered for it; parser: the result does not depend on how the input is cut.

## 2. Plan

Order of the modules, the most important behaviour first. All of it is done but
the last item.

1. `RmxHandlers`, `RmxControl` - the conversation of a configuration request
   with FPGA, boards and database. Abstract specification: `ConfigStore`.
2. `RmxControl_proofs` - types, own replies, success is real, refinement of
   `ConfigStore`, rows and hardware agree.
3. `ServiceLists`, `ServiceLists_proofs` - read-modify-write of the lists.
4. `PollableQueue` (mailbox.h, with the worker that polls it), and its proofs.
   Abstract specification: `MessageQueue`, a FIFO queue.
5. `CasProvisioning` and its proofs: ECM and EMM channels and streams in tables and
   Redis, the service map, the control word thread.
6. `Promise` (async.h): resolve against then; whenAll and whenAny. `PromiseUse`, what
   a user of the promises has to respect, and the proofs.
7. `HttpParser`, `Router`, `Transport`, composed in `HttpServer`; `HttpUse`, what clients
   have to respect, and the proofs.
8. `DeviceControl` - tuners, LNB supplies, IP outputs, centre frequencies, and
   its proofs.
9. `Scripts`, `CompositeRequests` - requests of several exchanges, keys in several
   registers, the IP stack of the FPGA, and their proofs.
10. Not begun: the HTTP client of Pistache with its `MPMCQueue` and timers, which the
    controller does not use (section 7).

## 3. Modules

| Module | What it models |
|---|---|
| `RmxHandlers` | a record for each of 92 handlers (22 writers, 41 readers, 29 GET routes): command code, what it selects, what its command changes or reads, whether it saves |
| `RmxControl` | workers, datagrams, FPGA, boards, rows |
| `ConfigStore` | the promise: a request changes its own setting, at most once, and its row iff it succeeds |
| `ServiceLists` | lists on boards, tables, the channel list |
| `Scripts` | a sequence of exchanges for each of 40 handlers: those that make several in one request, and those of the IP stack |
| `CompositeRequests` | one worker that runs them, with lost and late datagrams |
| `DeviceControl` | tuners, LNB supplies, IP outputs and centre frequencies behind one I2C core, with their tables |
| `PollableQueue` | the queue between the threads of Pistache: producers, the linked list, the eventfd, the worker |
| `MessageQueue` | the promise: messages leave once, in order |
| `Promise` | cores, continuations, their mutex, threads that settle and attach |
| `PromiseUse` | what the library leaves to its users: who resolves what, and what is attached where |
| `Transport` | accept thread, a worker with its peers and pending writes, epoll, the sockets of the kernel |
| `HttpParser`, `Router` | the incremental parser of requests; routes and their search |
| `HttpServer` | a worker with all three: what comes in as segments leaves as answers |
| `HttpUse` | what the parser leaves to the clients: where requests may be cut, and what may follow them |
| `CasProvisioning` | requests for ECM and EMM channels, streams and scrambling; tables, Redis, the control word thread |
| `MCRmxControl`, `MCServiceLists`, `MCCompositeRequests`, `MCDeviceControl`, `MCPollableQueue`, `MCPromise`, `MCHttpServer`, `MCCasProvisioning` | instances for TLC |
| `RmxControl_proofs`, `ServiceLists_proofs`, `DeviceControl_proofs`, `PollableQueue_proofs`, `Promise_proofs`, `HttpServer_proofs`, `CasProvisioning_proofs`, `CompositeRequests_proofs` | theorems |

### RmxControl and the code

| Variable | Code |
|---|---|
| `pc[w]`, `req[w]` | the stack of worker thread w: `setX`, `callSetX`, `callSetInputOutput`, `callCommand`, `write32bCPU`, and its parameters |
| `target` | the FPGA register written by `write32bCPU(0,0,target)` |
| `sel[b]` | what command 02 set on board b |
| `hw[s]`, `db[s]` | the setting on the hardware and its row, for s = handler, board, pair |
| `port` | who has bound UDP port 4660 |
| `net` | datagrams under way |
| `ran`, `last`, `accepted`, `fresh` | history: what the command of a request changed, what the client was told, past values, whether the sender still waits |

`Accept` is the validated request (invalid ones are answered without an effect);
`SendTarget` and `Receive` are `write32bCPU`; `SendCommand`, `SendUnbound`,
`BindFails`, `Receive`, `ReceiveBad` and `Timeout` are `callCommand` with the test
of its reply in the handlers; `Save` is `db->addX` and the answer. `Execute`,
`Refuse` and `Lose` are the FPGA, the boards and UDP, which are not in the
repository: a board carries out a command for the board and pair selected at that
moment, a reply repeats the command code, and goes to the port the request came
from. `SendUnbound` is a data race of the code: the address to bind is a member of
the shared `Callcommand` object, and a worker that binds just after another one
cleared it gets a port of the system's choice. The other outcomes of that race (a
send to nowhere, a bind to the address recvfrom wrote) look like a lost datagram
or a failing bind.

Values stand for all parameters of a command; the bytes of messages are left out.
Readers (the POST routes) have the same conversation: their command changes nothing,
and what `ran` records is where the answer was read. A reply to a read carries
no status, so a board does not refuse reads; the lengths of replies are left out.
Not in the catalogue, because they have nothing of this conversation or more than
one of it: the requests of `CompositeRequests`; `getTSID`, which refuses every request
(rest_server.cc:2232), and `readSFN`, which compares the reply to command 8 with 7.

### ServiceLists and the code

`hw[l]` and `rows[l]` are the list of kind, board and pair on the hardware and in its
table (`lcn`, `locked_programs`, `highPriorityServices`, `pmt_alarms`,
`freeCA_mode_programs`, `active_service_list`); `known` is `channel_list`. `Select`
is `callSetInputOutput` (for a flush `write32bCPU` only), `Read` the query for the
other programs, `Send` the command with the union, `Save` the insert or delete.
`Queried`, `DuplicateKey` and the flush case of `Saved` are the WHERE clauses and
keys as they are. A failing command (`SendFails`) may or may not have been carried
out. Clients are assumed to name programs of the program list: one that no
getProgramList has reported is saved but left out of the next rewrite.

### Scripts, CompositeRequests and the code

A handler is the sequence of its exchanges: on which port, with which code, where
it takes effect, what of the answer is looked at (`checks`), and what a failure
does to the rest (`fails`: return, go on without this part, or leave out the
input). `at` is the place in it, `told` what the exchanges so far told, and the
answer is computed from that (`Succeeds`, `Shown`). `InTime`, `FromBefore` and `TimesOut`
are the three outcomes of sendto and recvfrom in `Udpipstack::callCommand`,
`Callcommand::callCommand` and `write32bCPU`. An exchange closes its socket; a
later one binds the same port and gets what arrives then, so `late[p]` is the
answer under way to port p, at most one.

| Variable | Code |
|---|---|
| `target`, `pair` | the board-select register, what command 02 set on each board |
| `held` | the three key registers of each DVB-CSA core, the registers of the IP stack |
| `rows`, `channel_list` | `rmx_registers`, `channel_list` |
| `clean`, `spoiled`, `unseen`, `asked` | history: whether an answer was under way when a request began; whether a core refused a write where the handler does not look; what was last told, with success, for a register |

Inputs count from 1 here and from 0 in the code. Any core, and the IP stack, may
refuse any write and say so in its answer (`CanRefuse`, `Outcomes`, `Handle`); it then
holds what it held. The setters of ports and channel numbers, `setDVBCSAKey` and
`setCore` look where that is said (`Looks`); setSubnetmask, setIpgateway, setIpmulticast,
setFpgaipDhcp and setFpgaMACAddress look at the head and the length of the answer
only (rest_server.cc:7989, 8057, 8181, 8279, 8352), and answer success to a client
whose address was refused. So `AsTold` is not true of them without the words
"unless a core refused a write and said so where the handler does not look": the
history variable `unseen` is true after such a write, and nothing is claimed of that
request. What the property does say of these setters is that no
failure they can see is passed over, and that nothing that comes later undoes what
they did. `setCore`, which writes any register of a core by number, is in the
catalogue with the numbers of the three key registers, since these are what
another request writes too. The selection of a board has an answer that says
nothing, so a refused selection could not be told from one that is done; the control FPGA
is taken to do what it answers.

The raw register routes (section 7) can write the same registers behind the back
of any of these requests; "until the next request for the same" in `AsTold` is about the
requests of the catalogue.

### DeviceControl and the code

| Variable | Code |
|---|---|
| `target` | the same register as in `RmxControl`, here with its interface bits: 0 to 2 a control FPGA for two boards, 6 the RF output, 7 to 12 the tuner chips |
| `firmware`, `tuned`, `supply` | the MxL chips and the two Allegro supplies on their bus |
| `staged`, `output` | registers 36, 40, 44 of a control FPGA; what register 48 put in force for a channel |
| `frequency` | the registers of the RF output |
| `tuner_details`, `config_allegro`, `ip_output_channels`, `rf_authorization`, `Ifrequency` | the tables |
| `lost`, `doubt` | history: requests that had a write lost; rows about which the code cannot know |

A request goes through the labels of `pc` in the order of its handler (`Begins`,
`Goto`, `Leave`). `Connect` is `connectI2Clines`; it selects and asks for the version of
the chip, and is the only step that notices that a chip is not there. `Download`
has the board number of the code: setMxlTuner passes rmx_no where downloadMxlFW
takes rmx_no - 1. `Supply` is confAllegro, which takes the other half of the register from
the table. `Stage` and `Validate` are the four writes of callSetEthernetOut and of
getEthernetOut, which has the last of them too. setIPTV selects board 0 (`SelectIPTV`, setIPTV's call
of write32bCPU with no look at its success) and calls `setEthernet_MULT(2)`
(MxlApiLib.c:238): for each of the channels 1 to 4 it writes addresses of its own to
registers 36, 40 and 44 (`Preset`) and then register 48 (`PutInForce`), on control FPGA 0
or, if the selection was lost, on whichever was selected. It saves no row. `Multicast(i)`
is the address it gives channel i. Writes through the I2C core
return nothing (`write32bI2C` has no return statement), so whether they arrive and
whether they are taken for a success are chosen separately. `configure` stands for
all handlers that select a board in between.

### PollableQueue and the code

A producer allocates an entry (`AllocEntry`), clears its link (`ResetNext`),
exchanges the head (`Exchange`), links the old head to it (`Link`) and writes the
eventfd (`Signal`): `Queue::push` and `PollableQueue::push` in mailbox.h, each
shared access a step. The worker wakes from epoll (`Wake`), pops (`Pop`), drains
the eventfd (`Drain`), deletes what pop returned and handles the message
(`Handle`) until it pops nothing: `handleWriteQueue` in transport.cc and the loop
of `SyncImpl::runOnce`. Deleted memory is used again for new entries with
whatever link it held, since the constructor of an entry does not set one. Memory
is taken as sequentially consistent: the code exchanges the head and stores the
links with the default order and loads a link with acquire.

### Promise and the code

`state`, `requests` and `mtx` are the members of `Core`, `resolves` and `rejects` those of
`Continuable`, `arrived` and `over` those of the data of whenAll and whenAny. A
thread's work is a sequence of tasks (`todo`), one for each access to shared memory:
calling a function puts its tasks in front. `Check` looks at the state before the mutex
is taken, as `then()` does in one branch; `Chained` settles the chain of a
continuation without its mutex. The scenarios of `MCPromise` are `Listener::requestLoad`
and the chains, whenAll and whenAny of `tests/async_test.cc`.

`PromiseUse` states what the code of the library does not enforce and its users
respect (`UseAssumption`): a promise is resolved by one thread; a continuation
is attached once, to one promise (`promiseOf`); the promises of one whenAll or whenAny
are settled by one thread (`resolver`); and threads attach and resolve by whole calls
(`Blocks`, `Whole`). Of a promise that a callback returns it says that only that
callback attaches the continuation that passes its value on. `UsedRight` says what more
it takes that nothing throws: a promise is resolved once, not only by one thread;
continuations are attached to promises that a Resolver or a Rejection settles (a chain
is settled anew by each continuation that has it, and without its mutex, async.h:1028);
and since `All::reject` and `Any::reject` reject without a look whether the whole is
settled, one promise of a tuple is rejected at most, and of a whenAny not after
another is settled. `MCPromise` extends it, so TLC evaluates both for the scenarios. Two threads that settle the last two
promises of one whenAll do not respect it: both find the counter complete and the
second resolution throws (async.h:1432). `requestLoad` with two workers would be
such a use; only `LoadMonitor` of the example `http_server.cc` calls it, and nothing
makes a `LoadMonitor`.

### Transport, HttpParser, Router, HttpServer and the code

| Variable | Code |
|---|---|
| `backlog`, `fdOf`, `inq`, `fin`, `outq` | the kernel: connections not accepted, descriptors, socket buffers |
| `interest`, `ready`, `batch` | epoll in edge-triggered mode; the events of one epoll_wait |
| `pushing`, `signalling` | the accept thread in `PollableQueue::push`: before the entry is linked, before the eventfd is written |
| `peersQueue`, `event`, `hand` | the linked entries of `Transport::peersQueue`, its eventfd, and where the worker is in `handlePeerQueue` |
| `peers`, `toWrite` | members of `Transport` |
| `parser[c]` | `Parser` with its `ArrayStreamBuf`: step, cursor, what was read of the body |
| `handled`, `answers`, `got` | history: what handlers got, what was written, what clients read |

`Transport` is the accept thread (`Listener::run`, `dispatchPeer`), the worker
(`onReady`, `handlePeerQueue`, `handleIncoming`, `handlePeerDisconnection`,
`asyncWriteImpl`) and the clients, which send the segments of a script. A
descriptor that is closed is given to the next connection. The queue between the two
threads is the `PollableQueue` of mailbox.h with one producer: `Accept` takes the
connection and begins the push, `Link` makes the entry visible and `Signal` writes the
eventfd; `Poll` finds the eventfd readable, `PopPeer` looks for an entry and `Drain`, in
`HandlePeer` or in `NoPeer`, empties the eventfd after that look. An entry linked
and signalled between the look that finds none and the drain therefore stays where it is
with no event for it, and its connection is accepted and not served until another
one is pushed: the case of the run `QueueLostWake`, here with its consequence. The exchange
of the head and the reuse of entries are in `PollableQueue`; with one producer
nothing of them shows here. What is left out of `onInput` is its catch of a
`std::exception` from a handler, which answers 500 (http.cc:760): handlers are taken
not to throw. `HttpParser` takes a
request as units: those bytes a step looks at one by one are units of their own.
`HttpServer` is `Handler::onInput` and the router on top. Handlers answer before
they return, as all of the controller do; the kernel takes an answer whole or not
at all.

`HttpUse` states what the parser leaves to its clients, as the hypothesis
`ClientsSendRight` of the theorem about `HandledAsSent`. A client sends whole requests
with ids that rise (`RequestsAreWhole`, `IdsRise`: the ids stand for the order of
sending), one of them in chunks at most (`ChunkedOnce`: `Parser::reset`, http.cc:469,
keeps `Chunk::size`). The rest is about where a segment may end (`CutsAreRight`). The
headers may be cut anywhere; but a body with a length does not begin a segment,
because `BodyStep` would take its first bytes for the empty line (http.cc:323), and a
chunk is not cut after its size, because `Chunk::parse` would repeat what it has
(http.cc:411-418) - `BodyBegins`. And what can arrive at once neither fills the buffer, for
then the transport drops it, nor overflows the one of a parser that has read a part
of a body, unless no body with a length comes after it, because `bytesRead` survives
the reset - `RoomFor`. Requests may be pipelined, and cut in any of these ways at
once. `MCHttpServer` has TLC evaluate that its scripts are such, and that the script of
`HttpSplitBody` is not.

### CasProvisioning and the code

| Variable | Code |
|---|---|
| `ecmg`, `ecm_stream`, `map`, `emmg` | the tables; columns other than keys are one value, of a stream its timestamp |
| `selected` | the database selected on the one Redis connection (`context`) |
| `lists`, `stream_keys` | keys `Channel_list:c`, `emm_channel_list:c`, `stream:ch_c:stm_s:t`, with `is_deleted` |
| `streams`, `created`, `threads` | `streams_json`, `CW_THREAD_CREATED`, threads running `sendCWProvision` |
| `past` | history: changes of a number, refused ones, keys of others taken along, control word rounds, a crash in a request |

A request is its validated parameters (`Accept`), the queries that come first
(`AddECM` to `Descramble`), a SELECT (`Select`) and the Redis commands after it
(`PublishECM` to `UnpublishEMM`, with the deletions in the tables that follow
them there). Where the code has `streams_json = db->getScrambledServices()`, the query
is the step `List`, which leaves its rows in `found[w]`, and the assignment the step
`Cache`: another worker, the control word thread or a crash may come between. `UpdateECM` is two statements: the streams move before the channel
does, and stay moved if it does not. `PublishECM` and `KeysOf` are the `KEYS` patterns
as they are, so channel 1 finds the streams of channel 10. `CwRound` is a round of
`addCWQueue`, of which only the SELECT is visible here. `Restart` is `init`, in
which all that would restore the state is commented out, after an orderly stop
or a crash in a request. Numbers are read as decimal text by `Begins`.

## 4. Runs

| Run | Instance | Shows |
|---|---|---|
| RmxOneWorker | 1 worker, 2 boards, ports 0-1, 2 values, 4 handlers (input, output, board-wide, a reader of the pair), 2 requests, failing writes of rows | `TypeOK`; a reported success is real; rows and hardware agree after it; rows were accepted; refinement of `ConfigStore` |
| RmxTwoWorkers | 2 workers, 2 handlers with different selection, 2 requests | `OwnReplyOnly` |
| RmxAnswers | 2 workers, late replies, `FairSpec` | `EveryRequestAnswered` |
| ListsOneBoard | 1 board, kinds locked, lcn and active, 2 values, 3 requests | agreement; nothing dropped, also when a program is set again with another value |
| CompositeOneWorker | one handler of each shape (23 of 40), 2 boards, 2 channels, 2 inputs, 1 program, 2 values, 2 requests, lost and late datagrams, refused writes of any kind | `ShownIsRight`: no part of an answer is another's; `AsTold`: a success means that registers and rows hold what was told, unless a core refused a write where the handler does not look |
| DevicesOneWorker | 2 boards on one control FPGA, 1 chip each, 1 supply, 2 settings, channel numbers 1 and 9, setIPTV with 2 channels, 3 requests, restarts | rows of tuners, IP outputs and frequencies say what the devices do |
| QueueWorks | 2 producers, 3 messages, 3 entries whose memory is used again | no use after free; refinement of `MessageQueue`; one event makes the worker handle all that is linked |
| PromisesKept | the scenarios of `MCPromise`, 3 threads, 10 continuations, `FairSpec` | no continuation is forgotten or called twice; whenAll is all or nothing; nothing throws; every then() is called |
| HttpServer | 2 clients (one waits for its answers, one does not), 2 descriptors, sockets that take one answer, a hand-over queue that can lose its wake-up, requests in cuts, pipelined and too large, `FairSpec` | requests are handled as sent; answers reach their client in order; worker and kernel agree about descriptors; each waiting client is answered and each closed connection closed, or its entry of `peersQueue` is overlooked for good |
| CasOneWorker | 1 worker and the control word thread, channels 1, 2, 10, streams 1, 10, 1 service, 2 parameters, 3 requests | tables, Redis and the cached list agree between requests; one thread |
| QueueLostWake, HttpSplitBody | expected to fail | section 6 |

Bounds. `MaxRequests` bounds only the number of requests; datagrams are bounded by
the requests, since each waiting worker has sent one. Two requests are enough for
a request to meet what an earlier or concurrent one left: the selection, its late
reply, its row, the port. Two boards and ports 0 and 1 distinguish the right
setting from a wrong board, a wrong pair, and from the pair with a 0 that input
and output handlers select. Three programs distinguish the program of a request,
one listed before and one never listed; three or four requests allow add, add
again, drop or flush, with failures between. Programs are symmetric in the list
runs (no property names one). In `CompositeOneWorker` the second request meets the
registers, rows and late answers of the first; two inputs let the part of one be
taken for the part of the other; 65541 is a value that neither a port nor the
column can hold (`RowMax` stands for 2^31 - 1). In `DevicesOneWorker` three requests
allow one to record, one to disturb and one to use what is left; numbers 1 and 9
are the channels that two boards share. `Groups` = 2 stands for the four channels of
setIPTV: one of them is channel 1, which has a row, the other has none, and between the
two a reading or a second setIPTV can find what is staged; the proofs are for any
number. Six million states take little more than a minute. Three messages and entries let an entry
be freed, used again and linked while another push is in the middle. In
`HttpServer` two connections over two descriptors, one of which may close and come
back, let a descriptor be used again while its events and answers are pending;
`Window` 1 makes every second answer wait; `MaxBuffer` lets one request be too large.
Two connections are also what the lost wake-up takes: the entry of the one is
linked while the worker drains after it has handled the other.
Channels 1, 2 and 10
allow a new number that is free, one that is taken, and one that begins with the
other; the tables start empty or with channels 1 and 10, each with or without
stream 1, so that three requests reach a change of what was changed before; with
four requests (31 million states, five minutes) the properties hold as well.
Deadlock: `RmxControl` and `CompositeRequests` have `Done`, `Promise` has `Stop`; in the
list and server runs clients may stop, in the queue
runs the worker sleeps when all is sent, so the check is off there. In
`CasProvisioning` and `DeviceControl` a restart is always possible.

Fairness. `RmxAnswers` uses `WF` of each worker's own steps: a thread that can run
does run, and recvfrom returns when SO_RCVTIMEO expires. Nothing is assumed of
network, FPGA or clients, and no worker is promised the port: a failing bind
answers the request. The queue runs use `WF` of a push once begun and of the
worker: both are threads, and epoll reports an eventfd that is not zero.
`PromisesKept` uses `WF` of each thread's next task. `HttpServer` uses `WF` of the accept
thread (which accepts, links and signals), of the worker (epoll reports what is ready,
and the eventfd only while it is not zero) and of clients that send what
they have to and read their answers; clients need not close. The code does not give
more than that, so both liveness properties name the case in which it leaves a
connection: `Overlooked(c)` is an entry that is linked while the eventfd is empty, the
worker is at no batch, and no push is under way or can begin. Only if that holds for
ever is the client not answered. Without this alternative TLC refutes both.

Workers. main starts two workers (`thr`), and they share the database connection,
the Redis connection and the members of `StatsEndpoint`. With two workers all properties of `CasProvisioning` but `TypeOK` fail within two
requests: one worker selects database 3 between the SELECT 4 and the commands
of the other, and both may start a control word thread. So does
`CwOnlyForScrambled`: one worker has read the scrambled streams, the other removes one of
them and assigns its own list, and then the first assigns the one it had read
(rest_server.cc:10692). The properties of
`DeviceControl` and `CompositeRequests` fail with two workers likewise, over `target`. That they hold for one
worker says that the handlers are right by themselves; `hazards` names the lines.

## 5. Proofs

All theorems hold for any sets of workers, boards, ports, values and handlers,
under the `ASSUME`s of the modules, which TLC evaluates in each run.

* `RmxControl_proofs!TypeCorrect`: `Spec => []TypeOK`.
* `OwnRepliesOnly`: if replies do not outlive their wait, `Spec => []OwnReplyOnly`.
  The property speaks of the end of a conversation only; the inductive invariant
  `Conversation` says what holds on the way: the port is held only by a waiting
  worker, a waiting worker has at most one datagram under way, which belongs to
  its request and, if it was sent from port 4660, finds it still its own, and a
  request's command ran iff its last reply says so.
* `SuccessIsReal`: one worker, no late replies, handlers with
  `SelectsWhatItSets`. Needs `Selected` on top of `Conversation`: from the reply
  of write32bCPU on, the board is the request's, and from the reply of command
  02 on, so is the pair.
  By the lemma `SelectingHandlers` that condition holds for all of the catalogue
  but `setDvbSpiOutputMode`, `setListofServiceID` and `getLcnProviders`.
* `RowsInSync` and `RowsWereAccepted`: under the same conditions, also when queries
  fail. `InSync` says of a request on its way what is known: its command has run
  iff its value is on the hardware, and the row is the last one saved.
* `StoreImplemented`: under the same conditions, initial
  states map to initial states of `ConfigStore` and each step to a step
  (`Accept` to Begin, `Execute` of a command to Apply, `Save` to Succeed, failures
  to GiveUp) or to a stutter.
* `ServiceLists_proofs`: `TypeCorrect`; `AcknowledgedAgree` and `NothingDropped` for
  one worker and one board. Inductive invariant `Rewriting`: a busy worker has
  its selection in force and what it read is what the rows still hold, all saved
  programs are known, and acknowledged lists agree.

* `PollableQueue_proofs`: `TypeCorrect`, `NothingFreedIsTouched` and
  `FifoImplemented` (refinement of `MessageQueue`), for any producers, messages and
  entries. The invariant `IInv` describes the list as a sequence of entries from
  tail to head: neighbours are linked except where a producer stands between its
  exchange and its link (`Linked`, `Gaps`), no entry occurs twice (`Distinct`), each
  entry is free, in the list, or held by one thread (`Owned`, `OneOwner`), and holds
  its message (`Filled`). No event is an assumption: the proof does not depend on
  the eventfd.
* `CasProvisioning_proofs`, for any channels, streams, services and numbers of
  requests. For any number of workers: `TypeCorrect`. For one worker:
  `NoControlWordsForTheDead`, by `CacheFresh`: a request that removes a row or an
  entry of the map goes on to list and to cache what is left, and what it has listed is
  still so when it assigns it; `NeverTwoCwThreads`
  (`FlagTells`: the flag lags behind the thread only between `Spawn` and `Mark`) and
  `ChannelsStayInAgreement` (`EcmInv`: outside a change rows and keys agree; a
  change knows which rows it has written, a deletion that its row is there, and
  either has database 4 selected when it publishes - the control word thread
  selects 4 as well, which is why the theorem needs no assumption about it).
  `EmmChannelsStayInAgreement` is the same for EMM channels (`EmmInv`), which are
  in database 3, and there it does need one: no control word thread has run.
  `StreamsStayPublished`, also for one worker: a stream's row has a channel's row
  (`Backed`), a key of Redis one value (`OneValue`), and of the rows a request under
  way has written or moved to another channel number it is known where their keys
  are (`StreamInv`).
* `DeviceControl_proofs`, for any boards, chips and settings: `TypeCorrect` for any
  number of workers (`Whereabouts`: a worker is only where the handler of its request
  comes by), and for one worker `FrequenciesStayAsRecorded`, `OutputsStayAsRecorded` and
  `TunersStayAsRecorded`. Each says of the one request under way what it has
  selected, staged or changed and not yet recorded (`CarrierAt`, `OutputAt`, `TunerAt`),
  and that no other row's device is reached by it: a board has its own register
  in the RF output, channels of two boards differ up to 8, a bus belongs to one chip.
  `OutputsStayAsRecorded` is about the channels whose row is the last word about them: those
  whose last request failed or lost a write, was getEthernetOut, or was setIPTV, are in
  `doubt`, for the code has no row of what it then did. That setIPTV may reach another
  control FPGA than 0 when its selection is lost is part of it (`GroupsAt`).
* `HttpServer_proofs`, for any clients, descriptors, windows and routes:
  `DescriptorsAgree`, `WorkerNeverThrows`, `AnswersStayInOrder`, from
  `Inv == Types /\ PeersAreOpen /\ Arriving /\ Events /\ InOrder /\ NeverThrows`. What
  is accepted and not yet a peer is in the queue once or about to be linked, and
  the entry that pop has found is still there (`Arriving`); a descriptor
  is watched for room only while an answer waits for it, and a batch holds at
  most one event of a descriptor, for what it is watched for (`Events`); the answers
  a client will read are in the order in which they were written, those that
  wait included (`InOrder`). `TypeCorrect` is about the parser: whatever pieces
  arrive, its step, its request and its cursor fit together (`Sound` in `Parsing`): a
  request is held from its request line to the reset, what is left to read is no
  more than what was fed, and that stays below `MaxBuffer`. Each step of the
  parser has its lemma (`RequestLineTypes`, `HeadersTypes`, `ContentLengthTypes`,
  `TransferEncodingTypes`); the loop over chunks, a recursive function,
  goes up to the chunks of the request, by way of a least counterexample
  (`UpTo`). It uses `ScriptsAssumption` (what clients send are units of
  requests, in pieces, of any order and number: a body that is cut, a request
  never finished, two in one piece) and `RequestsAssumption` (a request has an
  identity of its own, and a body of the shape its framing says).
  `RoutesAreRight`: `Match`, which walks over path and route fragment by
  fragment, accepts what the fragments stand for (`MatchAccepts`), so the search
  finds the first route that accepts, and no route only where none does
  (`RouteIs`).
  `HandlersGetWhatWasSent` supposes `ClientsSendRight`. Its invariant is an `Account` of
  each connection: how many units of what the client sends the parser has been
  fed or has passed over, and that it is `Waiting` for the next request or `Within`
  one, with the step, the cursor and the body that go with the units it has seen.
  That an event of input finds input is `Inputs`, that a client has read no more
  answers than were given is `AnswersRead`. `ParseReads` says what a call of
  the parser makes of any beginning of a request: nothing that can be seen, the
  request, or a refusal; under it there is a lemma for each step of the parser, and one
  for the loop over chunks (`ChunkByChunk`, by a least counterexample again). TLC has
  checked `Inputs` and `Account` on the instance of the run `HttpServer`.
* `Promise_proofs`, for any threads, cores, continuations and scripts that respect
  `UseAssumption`: `TypeCorrect`, `NeverForgotten` and `AllBeforeWhole`, and for those
  that respect `UsedRight` besides, `NoException`. The state
  that matters is in the tasks a thread still has, so the proof first says what
  such a sequence looks like (`Shape`: each task is followed by the ones its call
  goes on with) and what may take the place of the first of them (`Put`, one lemma
  for each kind of task). A mutex is held iff its thread has one unlock of it that
  is under way (`Held`, `Holders`). `Inv` then has four parts: a continuation is
  attached once, to its promise (`Attaching`); it is called by the thread that
  holds the mutex of a settled promise, and not again once it was (`Calling`); who
  settles a promise goes on to call what is attached, and who attaches to a
  settled one calls at once (`Settling`), so none is forgotten on either side of
  the mutex; and only one thread has work on a promise, which is settled once
  (`Working`: this is where resolving without looking again under the mutex would
  break without `UseAssumption`). `AllBeforeWhole` counts on top of it: `arrived` is
  at most the number of promises of the whenAll that are fulfilled (`Counting`),
  and the whole is resolved only when `arrived` is their number.
  `NoException` needs `Quiet`: what is about to settle a promise finds it pending and
  is alone (`NewSettle`). A whole is settled by its last promise (`FilledLast`) or by one
  whose continuation has answered (`TurnedBy`); then its flag is up, or will be before
  the same thread comes to another of its promises (`FlagsHome`, `FlagsBefore`), and for
  a tuple, which has no such look, the other promises are not rejected (`RejectedAlone`,
  `RejectedFirst`).

* `CompositeRequests_proofs`, for any boards, channels, settings, programs and inputs,
  any number of requests, and any scripts that are `InOrder`: setters write up to the
  first failure, what takes effect on a board or channel comes after its selection, a
  failed selection is not passed over, and handlers that go on after a failure look at
  the command of what they receive. Nothing is supposed of what the cores refuse.
  `TypeCorrect`; `SettersDoAsTold`, from `Progress`: as
  long as all was accepted and nothing refused unseen, no answer is late, so what is
  accepted was done, at the selected board, and each part written stays while the next
  are; and
  `ReadersShowWhatIs`, from `BoardSelected`, `ChannelSelected` and `LateKnown`: where a
  handler goes on, an answer that is late on the control FPGA's port is that of a
  selection which has taken effect, and one on the boards' port that of a command
  which failed, so a command that has not failed before cannot be answered wrongly.
  `InOrder` is proved for the setters of the catalogue (`SettersInOrder`, whence
  `CatalogueSetters`, which supposes nothing about scripts); the readers, some of
  which have as many exchanges as there are programs, TLC evaluates for the
  programs and inputs of the instance (`ReadersInOrder`).

Every safety invariant and action property of a passing run is stated by a theorem.
Only model-checked are the liveness properties (fairness and ENABLED are out of the
prover's reach) and that `ReadersInOrder` holds. The conditions of
the theorems are real limits of the code: with two workers, late replies,
or handlers that rely on an earlier selection the statements are false.

## 6. Where code, comments and schema disagree

Two runs show it:

* `PollableQueue::pop` drains the eventfd after a pop that found nothing and may
  drain the event of a push in between: the message waits for the next push
  (`QueueLostWake`, mailbox.h:267). For `peersQueue` the message is a connection; the
  liveness properties of `HttpServer` leave out just that case.
* `BodyStep::apply` skips the CRLF before a body again when it is called again
  before the first byte of the body has come: a body that begins in a segment of
  its own loses two bytes, and the request waits (`HttpSplitBody`, http.cc:323).

The others were met on the way; the properties are stated so as to leave them out,
and say where they do:

* `setDvbSpiOutputMode` (rest_server.cc:6261) selects no output, but the mode is
  saved per output.
* `setLockedPIDs` and the other list handlers send the rows of all boards
  (dbHandler.cc:1031), and `/flushLockedPIDs/:rmx_no` deletes them (dbHandler.cc:284).
* A second unique key without `rmx_id` swallows the row of a second board
  (rmx_contr_db.sql:35).
* setMxlTuner downloads firmware to the chip of the next board (rest_server.cc:438)
  and configures the LNB supply there.
* getEthernetOut writes register 48 (rest_server.cc:7538): what was staged last
  comes into force for the channel that is only to be read.
* setEthernetIn writes the IGMP channel as channel_no - 127, setEthernetInOff as
  channel_no: it does not undo what the other did (rest_server.cc:7800, 7857).
* getCenterFrequency reads again, without end, while it reads 197 (rest_server.cc:9581).
* getDhcpSubnetmask sends decimal 44 where its comment (rest_server.cc:8136) says
  0x44: it reads the destination port.
* The POST routes for versions have a board among their parameters and select none.
* getAffectedOutputServices answers `error` true when it succeeds (rest_server.cc:5258);
  getAllInputServices does not report an input that failed when another has programs.
* `rmx_registers.data` is int(11), and a key register has 32 bits.
* The two halves of an answer about a program (name, provider) do not say which
  program they are about: after a time-out the late answer counts for the next.
* then() on a promise that another then() returned takes a mutex that a
  continuation that settles it does not take (async.h:361, 1028).
* setIPTV rewrites channels 1 to 4 of a control FPGA and changes no row of
  ip_output_channels (rest_server.cc:935, MxlApiLib.c:238).
* setFpgaMACAddress, setSubnetmask, setIpgateway, setIpmulticast and setFpgaipDhcp do not
  look at byte 6 of the answer, where the other setters of the IP stack find a refusal
  (rest_server.cc:8357 against 8465).
* callCommand does not close its socket when bind fails (callcommand.cc:47).
* After a partial send the length is compared with what remained, not with the
  whole (transport.cc:218).

## 7. Not modelled

* Handlers: the raw register routes (`readWrite32bUdpCpu`, `readWrite32bUdpI2C`,
  `upconverterRW`), which write any register they are told, those of the models included: the
  properties of `DeviceControl` and `CompositeRequests` are about servers whose clients do not use
  them; `setCore` for registers that hold no key; setEthernetIn and setEthernetInOff (their
  registers are read by nothing and have no table), GET getProgActivation, the readings of tuners,
  login, logging, and the text of all messages.
* CAS provisioning: the counters and `deleted_x` markers that tell the CAS process
  to look again, the contents of control words, and the races inside the Redis
  client library when several threads use one connection.
* Interleavings on the one MySQL connection: its client library is undefined there.
* Dead code: `runBootupscript` and the fork functions are not called, `Itoc` is
  never used.
* Pistache: the client (`client.cc`, `MPMCQueue`, `timer_pool.cc`), which no part of
  the controller uses; timers and load requests of the transport; partial and
  file writes; several handlers per reactor; headers, MIME types, cookies, which
  are text formats without state.
* Validation of parameters (`verifyInteger` and the like): a request that is
  refused has no effect, and the models start with those that are not.
* The bytes of a command: the values of a request reach the multiplexer as they
  are, whereas `callcommand.cc` cuts some of them to eight bits before it writes
  them into sixteen (the time-out of command 13 at line 219, the FIFO thresholds
  of command 15 at lines 253-256). The models say nothing of values above 255 there.
* Vendor code: the MxL API and its copy in `src/pistache-master/src/mxl`, which is
  not built, and googletest - together two thirds of the source lines; `build/` is
  generated.
