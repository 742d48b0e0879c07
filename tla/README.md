# OrderSync: verification project

OrderSync carries changes of orders from the database of a pay centre to a
target database. This directory holds TLA+ modules translated from the source,
the TLC runs that check them on small instances, and theorems about them whose
proofs TLAPS checks. Line numbers refer to the sources under `src/`.

## 1. The system

```
 pay centre --rpush--> redis list --lpop--> OrderSyncClient
                                                 |  TCP, one packet at a time
                                                 v
                                           OrderSyncServer --rpush ORDER_Q--> redis 1..n
                                                                                |  lpop
                                                                                v
                                                         OrderDbSync 1..n --SQL--> target database
```

| component | state | operations | hard behaviour | what makes it correct |
|---|---|---|---|---|
| **OrderSyncClient, send loop** (`OrderSyncClient/src/order_sync_client.cc` 38-205, `TcpClient.cc`, `fetcher.cc`, `RedisHelper.cc`, `poller.cc`, `main.cc`) | socket, epoll set, packet in hand, event id, poll counter | wait, check, reconnect, fetch, send, receive, time out | blocking calls with reconnects in every place; a reply that is late, lost or in pieces; a crash between lpop and answer | the next packet is sent only when the one before is answered; a lost connection never loses or skips a packet; the loop always comes to an end |
| **creation-time lookup** (`MysqlHelper.cc`, `get_ord_date`) | - | one SELECT for an update | fails | an update finds the table of its insert |
| **packet codec** (`packet.cc`) | buffers | build, parse, checksum, byte map | 16-bit arithmetic, short reads | a packet read back is the packet written |
| **OrderSyncServer, request handling** (`client_unit.cpp`, `decode_unit.cpp`) | receive and send cache, stage, event mask, error counter | InputNotify, OutputNotify, HangupNotify, TimerNotify, cmd_data_handler, __data_flow | requests in pieces, partial sends, events of both directions at once | each request is handled once and answered in order |
| **poller** (`core/poller.cpp`) | slot table, free list, sequence numbers, epoll set | attach, detach, apply events, process a batch of events | events of a slot's earlier owner in the same batch | an event reaches the object it was registered for, or nobody |
| **listener** (`listener.cpp`, with the units of `decode_unit.cpp`) | accepted descriptors of one round, units, slots | accept, create the units, complete | EINTR, ECONNABORTED, EMFILE, EAGAIN, no slot | each accepted descriptor is served; slots and timers go with the units |
| **timer lists, main loop** (`core/timerlist.cpp`, `incoming.cpp` 209-220) | lists ordered by expiry, `now` of the round | attach, detach, expire, timeout of `epoll_wait` | timers changed by handlers and by other timers; a clock that is set forward or back | a timer fires in time, and not while its connection is busy |
| **packets of the server** (`ICHAT_PacketBase.h`, `EncryptDecrypt.cpp`, `client_unit.cpp` 253-385) | a buffer on the stack | cut the stream, read, write, encrypt, decrypt | pieces, the size limit, octets left in the buffer | what the client wrote is what the server reads, and the other way round |
| **raw cache, memory pool** (`proxy/cache.cpp`, `proxy/mempool.cpp`) | blocks, free lists | append, skip, allocate, recycle, release | the limit, exact fits | bytes come out as they went in; a block has one owner |
| **redis instances** (`redis_helper.cc`, `incoming.cpp` 139-207) | a connection for each instance | Enqueue | the connection breaks and is never opened again | a change of an order always goes to the instance of that order |
| **OrderDbSync** (`SyncFunc.cc`, `Main.cc`, `MysqlHelper.cc`, `RedisHelper.cc`) | nothing but connections | sync_order | n processes write to one database; the month changes; a statement fails | rows follow the source; the insert and the updates of an order hit one table |
| configuration, logging, watchdog, the helper and game units of the chat server this one was made from, vendored JSON and XML | | | | not modelled (section 7) |

The client and the server share a TCP connection; the server and an OrderDbSync
process share a redis list; the OrderDbSync processes share the target
database. Every program is one thread around a loop, so the interleavings are
between programs, between them and the network, and, inside the server, between
the events of one batch.

## 2. The modules

| module | what it is |
|---|---|
| `OrderData` | order changes, request and reply packets, the kinds of fault |
| `TcpLink` | the connections of one client: both ends, what is in flight each way |
| `OrderSyncClient` | the client, one action for each system call of its loop |
| `RedisQueue` | the lists ORDER_Q, kept with their history |
| `OrderSyncServer` | the server at the level of packets, one action for each handler |
| `OrderDbSync` | `sync_order`, and the rows of the target database |
| `OrderPipe` | abstract specification: at-least-once transfer, one order change at a time |
| `OrderSync` | the composition, its fairness and its properties |
| `MCOrderSync` | orders for the instances TLC checks |
| `OrderSyncProofs`, `OrderSyncPipeProofs`, `OrderSyncRowsProofs` | theorems about `OrderSync` |
| `Session` | abstract specification: one connection of the server, whole packets at a time |
| `ClientUnit` | one connection of the server: pieces of packets, caches, event mask, kernel buffers |
| `MCClientUnit` | streams of requests for TLC |
| `ClientUnitProofs` | theorems about `ClientUnit` |
| `Poller` | the slot table of the poller, the epoll set and one batch of events |
| `MCPoller` | symmetry of the objects, for TLC |
| `PollerProofs` | theorems about `Poller` |
| `TimerLists` | the lists of timers, the timeout for `epoll_wait`, the clock |
| `Listener` | the accept loop, the units it creates, their end |
| `ServerLoop` | the main loop with listener, connections and timers; its fairness and properties |
| `MCServerLoop` | timer objects and timeouts for TLC |
| `ServerLoopProofs` | theorems about `ServerLoop` |
| `ByteQueues` | abstract specification: queues of bytes |
| `MemPool` | the memory pool, as functions from pools to pools |
| `RawCaches` | the caches of the connections with their memory, on one pool |
| `MCRawCaches` | symmetry of the caches, for TLC |
| `RawCachesProofs` | theorems about `RawCaches` and its refinement of `ByteQueues` |
| `Octets` | integers as octets, the check code |
| `ClientPacket` | `packet_t` of the client: requests written, replies read |
| `ServerPacket` | the cut of the stream, the packet buffers, encryption and decryption |
| `PacketExchange` | both sides' packets composed, over a wire that may damage an octet |
| `PacketExchangeProofs` | theorems about it, from the octets up |
| `MCPacketExchange` | orders, event ids and stacks for TLC |

`OrderSync` composes the modules above it. It takes two things about the inside
of the server for granted: that a connection handles whole requests, once and
in order, which `ClientUnit` shows as its refinement of `Session`, and that an
event reaches the connection it was reported for, which `Poller` shows.
`ClientUnit` in turn takes its caches for queues of bytes, which `RawCaches`
shows; a request for what the server reads in it, which `PacketExchange` shows;
and a timer for a step that may come at any time, of which `ServerLoop` says when
it comes. `ServerLoop` extends `Listener`, which extends `TimerLists`;
`PacketExchange` extends `ClientPacket` and `ServerPacket`.

How the model corresponds to the code:

- **Order changes.** An order change is named by its place in the source queue.
  `Orders[i]` says what the JSON text holds as far as anything depends on it:
  the order's id, insert or update, `stime`, the month the order was created in,
  and whether the text is no JSON (`bad`) or makes a packet of more than 8000
  bytes (`huge`).
- **Client.** `pc` names the next system call of `run`; a step is that call with
  the code up to the next one. The socket is registered with epoll exactly while
  it is connected, because every `Close` comes with `disconnected()` and every
  successful `Reconnect` with `attach`. `Wait` has no step without a connection:
  epoll_wait never reports anything then. `fate` is a history variable.
- **Link.** One packet is one element of `up`; a reply is `ReplyUnits` elements
  of `down`, and `"fragment" \in Faults` lets any prefix arrive first. A slot of
  `Conns` is reused when both ends have closed it, so a packet on a connection
  the client has given up can still be read by the server. A write to a closed
  peer succeeds once and is lost (`Send`), or fails (`SendFails`).
- **Server.** The event loop is one thread and a handler runs to its end. A
  handler reads all requests that have arrived; because the client has at most
  one request on a connection (`OneRequestInFlight`), handling one packet in one
  step loses no behaviour. `discarded` is a history variable: packets answered
  without a push.
- **parse_packet.** It accepts the bytes of exactly one reply. What it does with
  a short read (`len - 9` in 16 bits, a buffer sized by the first read) is
  undefined in C++; in the model it is "not accepted", which is the outcome that
  the checksum gives unless it collides.
- **OrderDbSync.** A call of `sync_order` is one action, because nobody else
  pops its list and the statement is one call. A call that finds redis down or
  the list empty is a stuttering step. A row is the last change that wrote it;
  an insert of a present primary key fails, an update of an absent row does
  nothing. The model is of the build with `__PARTITION__`, one table a month, and
  takes the substitution of the table's name in the statement as exact. The code
  (SyncFunc.cc:117-126) replaces 19 characters from where `old_name` begins, though
  its comment calls the name 20 long, and leaves a statement alone in which
  `old_name` does not occur. Insert and update of an order are affected alike, which
  is all that `RowsInTheirMonth` and `RowsFollowSource` need.
- **Environment.** The pay centre (`Produce`), the calendar (`NextMonth`), the
  network (`NetReset`), redis (`RedisBreaks`), process deaths (`Crash`,
  `Restart`). An instance chooses the kinds of fault (`Faults`); the resets,
  timeouts, restarts, crashes and breaks among them are counted by `breaks` and
  bounded by `MaxBreaks`.

- **A connection of the server (`ClientUnit`).** Bytes come in units that carry
  their place in the stream: `[req, part]`. A request has its own number of
  units, the first `HeadSize` of which are the packet header. `r` and `w` are the
  caches `_r` and `_w`, `toServer` and `toClient` the kernel's buffers. `pc` names
  the next system call, or the next turn of the loop in `proc_pkg`; the client
  reads, writes and closes between any two. `HandleInput` returns what the
  function returns: the size of a request that has arrived, 0, or -1. A send
  takes any part of `w` that the kernel has room for. `newEvents` is what the
  handlers ask for and `oldEvents` what the kernel watches. The verdict stored in
  `_stage` is read by the step that stores it. A request for the policy file is
  answered and ends the connection: it is a `"bad"` request here. `Complete` is
  the deletion of the unit; a close with unread input is a reset, which may
  destroy replies on their way. The push to redis belongs to `OrderSyncServer`.
- **Poller.** `reg` is what the kernel stores for a descriptor (`ev.data`:
  slot and sequence number), `batch` the events of one `epoll_wait` that have
  not been processed yet, `running` the handler that runs. The handlers are left
  open: they attach, change, detach and delete any objects in any order, which
  includes everything the listener, the units and the timers do. An event mask is
  not modelled; `ApplyEvents` either changes it, and then takes a new sequence
  number, or does nothing. `epoll_ctl` MOD and DEL of a registered descriptor do
  not fail. A handler that has deleted its object does not return `POLLER_SUCC`,
  as the comments at poller.cpp:311-321 ask for. `life` is a history variable
  that tells an object from the next one at the same address, and `bumps` counts
  the changes of a slot's number during one batch.

- **Timers.** `lists[t]` is the list that `GetTimerList(t)` returns: lists are
  shared by everybody who asks for the same timeout. Every operation moves one
  object, as `ListMoveTail` and `ListDel` do (`AttachTimer`, `DetachTimer`). Absolute times would never
  repeat, so a timer is known by what is left of it and the `now` of a round by
  its age `lag`; `Older` ages all timers at once, down to a floor below which no
  decision tells them apart. `CheckExpired` compares with `now`, which is older
  than the clock when handlers have taken time, and `AttachTimer` reads the clock.
  The clock is gettimeofday: it can be set forward and back by any amount
  (`StepForward`, `StepBack`), which moves the timers and, within a round, `lag`;
  the timeout of `epoll_wait` (`patience`) does not follow it. `ahead`, `back` and
  `setBack` are the history of these settings.
- **Listener and main loop.** `pc` says where `CIncoming::run` is: in its wait,
  in the batch of events, inside the listener's `InputNotify`, or with the
  timers. Each call of `accept` is a step, so that clients arrive between two of
  them. `fd_array` is `_fd_array` as far as it is filled, with -1 where a call
  failed. `proc_request` goes through its first `_newfd_cnt` entries, one step
  for each (`RequestNoFd`, `RequestUnit`, `RequestNoSlot`): nothing comes between
  them in the program, but in the model clients may connect and the clock may be
  set back there. `served` is its loop variable. A connection's handlers keep it or end it (`HandleEvent`,
  `HandleLastEvent`); what they do with bytes is in `ClientUnit`. `"down"` is the
  end of the process by the NULL pointer of listener.cpp:116. `idle`,
  `interrupts` and `aborts` are history variables; `idle` counts what passes and
  what the clock is set forward. Time passes and the clock is set at any point of a
  round, between any two calls of `accept` too. EMFILE is returned
  whether or not a client waits, as Linux does, which reserves the descriptor
  first. Memory and `EPOLL_CTL_ADD` do not fail.
- **Memory pool and caches.** The pool is a value, and `allocate`, `recycle`,
  `extend` and `release` are functions on it, because each runs within one step
  of the server. A block is its size and a number; the heap returns any
  addresses that nobody has (`NewBlocks`). `release_size` goes down through the
  sizes until it has what it needs: `Purged` is the set of sizes it comes to, and
  `GiveBack` what it does at each. `bytes` is the memory of the blocks in use: a byte that
  was skipped or never written is `Junk`, which makes two states equal that
  differ in bytes nobody may read. `dead` is the exception that `append` throws
  when the pool has no block, which nothing catches.
- **Packets.** A packet is a sequence of octets, with the tables of the source. A
  64-bit integer is its eight octets in memory order. `InputPacket` is a local
  variable: `Stacks` is what was in its memory before, and `Copy` resets it.
  `CString` goes on to the next NUL of the buffer wherever the packet ends, as
  the `string` constructor does. `DataSize` is a WORD, as in the code: a packet whose
  header declares a length below 7 would make it wrap to about 65530, and
  `DecryptBuffer` run past the 8192 octets of the buffer (EncryptDecrypt.cpp:78-84).
  `HandleInput` does not refuse such a length. The client never writes one and only
  bodies are damaged here, so no run and no theorem is about it, and what the
  program does then is not modelled. A reply reaches `parse_packet` whole. What
  `pieces` and `early` say about replies in pieces is not repeated here.

## 3. The runs

Every cfg has `CHECK_DEADLOCK FALSE`: the supply of order changes is finite, the
client really can stop for ever (run `stuck`), a connection ends, the lives of
poller objects and the number of requests are bounded, and the server can die
(`serverloop`, `caches`).

| run | bounds | shows |
|---|---|---|
| `safety` | one order with insert and two updates, 3 connection slots, 2 redis instances, 2 months, `MaxBreaks` 2, every fault but pieces | the type invariant; one request in flight; no order change let go before the server had it; first copies queued in order; rows follow the source, stay in their month and go back only by repeated copies; the system implements `OrderPipe` |
| `pieces` | four changes, among them one that is no JSON and one that is too large; replies in 3 units delivered in any pieces | "sync success" is never logged for an order change the server did not handle |
| `live` | two orders, 2 slots, resets, idle closes, timeouts, a server restart | a change the client holds is at last answered; OrderDbSync empties its lists |
| `stuck` (violation) | one idle close | a pushed change need not ever be fetched |
| `early` (violation) | replies in 3 pieces | a change can be dropped before the server has handled it |
| `unqueued` (violation) | one broken redis connection | an answered change need not be in any list |
| `unit` | four requests of 2 or 3 units, the last one handled, refused or bad; replies of 2 units, room for 3 in the kernel, reads of up to 5, 3 failed sends | no byte is lost or read twice; EPOLLOUT is watched exactly while there is output; a connection implements `Session`; every request is answered unless one side closes |
| `spurious` (violation) | the same | a connection can be given up as "response data to client failed" when all its replies have been sent |
| `serverloop` | 3 descriptors, slots for 1 connection or 4, 2 accepts to a call, backlog 1, timeouts 1 (connections) and 2 (`CRealTimer`), a wait and rounds of up to 1; 2 faults, each an interrupted or aborted accept or a setting of the clock, back by up to 2 or forward by 1, anywhere in a round | units, timers and slots are of one mind; every accepted descriptor gets its units, but for one for each interrupted accept; the server dies for want of a slot only when fewer slots than descriptors are configured; timers are late by no more than a round and what the clock was set; a connection is ended early only by as much as the clock was set forward, or when it was set back by the timeout within the round; the loop goes round for ever unless the listener is out of descriptors or the process dead, and `CRealTimer`, expired anew each time it attaches itself, holds it up for a finite time only |
| `caches` | 2 caches of up to 8 bytes, appends of 1 and 4, skips of 3 or all, blocks of 2 to 16 bytes, 34 bytes in all | the caches implement `ByteQueues`; every block is used once or free once; the pool keeps its limit and its account |
| `codec` | 5 orders, 3 event ids, 2 requests in pieces of 20, 23, 120 octets or all, 1 damaged octet, packets of up to 300 octets | requests are cut at the right octet and only the one above the limit is refused; both sides read what the other wrote, whatever the buffer held; a damaged octet is noticed wherever it is |
| `poller` | 3 objects, 2 slots, sequence numbers modulo 4, `MaxLives` 2 | every slot is free once or owned once; what the kernel stores is up to date; a stale event never reaches a later owner of the slot; handlers run only for live objects |

Two disruptions are enough for the cases that matter: one to abandon a
connection with a packet still on it, one more to do it again to the copy, or to
restart the server in between; three slots let both abandoned connections and
the new one exist at once. One order with three changes is enough for the
order of copies to matter in its row; two instances make a wrong choice of the
list visible.

In `unit`, a read can end inside a header, inside a body and behind one or two
requests; two replies do not fit into the kernel's buffer, so sends are partial
and fail; input and output can be ready in one event. In `poller`, three
objects for two slots make a slot change its owner while events for it are
waiting, and `MaxLives` 2 lets an address be used again. `SeqMod` stands for
2^32; with 4 the numbers wrap. `Bump` allows fewer than `SeqMod` changes of one
slot's number between two calls of `epoll_wait`: in the program each of them
comes with a system call, and 2^32 of them do not happen in one batch. In TLC
that leaves three, enough to detach, attach and detach a slot again.

In `serverloop`, slots for one connection stand for a `MaxFdCount` below the
limit of descriptors, slots for four for one above it. With fewer than three
descriptors two connections never live at once, because the listener runs out of
descriptors before it returns; two accepts to a call give calls that are full, that
end with EAGAIN and that end with EMFILE. `WebTimeout` and `RealTimeout` differ,
because equal ones would share a list. POSIX allows EINTR
for a non-blocking accept; Linux does not produce it. Endless aborted connections
would keep the accept loop busy as EMFILE does, so `MaxFaults` bounds them.
The settings of the clock share this bound: two of them can go both ways.

`MaxBack` is the longer of the two timeouts and `MaxAhead` that of a
connection, so that one setting of the clock can by itself end a connection that is
busy, and make `CRealTimer` expire again as often as it attaches itself. Each part of
the conditions in `TimersInTime` and `NeverEndedEarly` is needed: without `ahead`,
`back`, `setBack` or the forward settings in `idle` TLC finds them violated. `MaxLag`
keeps time from passing in a round whose `now` is that old already; setting the clock
is not bound by it. `MaxBack` and `MaxAhead` bound the sums of the settings, so that a
single one may be of any size up to them. The fine grain within a timeout, which a tick
as long as `WebTimeout` cannot show, is in the theorems of `ServerLoopProofs`.

In `caches`, the constants of mempool.h are scaled down: the limit 34 is not a
multiple of a block set, both slots (`C_SLOT_1`, `C_SLOT_2`) lie inside the sizes,
and two caches with what the pool keeps for them reach the limit, so that blocks
of other sizes are purged and an allocation can fail. Two marks tell a byte from its
neighbours: with skips of 3 a block whose data stayed where they were, or whose
head is stale, shows the wrong mark or `Junk`. In `codec`, `BufferSize` and `MaxPacket` are 320 and
300 instead of 8192 and 8000; the last two orders lie at the limit and one above
it. One order has every octet but NUL, so that both tables are used whole; the
event ids carry into the second octet, wrap all eight, and begin with the octet
that the table sends as `<`: a piece of 23 octets that begins with `<p` is taken
for a policy file request, and the packet is sent again. An order too large is
refused and sent again for ever, which the run contains.

## 4. Fairness

`FairSpec` assumes weak fairness of the client's loop, of the server's handlers
for each connection and of each OrderDbSync process: each is a thread in a loop
whose enabled step stays enabled until it is taken. It assumes strong fairness
of the client's connect attempts: an attempt may fail at any time
(`SendReconnectFails`, `RecheckFails`), the loop repeats it, and a server that
accepts again and again is reached in the end. Faults are never fair, and their
number is bounded. Nothing is assumed of the pay centre, the network or the
calendar. The single `Recheck` has that fairness too and still gives the
violation of run `stuck`: it is attempted once, not again and again.

`FairUnitSpec` (run `unit`) assumes weak fairness of the server's steps for a
connection, which the event loop takes while epoll reports the descriptor
(level-triggered), and of the client's reads: `run` waits for the reply to each
of its packets. Neither closes nor timers are fair.

`ServerSpec` (run `serverloop`) assumes weak fairness of the server's one thread
(`ServerStep`) and of time (`Tick`), without which a wait would have no end. Clients
need not come, and the clock need not be set. `RoundsGoOn` needs the fairness of time:
while the clock is behind the `now` of the round by `RealTimeout`,
`CheckExpired` turns in its loop (timerlist.cpp:33-39) until time has passed. The
other specifications state safety only.

## 5. What is proved

Every theorem holds for all values of the constants that satisfy the named
assumptions of the modules (`OrderAssumption`, `LinkAssumption`,
`ClientAssumption`, `RedisAssumption`, `DbSyncAssumption`, `PollerAssumption`,
`UnitAssumption`, `TimerAssumption`, `ListenerAssumption`, `ServerAssumption`,
`PoolAssumption`, `CacheAssumption`, `PacketAssumption`), which TLC evaluates in every run. Where a theorem needs more,
it says so: `WholeReplies` (no fragments), `StimeIsCreation` (an insert carries
the month of creation), `OrdersAreCreated` (an order's first change is its only
insert). The runs `safety` and `live` satisfy all three.

**The pipeline** (`OrderSync`).

- `TypeCorrect`: `Spec => []TypeOK`. The types are not inductive alone: `Send`
  puts `out` on the wire, which is a packet only because the client holds an
  order change there. `LocalInv` (the packet in hand is that of the last change
  popped, and the socket's end is open) goes with it.
- `InFlightCorrect`, `SettledCorrect`: under `WholeReplies`. The
  inductive invariant `IInv` joins the types, `LocalInv`, `OneRequestInFlight`,
  `ReplyInv` (a reply on the client's connection implies that the packet was
  served) and `SettledIsServed`: what the client receives is the whole reply to
  its packet because only one request was in flight, and that stays so because
  it takes the whole reply.
- `AnsweredCorrect`: `Spec => []AnsweredIsServed`, with no assumption on how
  replies arrive. The argument is about event ids: no packet and no reply unit
  on any connection carries an id above the current one, one with the current
  id is of the change in hand, and its reply units follow its handling. A reset
  of the ids by a client restart is harmless because the old connections' reply
  units died with the client's ends.
- `PipeCorrect`: under `WholeReplies`, `Spec => ImplementsPipe`. `PInv` adds that
  the client has seen exactly the changes up to `popped`, and that what is on its
  way to the server has been held by the client.
- `OrderKept`: under `WholeReplies`, first copies stand in the order of the source.
  `QInv` says of every change the client is done with that it is in its queue or
  never will be (`Gone`: its push failed, and the restart that opens the connection to
  redis again drops every packet on its way), and that an older one of these
  stands before every newer one. Copies of an abandoned packet only ever repeat
  what stands in the queue.
- `RowsCorrect`: under `StimeIsCreation`, `RowsInTheirMonth` is inductive with the
  types, because insert and update of an order then select one table.
- `RowsGoForward`: under `WholeReplies`, no step takes a row back but by a repeated
  copy, or one of a change the client died holding. `ShowsInv` says where a row comes
  from (a copy, popped from the queue of its order), and `QInv` that older first
  copies stand before it.
- `RowsUpToDate`: under `WholeReplies` and `OrdersAreCreated`, `RowsFollowSource`.
  `LastInv` follows each order through the change applied last.

**The server's parts.**

- `PollerProofs` (any objects, any number of slots, any modulus): the
  inductive invariant `PollerInv` joins the types, `EverySlotOnce` (the free list
  and the owners partition the table), `NobodyIsDeaf` and `BatchInv`. The last is
  the one that the argument needs: an event of the batch, of an earlier life or
  owner, carries a number that lies behind the slot's number by no more than
  the changes since `epoll_wait`. While those are fewer than `SeqMod`
  the event cannot verify. From it follow `SlotsCorrect`,
  `RegistrationsCorrect`, `EventsCorrect`, `CallsCorrect` and `PollerTypeCorrect`.
- `ClientUnitProofs` (any streams of requests, reads, replies and buffers of
  any size): the inductive invariant `UnitInv` joins the types, `BytesInv`,
  `MaskInv` (the mask follows `w` except between the append of a reply and its
  first send) and `ReplyInv`. `BytesInv` strengthens `NoByteLost`: `_r`, the unread
  input and the next unit to be written form a `Chain`, in which any two units,
  not only neighbours, are as far `Apart` as their places in the stream say.
  With it, skipping a request by its size is shown to end at the first unit of
  the next (`NextRequest`) without induction over the units. From it follow
  `UnitTypeCorrect`, `BytesCorrect`, `OutputCorrect` and `SessionCorrect`.
- `ServerLoopProofs` (any descriptors, slots, accepts to a call, timeouts):
  `ServerInv` joins `TimerInv` and `AcceptInv`. Of the timers: no object is in two
  places (`ListsApart`); each list is in the order of its timers but for what the clock was
  set back (`OrderInv`), so that looking at the heads is enough; `epoll_wait`
  returns before a head is late by more than the clock was set forward (`HeadInv`); a
  unit's timer measures the time since its last event, by the clock, and by the `now`
  of the round unless the clock was set back by `WebTimeout` since (`IdleInv`).
  `TimerAssumption` says nothing about how far the clock is set. Of the accept loop: every entry of `_fd_array` that
  `proc_request` has yet to come to is an open descriptor without a unit
  (`EntryInv`), and the open descriptors without one are those and at most one for each
  interrupted accept (`LostInv`, by cardinalities). From it follow
  `ServerTypeCorrect`, `ListsCorrect`, `NoneUnserved`, `SlotsDoSuffice`,
  `NoTimerLate` and the action property `NoneEndedEarly`.
- `RawCachesProofs` (any block sizes, limits, caches): `CachesInv` joins `MemoryInv`
  (a cache has a block exactly while it holds data, which lie inside it; no block has
  two owners) and `PoolOK` (every block is in its free list once or used). `PoolOK`
  is a statement about a pool and the blocks in use, and each function of the pool is
  shown to keep it before the caches come in. From it follow `CachesTypeCorrect`,
  `NoBlockTwice` and the refinement `CachesAreQueues`. `PoolStaysBounded` adds that
  `_alloc_size` is the sum of what the pool has: what `release_size` gives back and
  `extend` takes is followed through sums over the sizes (`SumExists`, `SumOfSums`,
  `BytesAdd`).

**The octets** (`PacketExchangeProofs`; any orders that fit the client's buffer, any
event ids, any pieces, any octet damaged by any difference).

- About the operators: `SumIsTotal` (`Sum8`, which adds by halves, is the sum of the
  code's loop), `SumOfChanged` and `CodeMakesZero` (the check code makes up for one sum
  only), `Tables` (each table undoes the other, both ways), `Framing` and `BodyBack`
  (what one side frames the other reads), `Cut` (`HandleInput` on every beginning of a
  packet), `Received` (decryption changes the body and nothing else),
  `StringEnds` (the zero that `Reset` left behind the packet ends the string) and
  `SwappedBack`. Sums are about sequences of any length: `UpTo` and `LeastOf` stand in
  for induction.
- `ExchangeInv` joins the types and `ReplyConfirms` with what is under way. While a
  request is sent, cache and wire are the two parts of one packet (`Parted`): the one
  that was written, or one whose code does not fit. It stays so however it is cut,
  because `Cut` gives nothing before the last octet. From it follow
  `PacketTypeCorrect`, `FramesAreCutRight`, `RequestIsReadRight`, `ReplyConfirmsRight`
  and `DamageIsAlwaysNoticed`.
- `PacketAssumption` bounds an order by what the client's 16 KB hold, since its
  writes check nothing, takes orders without NUL, and puts `MaxPacket` between the
  header and `BufferSize`. At most one octet of a packet is damaged: two that differ
  by opposite amounts would make the same sum.

**Only model-checked**: the liveness properties and `RoundsGoOn` (fairness and ENABLED
are out of the prover's reach).

## 6. Findings

1. `stuck`: after an idle close, `check()` returns 0 and the client makes one
   `Reconnect` (order_sync_client.cc:82). If that fails and the source queue is
   empty, the loop returns to `epoll_wait` with nothing registered and never
   sends again.
2. `early`: `CTcpClient::Recv` returns what one `recv` gives, although its
   comment (TcpClient.h:25) promises `size` bytes; the rest of a reply is taken
   for the answer to the next packet, which is dropped.
3. `unqueued`: the server sends the reply whatever became of the push
   (client_unit.cpp:676, 725), and never opens a redis connection again.
4. `spurious`: when one event has EPOLLIN and EPOLLOUT, the request that
   `InputNotify` handles may send all pending replies; `OutputNotify`, which
   `ProcessPollerEvents` calls next (poller.cpp:324-327), then calls `send` with
   an empty cache. `send` takes that for an error (client_unit.cpp:209) and
   `web_output` closes a connection in good order (decode_unit.cpp:284-285). The
   client recovers by a reconnect; a client with more than one request on its way
   would lose the others.

Other flaws contradict no document, and the properties carry them as conditions. A
run that passes does not show that they are harmless:

| property | what it leaves out | where |
|---|---|---|
| `DescriptorsAreServed` | an interrupted accept leaves a hole in `_fd_array` that `_newfd_cnt` does not count, and the last descriptor of the call is neither served nor closed | listener.cpp:87, 136-139 |
| `RoundsGoOn` | EMFILE counts as a connection, and `InputNotify` goes round and serves nobody until the process ends; a process that is dead | listener.cpp:146-151; 116 |
| `SlotsSuffice` | the crash itself: it says that the NULL pointer is reached only where `MaxFdCount` allows fewer connections than the limit of descriptors | listener.cpp:111-116 |
| `TimersInTime`, `NeverEndedEarly` | what the clock was set: a busy connection is ended when the clock is set forward by `WebTimeout`, or back by it between `now` and `AttachTimer` | timerlist.cpp:21, 35; incoming.cpp:213-215 |
| `RowsFollowSource` | orders with a change that was lost, repeated out of turn or whose statement failed (`Clean`) | SyncFunc.cc:140 |
| `FirstCopiesInOrder`, `RowsGoBackOnlyByCopies` | a change the client died holding (`"lost"`); the second also lets a repeated copy take a row back | order_sync_client.cc:92, 161 |
| `ImplementsPipe` | `OrderPipe` lets a crash lose the change that is held | order_sync_client.cc:92 |
| `FramesAreCut` | shows that a packet above the limit is refused; the client sends it again for ever | client_unit.cpp:334 |

## 7. Not modelled, and the plan

Most of the repository's lines are code that no order change passes through, and
they are not modelled:

- **Vendored and unused code**, nearly half of all lines: the JSON reader and
  writer, MarkupSTL, and headers that nothing uses (`jcache_fieldid.h`,
  `data_platform_protocol.h`, the hash maps, the shared-memory map). Of the JSON
  reader only its verdict matters (`text` of an order change).
- **Helper and game units** (`helper_unit.cpp`, `game_unit.cpp`,
  `CHelper_pool.cpp`): left from the chat server this one was made from.
  `m_helpermap` stays empty, so none is ever created.
- **Logs.** The ring of log files is renamed when a file is full. File names carry
  the process number, so every ring has one writer, and nothing reads it.
- **Configuration.** Read once at start. The INI reader compares names over the
  length of the name in the file (`parse_file`), so a name that begins another
  would shadow it; the shipped files have no such pair.
- **Watchdog** (datagrams with counters), command line, daemon start.
- The text of the SQL statements (see OrderDbSync in section 2).
- In modelled parts: the list `pending` of the timers (nothing attaches to it), the
  packets' reads and writes of types outside the protocol, a block above the
  pool's largest size, a reply that `parse_packet` sees in pieces (its 16-bit
  length and its first `malloc` make that depend on memory outside the buffer), and
  failures of the heap and of `epoll_ctl`.

Left in the plan: nothing that the prover can reach. Every property of a passing run but
those that section 5 names as only model-checked is a theorem.
