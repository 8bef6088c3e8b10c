# Verification of the douniu game servers

TLA+ models, TLC configurations and TLAPS proofs for the servers under
`src/server`: the game played in the rooms of `gamesrv`, the logins, the
websocket sessions of `gatesrv`, and the links and the event loop all of it runs
on.

## The system

Three processes, each with one thread and one event loop (`srvlib/net/ae.cc`):

    browser --websocket:8080--> gatesrv --tcp:8081--> gamesrv --tcp:8082--> dbsrv --> MySQL

A process alternates between socket events and a `time_proc` that runs once a
second (`gamesrv/main.cc:4-19`). Everything that is decided is decided in Lua:
a socket event or the timer calls a Lua handler through `lua_pcall`, and while
it runs nothing else does. So **a handler is one step** in every model. A Lua
error ends the handler where it stands; what it wrote before stays.

### Inventory

| component | state | operations | interacts with | what is hard | what makes it correct |
|---|---|---|---|---|---|
| Douniu rooms (`gamesrv/data/douniu`) | rooms: state, countdown, seats, actor_count; players: member, cards, bids, ratio, choice, score | `update`, `enter_room`, `exit_room`, six messages, three kinds of state handlers | actors (login), timer | leaving in the middle of a round, late comers, the countdown against the last answer, errors half way through a handler, one room's error against the other rooms | seats and counters agree; one master; no field is read before it is set; bets stand; scores balance; every state ends |
| Dealing and hands (`douniu/main.lua:65-248`) | the deck, the hands | `random_cards`, `cal_card_paixing`, `cal_best_card_paixing` | rooms | the drawn card is the last card; all ten pairs must be met | no card twice, none lost; the tip is the best the five cards make |
| Login of gamesrv (`login`, `actor`, `gatesrv` Lua) | `actor_mgr`, `actor_session`, `temp_session` | LOGIN, GET and SET replies, session closed | gatesrv link, dbsrv link, rooms | a session closes between request and reply; two sessions of one account; a late reply; a lost SET | one actor per account and per live session; an actor goes when its session does |
| Login of dbsrv | account and user rows | LOGIN, GET, SET | MySQL, gamesrv | a row that cannot be read | a reply for every request |
| Send buffers (`sendbuf.cc`) | a pool of blocks per size, a chain per socket | `alloc`, `flush`, `skip_read_ptr`, `free`, `create` | sockets | blocks return to the pool while head and tail still name them | a block has one owner; none is lost; what waits has its event |
| Receive buffers, framing (`recvbuf.cc`, the links) | a buffer of fixed size, a 16-bit length | recv, `_decode_packet`, `buf2line` | sockets | a partial packet; a packet larger than the buffer or than its length field | packets are delivered whole, once and in order, or the connection ends |
| Websocket sessions (`gatesrv/websocket`) | `session_array`, the receive buffer | accept, handshake, frame, close, drop | browsers, gameclient | drop without a close frame; descriptors and ids used again; frames that come together | an answer reaches the client it was made for as long as he is there; who waits for answers is served |
| Links (`gameclient.cc`, `dbclient.cc`, `gatesrv.cc`, `gamesrv.cc`) | `sockfd_`, `is_connect_` | connect, reconnect, send, receive, close | both ends | what is sent while the link is down; one side restarts | a queue of packets per connection; one socket, always watched |
| Event loop (`ae.cc`, `ae_epoll`) | masks, what epoll watches, the fired events | poll, dispatch, `aeCreateFileEvent`, `aeDeleteFileEvent` | everything | an event of a descriptor closed, or closed and opened again, by an earlier event of the same poll | handlers run for the connection whose event it was |
| Script host, protobuf binding | the Lua state | call, convert | all Lua | – | an error does not end the process |
| Database access (`sqlconn.cc`) | one MySQL connection | query, reconnect | dbsrv Lua | – | – |
| Log, daemon, JSON, digests, web front end | – | – | – | – | – |

How they interact: gatesrv turns a websocket frame into a packet with the
session id; gamesrv finds the actor of the session and calls the message's
handler; handlers answer by posting packets to sessions. A login takes two
round trips to dbsrv. When a session closes, `on_session_close` takes the actor
out of its room (`exit_room`), saves him with `Login.SET` and destroys him when
the reply arrives.

`PROJECT.json` lists the hazards of this code, each at its line, with the
properties that cover it.

## The modules

| module | models | |
|---|---|---|
| `Douniu` | `douniu/main.lua:35-63, 250-644`, `douniu/msg.lua` | the rooms: one action per handler |
| `Table` | – | what the rooms promise: who sits where, which state follows which |
| `Cards` | `douniu/main.lua:65-234` | the value of a hand, as operators on real cards |
| `Deal` | `douniu/main.lua:238-248, 402-409` | `random_cards`, one draw a step |
| `Login` | `login`, `actor` and `gatesrv` Lua of gamesrv, `login` Lua of dbsrv, the link between them | logins, actors, logouts |
| `Sendbuf` | `sendbuf.cc` | the send buffers of a process, as operators on their state |
| `Framing` | `send`/`post` and `_decode_packet` of the links | packets and how a receiver cuts the stream |
| `Link` | `gamesrv/gatesrv`, `gamesrv/dbclient` as senders, `gatesrv/gameclient`, `dbsrv/gamesrv` as receivers | bytes from the send buffer of one process to the dispatch in another |
| `PacketQueue` | – | what a link promises: a queue of packets per connection |
| `Ae` | `ae.cc`, `ae_epoll.cc` | masks, polls and whose turn it is |
| `Sessions` | `gatesrv/websocket`, `gatesrv/gameclient`, the Lua of gatesrv | sessions, descriptors, the link to gamesrv and restarts |
| `Frames` | `websocket.cc:5-12, 234-303, 394-425, 445-448`, `recvbuf.cc:43-46` | how the frames of one connection are taken from the stream |
| `DealtHands` | – | what the hands that `Deal` deals are worth to `Cards`: the two evaluations compared |
| `MCDouniu`, `MCDeal`, `MCLogin`, `MCLink`, `MCSessions` | – | small instances |
| `DouniuProofs`, `DealProofs`, `LoginProofs`, `SessionsProofs`, `FramesProofs`, `SendbufProofs`, `LinkProofs` | – | the theorems and their proofs |
| `Recursion` | – | induction, recursive functions and sums over sets, in a form the provers can use |

`MCDouniu` composes `Douniu` with `Cards`: its hands are five real cards that
`Cards` evaluates. `DealtHands` composes `Deal` with `Cards`. `Table` is the
abstract specification that `Douniu` implements (`ImplementsTable`). `Login` and
`Douniu` meet in two places: an actor enters and leaves a room (`Enter`, `Exit`
of both), and `on_session_close` calls `exit_room`. `Login` keeps of it what
`Douniu` shows: the seat is free afterwards, also when the call ends with an
error, which then ends `on_session_close` before the save.

`Link` composes `Sendbuf` and `Framing` and implements `PacketQueue`
(`ImplementsPacketQueue`); `Sessions` runs on `Ae` and takes from that result
that packets on its link come whole and in order as long as it holds. `Sessions`
and `Login` are two views of the same border: `Sessions` knows descriptors and
ids, and of gamesrv only whose actor an id has; `Login` knows what gamesrv does
with ids, and of gatesrv only that a session opens, closes or vanishes. `Frames`
looks into the step in which `Sessions` takes a frame.

### Douniu and the code

| model | code |
|---|---|
| `room[r].state`, `.countdown`, `.actor_count` | the fields of the rooms of `room_mgr`; `Nil` is Lua's nil |
| `player_list[r][i]` | `room.player_list`, keyed by seat |
| `player[a]` | `actor.douniu_player` together with `actor.room` (assigned and cleared together, `main.lua:306-309` and `262-265`) |
| `score[a]` | `player.score`, assigned at the settlement only |
| `ok` | FALSE when the last handler ended with a Lua error |
| `updating` | how far `Douniu.update` has come in its loop over the rooms |
| `Advance` | `goto_next_state`: exit handler, state and countdown, enter handler |
| `StartRound`, `DealCards`, `EnterXiazhu` | enter handlers of WAITING, QIANGZHUANG, XIAZHU |
| `LeaveQiangzhuang`, `CloseBetting`, `Showdown` | exit handlers of QIANGZHUANG, XIAZHU, and of XUANPAI with the enter handler of JIESUAN |
| `Expire`, `CountDown`, `Begin`, `Rest` | the paths through `room_update` |
| `UpdateRoom` | one turn of the loop of `update`; an error ends the loop |
| `Enter`, `Exit` | `enter_room`, `exit_room` |
| `Qiangzhuang`, `Xiazhu`, `XuanpaiNone`, `XuanpaiTip`, `Xuanpai` | the messages of `msg.lua` |
| `XiazhuFails`, `XuanpaiFails` | the same messages where they end with an error |

Rooms are numbered in the order `update` visits them, and `enter_room` visits
the rooms of a type in the same order. The names of states, members and fields
are the source's.

Errors are part of the model, because several are reachable: a sort over a
missing `paival`, a missing winner, a missing master, `math.random(1, 0)`, the
length of a missing `ratio_list`. Each leaves exactly the writes made before it.

What is abstracted. A hand is a record of what the handlers read of it: the
values of its cards, the highest, the value of the tip, and the values of the
selections an actor may send (`Nil` for one that does not add up). The code
never compares a card of one hand with a card of another in any other way.
Message contents and everything that is only sent are left out. An actor's
coin is never negative, so the last row of the ratio table applies.
`room.master_player` and `room.win_player` are read only by the handler that
runs right after they are assigned; the model finds them by `member` and
`is_winner`. The bound on the countdown is the constant `Countdown` itself; no
other bound is needed, the state space is finite.

### Login and the code

| model | code |
|---|---|
| `actors` | the tables `create_actor` makes, in their order; an actor is named by his number |
| `actor_mgr`, `actor_session`, `temp_session` | the Lua tables of the same name; of `temp_session[sid]` only whether ten seconds have passed |
| `session` | what gatesrv has passed on: `open`, `closed` (a close frame), `gone` (no word of it) |
| `requests`, `replies`, `is_connect` | what is in send buffers, on the wire and in receive buffers between gamesrv and dbsrv; `Dbclient.is_connect_` |
| `sent`, `answer` | what the client sent, and the errno of the last `LOGIN_R` since |
| `seated` | the actors with a `douniu_player` |
| `on_session_open`, `msg_login` | the handlers of that name; a session without an actor can only log in (`dispatch_msg`) |
| `on_session_close`, `_Nobody`, `_Fails` | `on_session_close` of an actor, without one, and with an error in `exit_room` |
| `Vanish` | the connection ends without a close frame, or gatesrv has no link when the frame comes |
| `DbLOGIN`, `DbGET`, `DbSET` | the handlers of dbsrv, from the request to the posted reply |
| `LOGIN`, `GET`, `SET` | the handlers of the replies in gamesrv, with `create_actor` and `destory_actor` |
| `TenSeconds` | `os.time() - temp_session[sid]` reaches 10 |
| `LinkDown`, `LinkUp` | `real_close` of `dbclient.cc`; `Dbclient.update` connects again |

What is abstracted. An actor's data: a GET is answered whether dbsrv finds the
rows or not, and an actor is made in either case. Messages on one connection
keep their order, and what is left in dbsrv after a break is handled before what
comes over the new connection. Buffers never run full. A client sends nothing
after its close frame, and session ids are not used again. gamesrv does not
restart; the link between gatesrv and gamesrv loses at most a close (`Vanish`).

### Sendbuf, Framing, Link and the code

| model | code |
|---|---|
| `sb` | `bbufs`, `block_table` and the blocks; a block is a name for its address |
| `Chain` | the blocks reached by `next`; the pool and the chains use the same field |
| `Recycled`, `Created`, `Freed`, `Skipped`, `Flushed` | `bbuf_free_block`, `create`, `free`, `skip_read_ptr`, `flush` |
| `Fits`, `CanAlloc`, `Extended` | `alloc`: room in the last block, a block from the pool, a block from malloc |
| `Packet` | what `send` and `post` write: the length as two bytes, then the body |
| `Decoded` | the loop over `_decode_packet` |
| `SendToGate`, `Post` | `Gatesrv::send`, which asks for `sockfd_` only, be it closed or the number of another socket by now, and `Dbclient::post`, which asks for `is_connect_` |
| `Writable`, `Readable`, `Lost` | `_ev_writable`, `_ev_readable` with data, `_ev_readable` at the end of the stream |
| `RealClose`, `Connect`, `Break` | `real_close`; `_ev_accept` or `_real_connect`; the other side or the network ends |

Bytes are digits below `Base`, so that a length wraps at `Base * Base` as the
real one does at 65536. A body is one digit repeated: enough to tell packets
apart and to see a stream cut at the wrong place. The ghosts `wide`, `left`,
`late` and `spoilt` record what the exceptions of the properties speak of.

### Ae, Sessions and the code

| model | code |
|---|---|
| `owner` | the kernel's table of descriptors; `accept` and `socket` return the lowest free one |
| `mask`, `polled`, `fired` | `eventLoop->events[fd].mask`, what `epoll_ctl` was told, `eventLoop->fired` |
| `Create`, `Delete` | `aeCreateFileEvent` and `aeDeleteFileEvent` with `epoll_ctl`, which refuses a closed descriptor |
| `Poll`, `ReadTurn`, `WriteTurn`, `Passed`, `TimerTurn` | `aeProcessEvents`: the batch, `fe->mask & mask & AE_READABLE` and its like, the timer behind the batch |
| `session`, `counter` | `session_array`, `sessionid_counter`; a sid is the pair of descriptor and counter |
| `Accept`, `WsReadable`, `WsWritable`, `WsEnd` | `_ev_accept`, `_ev_readable`, `_ev_writable`, `real_close` of `websocket.cc` |
| `session_find`, `PutFrames`, `Forward` | `session_find`, `send_frame`, and `dispatch` with the Lua handlers it calls |
| `Created`, `Freed`, `left` | `Sendbuf::create`, `Sendbuf::free`, and the descriptors whose buffer was freed with blocks in it and not made anew since |
| `ClientLeave` | the browser closes its end, its connection fails, or it sends what the receive buffer can not hold, for which gatesrv closes (`Frames`) |
| `ConnectFails`, `Connect`, `LinkReadable`, `LinkWritable`, `LinkEnd` | `_real_connect` and the events of `gameclient.cc` |
| `GameReceive`, `GameSpeak` | what gamesrv does to a sid: an actor, an answer, a message of its own |
| `LinkBreak`, `GateRestart` | the link fails, with or without a restart of gamesrv; gatesrv ends and starts again |

A handler is one step here too, so the batch of fired events is state: between
two handlers of one batch a descriptor may be closed, and opened again for
somebody else.

An answer may come for a session whose descriptor is closed. `_real_send` copies
it all the same, to where `block_tail` of that descriptor points, before it finds
that epoll refuses the event. Of the send buffers `Sessions` keeps what decides
where that is: a buffer that was empty when its socket closed takes a block of
its own, which the next `create` forgets; a buffer that was not (`left`: blocks
wait as long as the writable event is asked for, `PendingIsArmed`) writes into a
block that is in the pool or in the buffer of another descriptor (`stray`).

### Frames and the code

`sent` is what the client has sent, `taken` how many of it were dispatched,
`kernel` and `datalen` how many bytes of the rest are in the kernel and in the
receive buffer. `ReadFrame` is one `_ev_readable`: receive, `decode_one_frame`,
`combine_all_frame`, `buf2line`; `ReadEnd` is the one that ends in `real_close`.

## What the runs check

Every run explores all reachable states of its instance. No run needs a state
constraint.

| run | instance | checks | shows |
|---|---|---|---|
| `table` | 3 actors, 1 room of 3 seats, 1 s countdowns, 3 hands | `TypeOK` `SeatsMatch` `LoneActor` `StallOnlyAt` `OneMaster` `Equipped` `WinnerIsBest` `ScoresBalance` | the conjuncts of the inductive invariant, with actors that fail and leave at any point; the best hand wins and settlements balance, also after a departure |
| `rooms` | 3 actors, 2 rooms of 2 seats, 2 hands with two selections each | `ImplementsTable` `EveryStateEnds` | refinement, and progress although another room's error costs a second |
| `calm` | 3 actors who stay and never select badly, 2 s countdowns, ratios 1 and 3 | `BetsKept` `RoundsSettle` `ScoresBalance` | every dealt round is settled, a bet survives the timeout, unequal bets balance |
| `deal` | every hand of 5 of 9 real cards, in every order of drawing | `OneCopy` `NoneLost` `TipIsBest` `TipIsShown` | every card is in one place, the tip is worth at least what the five cards are in any order, and the cards shown prove it |
| `login_sessions` | 2 sessions of one account, 2 login messages each, 2 uids; an answer comes within ten seconds or never | `TypeOK` `SeatsFreed` `OneGet` `OnlyOwnClose` | with lost messages, retries, failures and vanished clients: a close frees the seat, nobody is logged out by somebody else's reply, and `temp_session` does what its comment says |
| `login_orderly` | 3 sessions, a link that holds, clients that wait for answers | `NoGhosts` `Forgotten` `LoginAnswered` | no actor without a session, closed sessions are forgotten, logins are answered |
| `link` | the links to gatesrv and to dbsrv over 3 shared blocks of 2 sizes, 3 packets of 3 lengths, one break | `OneOwner` `NoLeak` `SpoiltByLeftovers` `PendingIsArmed` `QuietIsDelivered` `ImplementsPacketQueue` | the links are queues of packets, through partial sends and receives and reconnections; blocks are neither shared nor lost; nothing waits for an event that does not come |
| `sessions` | 2 websocket connections and the link on 2 descriptors, 2 failures | `TypeOK` `RightClient` `OwnActor` `MasksAgree` `OwnEvents` `LinkIsOpen` | however descriptors are closed and used again, answers and frames reach whom they are for, and what is open is watched |
| `frames` | 4 frames, smaller than, equal to and larger than the buffer, or fragments | `LagBounded` `ClosedForCause` `PatientServed` | who waits for his turn is served; who does not falls behind by what he sent early |
| `stall` `no_master` `login_account` | small instances | one property each, violated | see Findings |

Why these bounds are enough. Three actors give a master, a winner who is not the
master and one more, a round that goes on after a departure and one that does
not, a late observer beside two players, and a tie if there could be one. Two
actors reach every departure that ends a round. A countdown of one second lets
the timer race every answer; two seconds add the states in which it is running
and has been running. Two rooms are what it takes for an error in one to cost
the other its second. No card is in two of the hands, as none is in a deal. In
`table` and `calm` (`MCThinHands`) one value is left of each of the three hands,
and in `table` the best hand can be selected badly: these runs ask who sits
where, which state follows and who of three different values wins. `rooms` deals
to two seats and has two hands, each with two selections of it. The nine cards
of `deal` are an ace, a two, an eight, a nine and five faces: hands of five
faces, and hands with no, one and several pairs that add up. Of the special
hands five small cards and four of a kind are not among them; `TipIsBestCorrect`
covers them.

For Login, two sessions of one account meet every order of two logins, a
duplicate that is seen and one that is not, and two logins per session meet a
retry, a second actor of one session and a reply that comes after a close. Two
uids let the draws of two logins be equal or differ. No queue is bounded: each
login message is followed by two requests at most and each close by one, so
`MaxLogins` bounds them. Where clients are orderly a third session is
affordable.

For Link, a byte has 3 values, so lengths wrap at 9: 3 and 7 fit, 9 is announced
as 0, 7 fits a block of 6 bytes not at all and the receive buffer of dbsrv (8)
but not that of gatesrv (6). Blocks of 6, 6 and 12 bytes are shared by both
sockets and can run out. The kernel holds 2 bytes, less than any packet, so that
each comes in pieces. Three packets fill a chain of two blocks and leave one to
be sent after a reconnection; one break is enough because a packet too large for
the receive buffer breaks connections as well. For Sessions, two descriptors
beside the listening socket are fewer than two clients and the link ask for: a
descriptor that is closed is the next one given out, to any of them, and `accept`
and `socket` may find none. One packet each way is enough for a late answer to
meet a descriptor used again, two failures for the link to break before or after
gatesrv starts again, and `SessionsProofs` shows the same for any numbers. In
Frames the buffer has 6 bytes and frames 2, 6 or 7: three small ones fill it, one
fills it exactly, one is too large.

What the login runs assume is as telling. `login_sessions` uses `PatientSpec`;
`SeatsFreed` and `OnlyOwnClose` are proved for `Spec`, which lets ten seconds
pass at any time. Without that premise `OneGet` fails: an answer after more than
ten seconds leaves one session with two actors, and the first keeps his seat
when the session closes. That is why `SeatsFreed` makes an exception for a
session with a newer actor, and why it makes no other. Without `OrderlySpec`'s
premises `NoGhosts` and `Forgotten` fail: a session that closes while its GET is
on the way, or whose SET is lost, leaves an actor in `actor_mgr` for good.

Symmetry over the sessions is used in `login_sessions`, over the connections in
`sessions`, over the actors in `table`: the properties and constants treat
them alike. It is not used where liveness is checked. In `table` and `calm` the
`VIEW` `NoOldScores` drops the scores of earlier rounds: no handler reads a
score, and a settlement replaces all that it announces, so states that differ in
an old score have the same successors up to old scores, and `ScoresBalance`
reads the new ones only.

Deadlock is checked in every run of Douniu and in `login_sessions`. It is not
checked where the instance comes to an end by design: all hands are dealt
(`deal`), the sessions have ended (`login_orderly`), the bounded packets are
delivered (`link`), the clients are gone and the failures spent (`sessions`), the
frames are taken (`frames`).

Fairness. `WF_vars(Update)` and nothing else: the process calls `update` from
`time_proc` once a second as long as it lives, whatever the handlers do. No
actor is ever assumed to answer. `EveryStateEnds` therefore rests on the timer
alone; it excepts rooms that are `Stalled`, and `StallOnlyAt` says in which
states a room can be that. `RoundsSettle` excepts nothing, and holds for the
actors of `CalmSpec` only: they come at any time, answer, observe and stay
silent, but they do not leave and select no cards that do not add up. The
`stall` run shows that `RoundsSettle` fails without that restriction.
`OrderlySpec` assumes `WF_vars(Db)` and `WF_vars(Game)`: the event loop of dbsrv
and that of gamesrv read what has arrived on a connection, in its order. It is
not assumed that a client logs in, answers or closes, nor that time passes.
`Frames` assumes `WF_vars(Readable)`: epoll is level-triggered here, so a socket
with bytes in the kernel is reported by every poll until they are read. That
some bytes stay in the receive buffer is reported by nobody, which is what
`LagBounded` is about. `Link` and `Sessions` state no liveness:
`QuietIsDelivered` says as an invariant what would go wrong, a link that is
quiet with something undelivered.

## What is proved

`DouniuProofs` proves for every set of actors that is finite, any number of
rooms, seats, any countdowns, hands, bids and ratios that meet the assumptions
of `Douniu`:

| theorem | property |
|---|---|
| `InvariantHolds` | `Spec => []IInv` |
| `TypeCorrect` | `TypeOK` |
| `SeatsCorrect` | `SeatsMatch` |
| `LoneActorCorrect` | `LoneActor` |
| `StallsCorrect` | `StallOnlyAt` |
| `OneMasterCorrect` | `OneMaster` |
| `EquippedCorrect` | `Equipped` |
| `BetsKeptCorrect` | `BetsKept`, an action property |
| `WinnerIsBestCorrect` | `WinnerIsBest` |
| `ScoresBalanceCorrect` | `ScoresBalance`, an action property |
| `TableImplemented` | `ImplementsTable`, the refinement of `Table` |

`DealProofs` proves, for every deck of different cards and any number and size
of hands it suffices for, `DealTypeCorrect` (`TypeOK`), `DealPartitions`
(`OneCopy`) and `DealLosesNothing` (`NoneLost`). For decks of the 52 cards and
hands of five (`CardsAssumption`, which these three do not use) it proves
`TipIsBestCorrect` (`TipIsBest`), `TipIsShownCorrect` (`TipIsShown`) and
`DealtHandsFit`: dealt hands share no value, and every paival the game can give
one ends in the value of one of its cards. This is what `HandsAssumption` and
`Deals` ask of the hands of `Douniu`, so `WinnerIsBest` is about real cards.

`LoginProofs` proves for any sessions, accounts, rows, uids and any number of
logins:

| theorem | property |
|---|---|
| `LoginInvariantHolds` | `Spec => []IInv` |
| `LoginTypeCorrect` | `TypeOK` |
| `SeatsFreedCorrect` | `SeatsFreed` |
| `OnlyOwnCloseCorrect` | `OnlyOwnClose` |
| `OneGetCorrect` | `OneGet`, of `PatientSpec` |
| `NoGhostsCorrect` | `NoGhosts`, of `OrderlySpec` |

`SessionsProofs` proves for any number of connections, descriptors, packets on
the link and failures:

| theorem | property |
|---|---|
| `SessionsTypeCorrect` | `TypeOK` |
| `AnswersReachTheirClient` | `RightClient` |
| `FramesReachTheirActor` | `OwnActor` |
| `LoopWatchesWhatIsOpen` | `MasksAgree` |
| `HandlersRunForTheirOwner` | `OwnEvents` |
| `LinkStaysOpen` | `LinkIsOpen` |

`FramesProofs` proves for any lengths of frames and any buffer:

| theorem | property |
|---|---|
| `FramesInvariantHolds` | `Spec => []IInv` |
| `ClosedForCauseCorrect` | `ClosedForCause` |
| `LagBoundedCorrect` | `LagBounded` |

`LinkProofs`, with the lemmas about the operators of `Sendbuf` in
`SendbufProofs`, proves for any number of sockets, blocks of any sizes, packets of
any lengths, any kernel and any receive buffers:

| theorem | property |
|---|---|
| `LinkInvariantHolds` | `Spec => []IInv`, who has which block |
| `OneOwnerCorrect` | `OneOwner` |
| `NoLeakCorrect` | `NoLeak` |
| `SpoiltByLeftoversCorrect` | `SpoiltByLeftovers` |
| `PendingIsArmedCorrect` | `PendingIsArmed` |
| `FlowInvariantHolds` | `Spec => []FInv`, where the bytes are |
| `QuietIsDeliveredCorrect` | `QuietIsDelivered` |
| `PacketQueueImplemented` | `ImplementsPacketQueue`, the refinement of `PacketQueue` |

`Recursion` proves induction as facts about sets (`SetInduction`,
`BoundedInduction`, `SubsetInduction`) and, from it, that a recursive definition
has a function that satisfies it (`RecursionExists`) and that sums over finite
sets can be taken apart and put together.

The argument for Frames. Bytes are counted: the end of the frames taken, what is
in the buffer and what is in the kernel make up what was sent (`Accounted`). A
full buffer holds the beginning of a frame that does not fit or of a fragment
(`FullForCause`), so the read that finds no room closes for cause. A frame that
was sent when no other waited is the next one to take or was taken
(`AloneIsNext`); so each frame that waits complete was sent behind another one.

The argument for Link. A chain is followed through `next` by a recursive
function, and the same field links the pools. So `IInv` does not speak of what
the recursion computes: it says that there is an assignment of lists of blocks
to the heads (the chains of the sockets and the pools) and a set of lost blocks
(`Holding`) such that each `next` is the successor in its list, the lists are
disjoint and together with the lost and the unborn blocks are all blocks. That
the recursion then returns the list is one lemma (`LayoutOfList`). A step is a
change of one or two lists, and `head` and `tail` of a closed socket may name a
block that is in none of its lists any more: the exception the whole invariant
has to carry, and what `left`, `late` and `spoilt` are there for. One lemma per
operation of `Sendbuf` says which lists it changes; for `Freed` and for the
bytes `Writable` sends it is applied once for each turn of their loops.

`FInv` adds the contents. While a connection lasts (`Way`), the packets sent and
not dispatched, laid end to end, are the bytes of the receive buffer, of the
kernel and of the blocks of the chain, in this order; and the first of them is
not complete in the receive buffer, since the loop over `_decode_packet` takes
all that are. Cutting such a stream gives these packets because a length that
has not wrapped gives the place of the next one. A connection that has sent a
packet too long for its length field (`wide`) is excepted, as in the properties,
and nothing is claimed of bytes once a foreign block was written to.
`QuietIsDelivered` follows: with empty kernel and no writable event nothing is
in the chain (`PendingIsArmed`), and what remains in the receive buffer would be
an incomplete packet with nothing to complete it. For `ImplementsPacketQueue` a
step of a socket, seen from the outside (`Outside`), appends a body to `sent`,
makes `got` a longer prefix of `sent`, opens or closes the connection, or
changes nothing.

The argument for Sessions. `IInv` has two halves. `LoopInv` is about the event
loop: a descriptor that is open is watched for what its mask says, a closed one
has no mask (`MasksAgree`), and an event that is still valid belongs to whoever
has the descriptor (`Batch`, `Owned`). The reason is an asymmetry that none of
the properties states by itself: within a batch only an accept opens a
descriptor, its mask starts with the readable event, and the listening socket
has one event a batch, so a fired event whose descriptor was closed is never
valid again for a new owner before the batch is over. A socket of the link that
is not connected is open and unwatched (`Unwatched`), the exception all this has
to carry. The other half is about ids: a session's id names its descriptor
(`Matched`), two connections of one run never have the same id (`Distinct`, from
the counter), and whatever is on the way was made for the connection that was
given its id, or for one of an earlier run (`Addressed`). `OwnActor` follows
from `Matched`, `Distinct` and `Addressed`. `RightClient` needs `Present`
besides: a client that was accepted and has not hung up (`ClientLeave`) still
has his descriptor, its session is the one he was given, and its buffer is not a
freed one. It holds because `WsEnd` and `WsWritable` close the socket of a
client that is gone only, because `Created` comes with every accept, and because
a restart leaves no client; so an id on the way that was given to him leads to
him. There is one lemma per action or group of actions, and one for each of
`Create`, `Delete`, `Opened` and `Close`.

The argument for Login. `SeatsFreed` speaks of closed sessions, and is
established by the step that closes one; that step frees the seat of
`actor_session[sid]` only. So the invariant must say which actor that is:
`NewestFiled`: until a session is closed its newest actor is filed under it.
Whoever keeps a seat is then older than the one who loses it. `NewestFiled`
survives a SET because SET is on the way for closed sessions only
(`GoodRequest`, `GoodReply`), whatever the link loses; the same fact gives
`OnlyOwnClose`. `IInv` is `TypeOK`, good queues, `NewestFiled` and
`SeatsFreed`; one lemma per handler shows that it is kept.

`OneGet` needs more than itself: a second GET is sent when `temp_session` has
been freed, so the invariant `Barred` of `OneGetCorrect` adds that a session that
is not barred has no GET on its way, neither in `requests` nor in `replies`.
`NoGhosts` rests on `Orderly`: over a link that holds, each session has one
message on the way at most, and the message fits the session. A LOGIN or a GET
is on the way for an open session that waits and has no actor, a SET for a
closed one whose actor is still filed; so a GET reply never finds its session
gone.

The argument for Douniu. `IInv` is `TypeOK`, `SeatsMatch` and, for every room,
`Sound`: the per-room forms of `LoneActor`, `StallOnlyAt`, `OneMaster` and
`Equipped`. None of these is inductive by itself: that exactly one round can
stall needs to know who plays, that the handler of XIAZHU finds a master needs
`Equipped` and `OneMaster`, and that a lone actor is never left in the middle
of a round needs `actor_count` to be the number of people in the room. The
proof follows the code's layers:

1. `Fit` is what a handler needs of the room it is called for (a room in the
   middle of `exit_room` is `Fit` and not `Sound`), `Sound` is what it leaves.
2. One lemma per transition (`StartRoundSound`, `DealCardsSound`,
   `LeaveQiangzhuangSound`, `CloseBettingSound`, `ShowdownSound`): from a `Fit`
   room it gives an `Outcome`: the room is `Sound`, and no actor has moved or
   changed elsewhere (`Moves`).
3. `OutcomeKeepsIInv`: an `Outcome` of one room preserves `IInv` of all.
4. One lemma per handler or group of handlers (`UpdateRoomKeepsIInv`,
   `PlayKeepsIInv` for the messages, `EnterKeepsIInv`, `ExitKeepsIInv`), then
   `NextKeepsIInv`.

For `BetsKept` the layers are used again: no handler but `StartRound` resets a
bet, and `StartRound` is reached from NULL, WAITING and JIESUAN only; a bet is
made at most once as `CloseBetting` bets for those who have not
(`recv_xiazhu`).

For `WinnerIsBest` the invariant is `Ranked`: the hands of a room are disjoint
(`Apart`), a paival ends in a card of the hand it is the value of (`OwnCard`:
`paival % 100` is the highest card), nobody has one before the deal, and nobody
is a winner while a round runs. Two players then never have the same paival,
and whoever is sorted first has more than each of the others. `Unranked` and
`UnrankedKeeps` deal with the handlers that touch neither hand nor value.

For `ScoresBalance` every step is a settlement of one room at most (`Settles`,
`SettledElsewhere`). In `Showdown` each bettor who is not the winner gets the
negative of his stake and the winner gets the sum of the stakes of all bettors;
the sum over bettors and winner is then taken apart at the winner
(`SettlementAdds`): his own stake remains if he was a bettor, and nothing if he
is the master, who never is. That sums over sets can be taken apart comes from
`Recursion`; that nobody was a winner before, and that everybody who plays has a
ratio, from `Ranked` and `IInv`.

For `TipIsBest` and `TipIsShown` a score is a sum over positions, which an
arrangement or a selection of five different positions only permutes
(`ScoreParts`, `ReorderedHand`, `ArrangedHand`, `WaysOrder`). If three cards
make a multiple of ten, the bull of the other two is the bull of all five: so
all pairs that add up are worth the same, whatever order is compared. What
remains is that `FirstBest` finds one of them (`FirstBestIsBest`), that the
arrangement shows its cards last, and that what the special hands are given is
more than any pair gives.

For `ImplementsTable` an `Outcome` of a room moves nobody, so it is a step of
`Table` as soon as the state of the room goes where `Table` lets it (`Goes`).
That a running round has two actors (`RoundNeedsTwo`, from `LoneActor`) is what
`Table` demands of `Begin` and `Proceed`, and that observers alone are never
ranked (`NobodyIsRanked`) is why XUANPAI does not go on without them.
`exit_room` is `Leave`, by how many are left.

Assumptions (named, evaluated by TLC on every run): a countdown for every state
but NULL, positive ratios, hands whose highest card is one of their cards, `Nil`
different from everything else, finitely many actors; a deck of different cards
that suffices for the hands, and for the tips cards of 1..52 in hands of five;
lengths of packets above the two bytes of the length field, buffers and blocks
that are not empty; at most 65536 sessions in one run of gatesrv. They are
what `douniuconf.lua`, `cal_*` and the types of `websocket.cc` provide; the last
is a limit of the model: at 65536 connections `sessionid_counter` wraps, and an
id can be given twice in one run.

Model-checked only: the liveness properties `EveryStateEnds`, `RoundsSettle`,
`Forgotten`, `LoginAnswered` and `PatientServed`. Fairness speaks of `ENABLED`,
which the provers do not handle. Every invariant and action property of the
passing runs, and both refinements, are theorems.

Two limits of the provers have left their mark on the models and the proofs. A
theorem with an operator as a parameter can not be used, so there is no
induction over a formula: each induction here is over the set of the numbers (or
sets) for which the formula holds. And a library operator that is built from
recursion can not be opened, so `InOrder` of `Cards`, the order in which cards
are shown, is defined by what it is and not by a sort.

## Findings

Three statements of the source that the code does not keep, each with a run:

- *A countdown leads to the next state* (`main.lua:603`). In XUANPAI the exit
  handler sorts the players by `paival`. A player whose selection did not add up
  has none, and an error ends the handler after the countdown was cleared; the
  same happens when only observers are left. The room stays in XUANPAI until
  enough of its actors leave. (`stall`)
- *When time is up a master is chosen* (`main.lua:519`). When the last one who
  had not decided leaves, everybody seated has decided; nobody chooses, and
  XIAZHU starts without a master. (`no_master`)
- *A duplicate login is refused* (`login.proto:22`). dbsrv draws a new uid at
  every login (`dbsrv/data/login/main.lua:47`), so two sessions of one account
  are two players. (`login_account`)

Five more that the models contain and no run states as a property:
`MSG_XUANPAI` takes the positions of its message as they come
(`msg.lua:315-318`), although `douniu.proto:166` asks for five cards: of an ace
and four faces, which are bull 1 in any order, one face taken five times is bull
10 (`Selections` of `MCDouniu` has a card twice; `TipIsBest` compares the tip
with the five different cards in every order); `MSG_XIAZHU` takes a bet of the
master, although `main.lua:540` says that he does not bet (`Xiazhu` does not ask for `member`; `ScoresBalance` shows that the bet counts
for nothing); the search for four of a kind (`FourBomb`) asks for five cards of
one number, which do not exist (`main.lua:150`, `douniu.proto:14`); a duplicate
uid is answered with errno 4 where `login.proto:22` lists 5 (`LOGIN`); and dbsrv
reads the rows of uid 1 whoever asks (`dbsrv/data/login/main.lua:6`).

Two more that the invariants state without calling them wrong: a room whose
players have all left in QIANGZHUANG stalls until its observers leave or a
message moves it (`StallOnlyAt`), and when a player other than the master wins,
his payment contains his own stake (`ScoresBalance`).

The exceptions in the properties of the links say what the code does not
promise:

- A connection that drops without a close frame is never reported to gamesrv,
  whose actor stays and is answered (`WsEnd` of `Sessions`, `Vanish` of
  `Login`). While the client was there the answers were his; now that he has
  hung up they may go elsewhere, and `RightClient` says where. `session_find`
  finds his session until the descriptor is accepted again. If the descriptor
  has become the link's, the frame is put on the link. If it is closed and its
  send buffer was empty, the frame goes nowhere. If it is closed and was closed
  with something left to send, the frame is written to where the stale
  `block_tail` points, which may be another client's buffer (`left`, `stray`).
- A send to gatesrv after its connection was closed writes into blocks that are
  in the pool or belong to another socket, if the connection was closed with
  something left to send (`spoilt`, `SpoiltByLeftovers`); if not, it takes a
  block that the next `create` forgets (`late` in `NoLeak`).
- A packet of 65536 bytes or more is cut at the wrong place (`wide`), and one
  larger than the receive buffer ends the connection each time it is sent.
- A restart of gatesrv starts its ids again, and gamesrv keeps the actors of the
  old ones: a new client may be taken for an old one (`Former` in `RightClient`
  and `OwnActor`).
- A message in several fragments is never dispatched and fills the buffer
  (`Plain` in `Frames`), and frames sent without waiting may lie in the buffer
  until more bytes come, never more of them than were sent so (`LagBounded`).

## What is not modelled, and why

The script host, protobuf binding, log, daemon, MySQL access, JSON and digests
convert or output data and hold no state of the protocol. `src/web` is a PHP
front end without concurrency. `3rd` is vendored and most of the lines of the
repository; `interface.cc` is generated by tolua++. The `select`, `kqueue` and
`evport` backends of the event loop are not used.

What the models of the links stop short of:

- What happens after a frame was put on the link or through a stale tail
  (`stray`), or bytes were written into a foreign block (`spoilt`): from there
  the other end reads garbage, and anything may follow. `Next` is disabled, so
  the other properties speak of the time before.
- A packet of `SendToGate` put on Dbclient's socket, when that has got the
  number `Gatesrv::sockfd_` still names, is one more packet to dbsrv in `Link`.
  That `Gatesrv`'s writable handler, and with it its `real_close`, replaces
  Dbclient's on that descriptor is left out; both handlers send the same blocks.
- `SIGPIPE`: no server ignores it (`Daemon::init`, `daemon.cc:39`, is commented
  out in `gatesrv/main.cc:20`), so a send to a peer that is gone may end the
  process. `GateRestart` is that end for gatesrv and may come at any time; that
  of gamesrv is in `Sessions` a break of the link without its actors
  (`LinkBreak`), and is left out in `Link` and `Login`.
- Packets of a run of gatesrv that has ended, or of a link that has broken,
  which gamesrv has in its kernel and has not read: `GateRestart` and
  `LinkBreak` lose them on the way. Read later they would be handled like those
  of an earlier run that were read in time, for an id that may be given again
  (`Former`).
- A length field of 0 or 1 occurs after a packet that was too long only; what is
  dispatched then is the value `Garbage`.
- The contents of a handshake, masking, and lengths of 64 bits. `Frames` takes a
  frame as its length and its last-fragment bit.
- A receive buffer that was enlarged by an earlier connection on its descriptor.
- The composition of `Sessions` with `Login` and `Douniu` in one state space.
  The border between them is narrow (a session opens, closes or vanishes; a
  packet has a sid), each side models the other by everything it may do there,
  and the product is out of reach of the model checker.

## State of the work

All modules listed above are written and checked, and every invariant, action
property and refinement the runs check is proved. Left:

1. `RightClient` when the counter of session ids wraps: ids would have to be
   forgotten when nothing names them any more, which is what the code does not
   do.
2. The composition of `Sessions` with `Login`, were the product to become small
   enough.
