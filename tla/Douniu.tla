------------------------------- MODULE Douniu -------------------------------
(***************************************************************************)
(* The game rooms of gamesrv: src/server/gamesrv/data/douniu/main.lua and  *)
(* msg.lua.                                                                *)
(*                                                                         *)
(* A room cycles through six states.  It is driven by the messages of the  *)
(* seated actors, by actors entering and leaving, and by Douniu.update,    *)
(* which the process calls once a second.  gamesrv runs one thread: a      *)
(* handler is one step.  update is one step per room, because an error in  *)
(* one room ends the whole call; no handler runs between those steps.      *)
(*                                                                         *)
(* Every handler is called through lua_pcall.  A Lua error ends it, keeps  *)
(* what it has already written, and is reported here as ok = FALSE.        *)
(*                                                                         *)
(* What is abstracted: a hand is a member of Hands (module Cards computes  *)
(* its fields from the five cards), message contents are left out, and     *)
(* the coin of an actor is never negative, so the last row of the ratio    *)
(* table is always the one that applies (enter handler of XIAZHU).         *)
(* room.master_player and room.win_player are read only by the handler     *)
(* that runs right after they are assigned; they are the player whose      *)
(* member is MASTER and the player with is_winner.                         *)
(***************************************************************************)
EXTENDS Integers, FiniteSets, FiniteSetsExt

CONSTANTS
  Actors,     \* the logged-in actors
  NRooms,     \* rooms are numbered in the order update() visits them
  RoomType,   \* the type of each room
  MaxActor,   \* room_type.max_actor: seats of a room
  Countdown,  \* DouniuConf.countdown: seconds a state lasts, 0 for no limit
  Hands,      \* the hands random_cards may deal
  Bids,       \* msg.is_master of MSG_QIANGZHUANG: 1 asks to be the master
  Ratios,     \* the ratios a player may bet
  MinRatio,   \* ratio_list[2], the one bet for a player who does not answer
  MinScore,   \* room.min_score
  Nil         \* Lua's nil

NULL        == 1
WAITING     == 2
QIANGZHUANG == 3
XIAZHU      == 4
XUANPAI     == 5
JIESUAN     == 6
States      == NULL..JIESUAN

OBSERVER == 1
PLAYER   == 2
MASTER   == 3

Rooms == 1..NRooms
Seats == 1..MaxActor
Types == {RoomType[r] : r \in Rooms}

\* What cal_best_card_paixing returns for an observer, who has no cards.
NoCardsPaival == 1300

\* The second result of cal_card_paixing or cal_best_card_paixing.
Paivals == Nat \cup {Nil}

\* actor.douniu_player and its fields; a room of room_mgr.
Player ==
  [room : Rooms, pos : Seats, member : {OBSERVER, PLAYER, MASTER},
   cards : Hands \cup {Nil}, recv_qiangzhuang : Bids \cup {Nil},
   ratio : Nat \cup {Nil}, ratio_list : {{}, Ratios},
   recv_xiazhu : BOOLEAN, recv_xuanpai : BOOLEAN, paival : Paivals,
   is_winner : BOOLEAN]

Room ==
  [state : States, countdown : (Nat \ {0}) \cup {Nil}, actor_count : Nat]

ASSUME RoomsAssumption ==
  /\ NRooms \in Nat \ {0}
  /\ MaxActor \in Nat \ {0}
  /\ Countdown \in [States -> Nat]
  /\ Countdown[NULL] = 0
  /\ \A s \in WAITING..JIESUAN : Countdown[s] > 0

ASSUME RatiosAssumption ==
  /\ Bids \subseteq Int
  /\ Ratios \subseteq Nat \ {0}
  /\ MinRatio \in Ratios
  /\ MinScore \in Nat

\* vals: the card_val of the five cards; max_val: cal_card_max_val; best: what
\* cal_best_card_paixing returns; picks: what cal_card_paixing returns for the
\* complete selections an actor may send, Nil for one that does not add up.
ASSUME HandsAssumption ==
  \A h \in Hands :
    /\ h.vals \subseteq 1..52
    /\ h.max_val \in h.vals
    /\ h.best \in Nat /\ h.best % 100 \in h.vals
    /\ h.picks \subseteq Paivals
    /\ \A v \in h.picks \ {Nil} : v % 100 \in h.vals

ASSUME NilAssumption == Nil \notin Int \cup Actors \cup Hands \cup Player

ASSUME ActorsAssumption == IsFiniteSet(Actors)

VARIABLES
  room,         \* state, countdown and actor_count of each room
  player_list,  \* who sits on each seat of each room
  player,       \* actor.douniu_player (with actor.room), Nil outside a room
  score,        \* player.score
  ok,           \* did the last handler return without a Lua error
  updating      \* the room update() is about to visit, 0 outside update()

vars == <<room, player_list, player, score, ok, updating>>

-----------------------------------------------------------------------------
(* The people of a room.  The code iterates over room.player_list; SeatsMatch
   is what makes it the set of actors whose player points to the room. *)

Seated(r, ps) == {a \in Actors : ps[a] # Nil /\ ps[a].room = r}

Playing(r, ps) == {a \in Seated(r, ps) : ps[a].member # OBSERVER}

Bettors(r, ps) == {a \in Playing(r, ps) : ps[a].member # MASTER}

NewPlayer(r, pos, member, ratio) ==
  [room |-> r, pos |-> pos, member |-> member, cards |-> Nil,
   recv_qiangzhuang |-> Nil, ratio |-> ratio, ratio_list |-> {},
   recv_xiazhu |-> FALSE, recv_xuanpai |-> FALSE, paival |-> Nil,
   is_winner |-> FALSE]

Bid(p, is_master) == [p EXCEPT !.recv_qiangzhuang = is_master]

Bet(p, ratio) == [p EXCEPT !.recv_xiazhu = TRUE, !.ratio = ratio]

Choice(p, paival) == [p EXCEPT !.recv_xuanpai = TRUE, !.paival = paival]

MakeMaster(ps, m) == [ps EXCEPT ![m] = [@ EXCEPT !.member = MASTER]]

\* The hands dealt in one round come from one deck: they share no card.
Deals(S) ==
  {d \in [S -> Hands] :
     \A a, b \in S : a # b => d[a].vals \cap d[b].vals = {}}

-----------------------------------------------------------------------------
(* goto_next_state: the exit handler of the old state, the new state and its
   countdown, the enter handler of the new state.  rm is the room and ps are
   the players as the caller has left them. *)

\* Mutant: the countdown is assigned even when the state has none.
EnteringAlwaysTimed(rm, s) ==
  [state |-> s, countdown |-> Countdown[s], actor_count |-> rm.actor_count]

\* Mutant: the countdown of the new state is not assigned.
EnteringUntimed(rm, s) ==
  [state |-> s, countdown |-> rm.countdown, actor_count |-> rm.actor_count]

Entering(rm, s) ==
  [state       |-> s,
   countdown   |-> IF Countdown[s] > 0 THEN Countdown[s] ELSE rm.countdown,
   actor_count |-> rm.actor_count]

Set(r, rm, ps) ==
  /\ room' = [room EXCEPT ![r] = rm]
  /\ player' = ps

\* The handler ends here with a Lua error.
Fails(r, rm, ps) ==
  /\ Set(r, rm, ps)
  /\ ok' = FALSE
  /\ UNCHANGED score

StartRound(r, rm, ps) ==
  /\ Set(r, Entering(rm, WAITING),
         [a \in Actors |->
            IF a \in Seated(r, ps)
            THEN NewPlayer(r, ps[a].pos, PLAYER, 1)
            ELSE ps[a]])
  /\ ok' = TRUE
  /\ UNCHANGED score

\* Mutant: observers get cards too.
DealCardsToAll(r, rm, ps) ==
  \E deal \in Deals(Seated(r, ps)) :
    /\ Set(r, Entering(rm, QIANGZHUANG),
           [a \in Actors |->
              IF a \in Seated(r, ps) THEN [ps[a] EXCEPT !.cards = deal[a]]
              ELSE ps[a]])
    /\ ok' = TRUE
    /\ UNCHANGED score

DealCards(r, rm, ps) ==
  \E deal \in Deals(Playing(r, ps)) :
    /\ Set(r, Entering(rm, QIANGZHUANG),
           [a \in Actors |->
              IF a \in Playing(r, ps) THEN [ps[a] EXCEPT !.cards = deal[a]]
              ELSE ps[a]])
    /\ ok' = TRUE
    /\ UNCHANGED score

\* random_quang: those who bid, or everybody who plays when nobody did.
Candidates(r, ps) ==
  LET bidders == {a \in Playing(r, ps) : ps[a].recv_qiangzhuang = 1}
  IN  IF bidders # {} THEN bidders ELSE Playing(r, ps)

AllDecided(r, ps) == \A a \in Seated(r, ps) : ps[a].recv_qiangzhuang # Nil

\* The second loop of the handler reads master_player.ratio_idx: without a
\* master it fails on the first player, after state and countdown are set.
EnterXiazhu(r, rm, ps) ==
  /\ Set(r, Entering(rm, XIAZHU),
         [a \in Actors |->
            IF a \in Playing(r, ps) THEN [ps[a] EXCEPT !.ratio_list = Ratios]
            ELSE ps[a]])
  /\ ok' = (Playing(r, ps) = {} \/ Bettors(r, ps) # Playing(r, ps))
  /\ UNCHANGED score

\* Mutant: a master is chosen although all have decided.
LeaveQiangzhuangAgain(r, rm, ps) ==
  \E m \in Candidates(r, ps) : EnterXiazhu(r, rm, MakeMaster(ps, m))

LeaveQiangzhuang(r, rm, ps) ==
  \/ /\ AllDecided(r, ps)
     /\ EnterXiazhu(r, rm, ps)
  \/ /\ ~AllDecided(r, ps)
     /\ \E m \in Candidates(r, ps) :
          EnterXiazhu(r, rm, MakeMaster(ps, m))
  \/ /\ ~AllDecided(r, ps)
     /\ Candidates(r, ps) = {}       \* math.random(1, 0)
     /\ Fails(r, rm, ps)

\* Mutant: the smallest ratio also replaces a bet.
CloseBettingForAll(r, rm, ps) ==
  /\ Set(r, Entering(rm, XUANPAI),
         [a \in Actors |->
            IF a \in Playing(r, ps) THEN Bet(ps[a], MinRatio) ELSE ps[a]])
  /\ ok' = TRUE
  /\ UNCHANGED score

\* Everybody who plays, the master too, gets the smallest ratio if he has not
\* bet.
CloseBetting(r, rm, ps) ==
  /\ Set(r, Entering(rm, XUANPAI),
         [a \in Actors |->
            IF a \in Playing(r, ps) /\ ~ps[a].recv_xiazhu
            THEN Bet(ps[a], MinRatio)
            ELSE ps[a]])
  /\ ok' = TRUE
  /\ UNCHANGED score

\* Mutant: who has not chosen shows nothing.
ShownNothing(r, ps) == ps

\* Exit handler of XUANPAI: who has not chosen shows his highest card.
Shown(r, ps) ==
  [a \in Actors |->
     IF a \in Playing(r, ps) /\ ~ps[a].recv_xuanpai
     THEN [ps[a] EXCEPT !.paival = ps[a].cards.max_val]
     ELSE ps[a]]

\* table.sort compares every element of a list of two or more; a list of one
\* is not compared, and an empty list has no winner.
CanRank(r, ps) ==
  LET P == Playing(r, ps)
  IN  /\ P # {}
      /\ (\E a, b \in P : a # b) => \A a \in P : ps[a].paival # Nil

\* Mutant: sorted by rising paival.
LosersFirst(r, ps) ==
  {a \in Playing(r, ps) :
     \A b \in Playing(r, ps) : a # b => ps[a].paival <= ps[b].paival}

\* The first of the players sorted by falling paival.
Winners(r, ps) ==
  {a \in Playing(r, ps) :
     \A b \in Playing(r, ps) : a # b => ps[a].paival >= ps[b].paival}

\* Mutant: the master stakes like the others.
StakesOfAll(r, ps) == MapThenSumSet(LAMBDA a : MinScore * ps[a].ratio, Playing(r, ps))

Stakes(r, ps) == MapThenSumSet(LAMBDA a : MinScore * ps[a].ratio, Bettors(r, ps))

Showdown(r, rm, ps) ==
  LET shown == Shown(r, ps)
  IN  \/ /\ CanRank(r, shown)
         /\ \E w \in Winners(r, shown) :
              /\ Set(r, Entering(rm, JIESUAN),
                     [shown EXCEPT ![w] = [@ EXCEPT !.is_winner = TRUE]])
              /\ score' = [a \in Actors |->
                   CASE a = w -> Stakes(r, ps)
                     [] a \in Bettors(r, ps) \ {w} -> -(MinScore * ps[a].ratio)
                     [] OTHER -> IF ps[a] = Nil THEN Nil ELSE score[a]]
         /\ ok' = TRUE
      \/ /\ ~CanRank(r, shown)
         /\ Set(r, rm, shown)
         /\ ok' = FALSE
         /\ score' = [a \in Actors |-> IF ps[a] = Nil THEN Nil ELSE score[a]]

-----------------------------------------------------------------------------
(* update(), once a second *)

\* goto_next_state.  From JIESUAN it is followed by the update handler of
\* NULL, which starts the next round in the same second.
Advance(r, rm, ps) ==
  \/ rm.state = NULL        /\ StartRound(r, rm, ps)
  \/ rm.state = WAITING     /\ DealCards(r, rm, ps)
  \/ rm.state = QIANGZHUANG /\ LeaveQiangzhuang(r, rm, ps)
  \/ rm.state = XIAZHU      /\ CloseBetting(r, rm, ps)
  \/ rm.state = XUANPAI     /\ Showdown(r, rm, ps)
  \/ /\ rm.state = JIESUAN
     /\ rm.actor_count >= 2
     /\ StartRound(r, Entering(rm, NULL), ps)
  \/ /\ rm.state = JIESUAN
     /\ rm.actor_count < 2
     /\ Set(r, Entering(rm, NULL), ps)
     /\ ok' = TRUE
     /\ UNCHANGED score

\* Mutant: the countdown is cleared by the handlers, not before them.
ExpireUncleared(r) ==
  /\ room[r].countdown # Nil
  /\ room[r].countdown <= 1
  /\ Advance(r, room[r], player)

\* room_update: the countdown, then the update handler; only NULL has one.
Expire(r) ==
  /\ room[r].countdown # Nil
  /\ room[r].countdown <= 1
  /\ Advance(r, [room[r] EXCEPT !.countdown = Nil], player)

CountDown(r) ==
  /\ room[r].countdown # Nil
  /\ room[r].countdown > 1
  /\ room[r].state # NULL
  /\ Set(r, [room[r] EXCEPT !.countdown = @ - 1], player)
  /\ ok' = TRUE
  /\ UNCHANGED score

\* Mutant: one actor is enough.
BeginAlone(r) ==
  /\ room[r].countdown = Nil
  /\ room[r].state = NULL
  /\ room[r].actor_count >= 1
  /\ StartRound(r, room[r], player)

Begin(r) ==
  /\ room[r].countdown = Nil
  /\ room[r].state = NULL
  /\ room[r].actor_count >= 2
  /\ StartRound(r, room[r], player)

\* Nothing to do: too few actors, or a room without a countdown.
Rest(r) ==
  /\ room[r].countdown = Nil
  /\ room[r].state = NULL => room[r].actor_count < 2
  /\ Set(r, room[r], player)
  /\ ok' = TRUE
  /\ UNCHANGED score

\* An error ends update(): the rooms after this one miss their second.
UpdateRoom(r) ==
  /\ r = (IF updating = 0 THEN 1 ELSE updating)
  /\ Expire(r) \/ CountDown(r) \/ Begin(r) \/ Rest(r)
  /\ updating' = (IF ok' /\ r < NRooms THEN r + 1 ELSE 0)
  /\ UNCHANGED player_list

-----------------------------------------------------------------------------
(* Messages and logout *)

\* Mutant: the seat is not checked.
AnySeat(r) == Seats

Free(r) == {i \in Seats : player_list[r][i] = Nil}

Open(type) ==
  {r \in Rooms : RoomType[r] = type /\ room[r].actor_count < MaxActor
                                    /\ Free(r) # {}}

\* MSG_ENTER, enter_room: the first room of the type that is not full and its
\* first free seat.  An actor already in a room changes nothing.
Enter(a, type) ==
  /\ updating = 0
  /\ player[a] = Nil
  /\ \E r \in Open(type) : \E i \in Free(r) :
       /\ \A s \in Open(type) : r <= s
       /\ \A j \in Free(r) : i <= j
       /\ player' = [player EXCEPT ![a] = NewPlayer(r, i, OBSERVER, Nil)]
       /\ player_list' = [player_list EXCEPT ![r][i] = a]
       /\ room' = [room EXCEPT ![r].actor_count = @ + 1]
  /\ ok' = TRUE
  /\ UNCHANGED <<score, updating>>

\* exit_room, from MSG_EXIT and from on_actor_exit when the session closes.
Exit(a) ==
  /\ updating = 0
  /\ player[a] # Nil
  /\ LET r    == player[a].room
         left == [room[r] EXCEPT !.actor_count = @ - 1]
         ps   == [player EXCEPT ![a] = Nil]
         void == [left EXCEPT !.countdown = Nil]
     IN  /\ player_list' = [player_list EXCEPT ![r][player[a].pos] = Nil]
         /\ \/ /\ left.actor_count = 1
               /\ left.state \in QIANGZHUANG..XUANPAI
               /\ Showdown(r, [void EXCEPT !.state = XUANPAI], ps)
            \/ /\ \/ left.actor_count = 0
                  \/ left.actor_count = 1 /\ left.state \notin QIANGZHUANG..XUANPAI
               /\ Set(r, Entering(void, NULL), ps)
               /\ ok' = TRUE
               /\ score' = [score EXCEPT ![a] = Nil]
            \/ /\ left.actor_count \notin {0, 1}
               /\ Set(r, left, ps)
               /\ ok' = TRUE
               /\ score' = [score EXCEPT ![a] = Nil]
  /\ UNCHANGED updating

\* What the handlers of an actor's choices check first: he is in a room, its
\* state is s.
Asked(a, s) ==
  /\ updating = 0
  /\ player[a] # Nil
  /\ room[player[a].room].state = s

\* The choice is recorded and the others are still to choose.
Wait(ps) ==
  /\ player' = ps
  /\ ok' = TRUE
  /\ UNCHANGED <<room, score>>

\* MSG_QIANGZHUANG.  Observers may send it, and it waits for them too.
Qiangzhuang(a, is_master) ==
  /\ Asked(a, QIANGZHUANG)
  /\ player[a].recv_qiangzhuang = Nil
  /\ LET r  == player[a].room
         ps == [player EXCEPT ![a] = Bid(@, is_master)]
     IN  \/ ~AllDecided(r, ps) /\ Wait(ps)
         \/ /\ AllDecided(r, ps)
            /\ \E m \in Candidates(r, ps) :
                 LeaveQiangzhuang(r, room[r], MakeMaster(ps, m))
         \/ /\ AllDecided(r, ps)
            /\ Candidates(r, ps) = {}
            /\ Fails(r, room[r], ps)
  /\ UNCHANGED <<player_list, updating>>

\* MSG_XIAZHU.  The master may bet; an observer has no ratio_list.
Xiazhu(a, ratio) ==
  /\ Asked(a, XIAZHU)
  /\ ~player[a].recv_xiazhu
  /\ ratio \in player[a].ratio_list
  /\ LET r  == player[a].room
         ps == [player EXCEPT ![a] = Bet(@, ratio)]
     IN  IF \A b \in Bettors(r, ps) : ps[b].recv_xiazhu
         THEN CloseBetting(r, room[r], ps)
         ELSE Wait(ps)
  /\ UNCHANGED <<player_list, updating>>

\* The length of a nil ratio_list: an error before any change.
XiazhuFails(a) ==
  /\ Asked(a, XIAZHU)
  /\ ~player[a].recv_xiazhu
  /\ player[a].ratio_list = {}
  /\ ok' = FALSE
  /\ UNCHANGED <<room, player, player_list, score, updating>>

\* What the three choices of XUANPAI share.
Choose(a, paival) ==
  LET r  == player[a].room
      ps == [player EXCEPT ![a] = Choice(@, paival)]
  IN  /\ IF \A b \in Playing(r, ps) : ps[b].recv_xuanpai
         THEN Showdown(r, room[r], ps)
         ELSE Wait(ps)
      /\ UNCHANGED <<player_list, updating>>

MayChoose(a) ==
  /\ Asked(a, XUANPAI)
  /\ ~player[a].recv_xuanpai

XuanpaiNone(a) ==
  /\ MayChoose(a)
  /\ Choose(a, IF player[a].cards = Nil THEN Nil ELSE player[a].cards.max_val)

XuanpaiTip(a) ==
  /\ MayChoose(a)
  /\ Choose(a, IF player[a].cards = Nil THEN NoCardsPaival
               ELSE player[a].cards.best)

Xuanpai(a) ==
  /\ MayChoose(a)
  /\ player[a].cards # Nil
  /\ \E v \in player[a].cards.picks : Choose(a, v)

\* MSG_XUANPAI with fewer than the five cards, or by an observer: the
\* arithmetic on a missing card fails after recv_xuanpai is set.
XuanpaiFails(a) ==
  /\ MayChoose(a)
  /\ Fails(player[a].room, room[player[a].room],
           [player EXCEPT ![a] = [@ EXCEPT !.recv_xuanpai = TRUE]])
  /\ UNCHANGED <<player_list, updating>>

-----------------------------------------------------------------------------
\* init_room_mgr, create_room
Init ==
  /\ room = [r \in Rooms |->
               [state |-> NULL, countdown |-> Nil, actor_count |-> 0]]
  /\ player_list = [r \in Rooms |-> [i \in Seats |-> Nil]]
  /\ player = [a \in Actors |-> Nil]
  /\ score = [a \in Actors |-> Nil]
  /\ ok = TRUE
  /\ updating = 0

Update == \E r \in Rooms : UpdateRoom(r)

Play(a) ==
  \/ \E is_master \in Bids : Qiangzhuang(a, is_master)
  \/ \E ratio \in Ratios : Xiazhu(a, ratio)
  \/ XiazhuFails(a)
  \/ XuanpaiNone(a)
  \/ XuanpaiTip(a)
  \/ Xuanpai(a)
  \/ XuanpaiFails(a)

Next ==
  \/ Update
  \/ \E a \in Actors, type \in Types : Enter(a, type)
  \/ \E a \in Actors : Exit(a)
  \/ \E a \in Actors : Play(a)

\* The one-second timer of gamesrv (main.cc time_proc) never stops.
Spec == Init /\ [][Next]_vars /\ WF_vars(Update)

-----------------------------------------------------------------------------
(* The same rooms when nobody leaves and nobody selects cards badly *)

PlayWell(a) ==
  \/ \E is_master \in Bids : Qiangzhuang(a, is_master)
  \/ \E ratio \in Ratios : Xiazhu(a, ratio)
  \/ XuanpaiNone(a)
  \/ XuanpaiTip(a)

CalmNext ==
  \/ Update
  \/ \E a \in Actors, type \in Types : Enter(a, type)
  \/ \E a \in Actors : PlayWell(a)

CalmSpec == Init /\ [][CalmNext]_vars /\ WF_vars(Update)

-----------------------------------------------------------------------------
(* Properties *)

\* Every variable has its type; a countdown that is set has not run out.
TypeOK ==
  /\ room \in [Rooms -> Room]
  /\ player_list \in [Rooms -> [Seats -> Actors \cup {Nil}]]
  /\ player \in [Actors -> Player \cup {Nil}]
  /\ DOMAIN score = Actors
  /\ ok \in BOOLEAN
  /\ updating \in 0..NRooms

\* The seats, the actors' pointers and actor_count tell the same story
\* (main.lua 262-265 and 306-310), also after a handler that failed.
SeatsMatch ==
  /\ \A a \in Actors :
       player[a] # Nil => player_list[player[a].room][player[a].pos] = a
  /\ \A r \in Rooms, i \in Seats :
       player_list[r][i] # Nil =>
         LET p == player[player_list[r][i]]
         IN  p # Nil /\ p.room = r /\ p.pos = i
  /\ \A r \in Rooms : room[r].actor_count = Cardinality(Seated(r, player))

LoneIn(r, rm, ps) ==
  /\ rm.actor_count = 0 => rm.state = NULL
  /\ rm.actor_count = 1 =>
       \/ rm.state \in {NULL, JIESUAN}
       \/ rm.state = XUANPAI /\ Playing(r, ps) = {}

\* A round needs two: an empty room is in NULL, and one actor alone is in NULL,
\* in JIESUAN, or an observer stuck in XUANPAI (exit_room, main.lua 269-283).
LoneActor == \A r \in Rooms : LoneIn(r, room[r], player)

\* A room that no countdown will move on (main.lua 333-341).
Stalled(r) == room[r].state # NULL /\ room[r].countdown = Nil

StallIn(r, rm, ps) ==
  /\ rm.state = NULL => rm.countdown = Nil
  /\ rm.countdown = Nil =>
       \/ rm.state = NULL
       \/ rm.state = QIANGZHUANG /\ Playing(r, ps) = {}
       \/ /\ rm.state = XUANPAI
          /\ \A a \in Playing(r, ps) :
               ps[a].recv_xuanpai \/ ps[a].paival = ps[a].cards.max_val

\* A room counts down outside NULL and only there.  It stalls in two states: in
\* QIANGZHUANG when all who played have left, and in XUANPAI after the exit
\* handler has run (main.lua 435-470) and could not rank the players.
StallOnlyAt == \A r \in Rooms : StallIn(r, room[r], player)

OneMasterIn(r, rm, ps) ==
  /\ \A a, b \in Seated(r, ps) :
       ps[a].member = MASTER /\ ps[b].member = MASTER => a = b
  /\ rm.state \in {WAITING, QIANGZHUANG} =>
       \A a \in Seated(r, ps) : ps[a].member # MASTER

\* A room has one master at most, none before the bids are in: the exit handler
\* of QIANGZHUANG must not choose again after MSG_QIANGZHUANG (main.lua 506-521).
OneMaster == \A r \in Rooms : OneMasterIn(r, room[r], player)

EquippedIn(r, rm, ps) ==
  /\ \A a \in Playing(r, ps) :
       /\ rm.state >= QIANGZHUANG => ps[a].cards # Nil
       /\ rm.state \in {XIAZHU, XUANPAI} => ps[a].ratio_list = Ratios
       /\ ps[a].ratio # Nil
  /\ \A a \in Seated(r, ps) \ Playing(r, ps) :
       /\ ps[a].cards = Nil
       /\ ps[a].ratio_list = {}
       /\ ~ps[a].is_winner

\* No handler reads a field the round has not set: who plays has cards from the
\* deal on and a ratio_list from the betting on; who came late has nothing.
Equipped == \A r \in Rooms : EquippedIn(r, room[r], player)

\* Whoever wins a round has strictly more than everybody else who plays: there
\* are no ties for table.sort to break (main.lua 464-469).
WinnerIsBest ==
  \A r \in Rooms :
    room[r].state = JIESUAN =>
      \A w, a \in Playing(r, player) :
        player[w].is_winner /\ a # w => player[w].paival > player[a].paival

\* A bet stands: once made it is neither changed nor made again until the next
\* round clears it (msg.lua 156-174, main.lua 567-569).
BetsKept ==
  [][\A a \in Actors :
       player[a] # Nil /\ player'[a] # Nil /\ player[a].recv_xiazhu =>
         \/ player'[a].recv_xiazhu /\ player'[a].ratio = player[a].ratio
         \/ room'[player[a].room].state = WAITING]_vars

Total(S, sc) == MapThenSumSet(LAMBDA a : sc[a], S)

\* The scores of a settlement (main.lua 472-482) balance: when the master wins
\* they add up to zero; when another player wins, the scores of all but the
\* master add up to the winner's own stake, which nobody paid.
ScoresBalance ==
  [][\A r \in Rooms :
       room[r].state # JIESUAN /\ room'[r].state = JIESUAN =>
         \A w \in Playing(r, player') :
           player'[w].is_winner =>
             Total(Bettors(r, player') \cup {w}, score') =
               IF player'[w].member = MASTER THEN 0
               ELSE MinScore * player'[w].ratio]_vars

\* Whatever the actors do, a state with a countdown ends or loses its countdown
\* for good reason (StallOnlyAt), whatever happens in the other rooms.
EveryStateEnds ==
  \A r \in Rooms : \A s \in WAITING..JIESUAN :
    room[r].state = s ~> (room[r].state # s \/ Stalled(r))

\* When nobody leaves or selects badly, every round that is dealt is settled,
\* although observers come in and also send their choices.
RoundsSettle ==
  \A r \in Rooms : room[r].state = QIANGZHUANG ~> room[r].state = JIESUAN

(* The rooms implement Table. *)

Tables == INSTANCE Table
  WITH state  <- [r \in Rooms |-> room[r].state],
       seated <- [r \in Rooms |-> Seated(r, player)]

\* Whoever enters, leaves, plays or fails, the rooms change states and people
\* only the way Table allows.
ImplementsTable == Tables!Spec

-----------------------------------------------------------------------------
(* What comments of the source say and the code does not do *)

\* main.lua 603: the end of the countdown leads to the next state.
CountdownAdvances ==
  [][\A r \in Rooms :
       room[r].countdown = 1 /\ Expire(r) => room'[r].state # room[r].state]_vars

\* main.lua 519: when the time is up a master is chosen at random.
TimeoutPicksMaster ==
  [][\A r \in Rooms :
       room[r].state = QIANGZHUANG /\ Expire(r) =>
         \E a \in Seated(r, player') : player'[a].member = MASTER]_vars

=============================================================================
