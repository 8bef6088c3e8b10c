---------------------------- MODULE DouniuProofs ----------------------------
(***************************************************************************)
(* Proofs about the rooms of Douniu, for every number of actors, rooms and *)
(* seats, every countdown and every set of hands.                          *)
(***************************************************************************)
EXTENDS Douniu, Recursion, FiniteSetTheorems, TLAPS

PlayersOK(ps) == ps \in [Actors -> Player \cup {Nil}]

\* What a handler needs to find in the room it works on.
Fit(r, rm, ps) ==
  /\ rm \in Room
  /\ rm.actor_count = Cardinality(Seated(r, ps))
  /\ OneMasterIn(r, rm, ps)
  /\ EquippedIn(r, rm, ps)

\* What it leaves behind.
Sound(r, rm, ps) ==
  /\ Fit(r, rm, ps)
  /\ LoneIn(r, rm, ps)
  /\ StallIn(r, rm, ps)

\* The players of room r have been changed, nobody has moved.
Moves(r, ps, qs) ==
  /\ PlayersOK(qs)
  /\ \A a \in Actors :
       /\ ps[a] = Nil <=> qs[a] = Nil
       /\ ps[a] # Nil => qs[a].room = ps[a].room /\ qs[a].pos = ps[a].pos
       /\ ps[a] # Nil /\ ps[a].room # r => qs[a] = ps[a]

\* The outcome of every transition of room r.
Outcome(r, ps) ==
  /\ \E rm \in Room : room' = [room EXCEPT ![r] = rm] /\ Sound(r, rm, player')
  /\ Moves(r, ps, player')
  /\ ok' \in BOOLEAN
  /\ DOMAIN score' = Actors

-----------------------------------------------------------------------------

\* Nil is none of the values that are told apart from it.
LEMMA NilIsNoPlayer == Nil \notin Nat /\ Nil \notin Hands /\ Nil \notin Player /\ Nil \notin Actors
BY NilAssumption

\* The actors of a room are finitely many.
LEMMA SeatedFinite ==
  ASSUME NEW r, NEW ps
  PROVE  IsFiniteSet(Seated(r, ps))
BY FS_Subset, ActorsAssumption DEF Seated

\* Where nobody has moved every room has the same people.
LEMMA MovesKeepSeats ==
  ASSUME NEW r, NEW ps, NEW qs, Moves(r, ps, qs), NEW s
  PROVE  Seated(s, qs) = Seated(s, ps)
BY DEF Moves, Seated

\* goto_next_state sets a countdown for every state but NULL.
LEMMA EnteringRoom ==
  ASSUME NEW rm \in Room, NEW s \in States
  PROVE  /\ Entering(rm, s) \in Room
         /\ Entering(rm, s).state = s
         /\ Entering(rm, s).actor_count = rm.actor_count
         /\ s # NULL => Entering(rm, s).countdown # Nil
         /\ s = NULL => Entering(rm, s).countdown = rm.countdown
<1> USE DEF Room, Entering, States, NULL, WAITING, QIANGZHUANG, XIAZHU, XUANPAI, JIESUAN
<1>1. Countdown \in [States -> Nat] /\ Countdown[NULL] = 0
      /\ \A q \in WAITING..JIESUAN : Countdown[q] > 0
  BY RoomsAssumption
<1>2. CASE s = NULL
  BY <1>1, <1>2
<1>3. CASE s # NULL
  <2>1. Countdown[s] \in Nat /\ Countdown[s] > 0
    BY <1>1, <1>3
  <2>2. QED
    BY <2>1, <1>3, NilIsNoPlayer
<1>4. QED
  BY <1>2, <1>3

-----------------------------------------------------------------------------
(* The transitions of goto_next_state *)

\* Enter handler of WAITING: whoever is seated plays the new round.
LEMMA StartRoundSound ==
  ASSUME NEW r \in Rooms, NEW rm, NEW ps, PlayersOK(ps), Fit(r, rm, ps),
         rm.actor_count >= 2, DOMAIN score = Actors,
         StartRound(r, rm, ps)
  PROVE  Outcome(r, ps)
<1> DEFINE em == Entering(rm, WAITING)
<1>1. em \in Room /\ em.state = WAITING /\ em.actor_count = rm.actor_count /\ em.countdown # Nil
  BY EnteringRoom DEF Fit, States, NULL, WAITING, JIESUAN
<1>2. room' = [room EXCEPT ![r] = em] /\ ok' \in BOOLEAN /\ DOMAIN score' = Actors
  BY DEF StartRound, Set
<1>3. \A a \in Actors :
        player'[a] = IF a \in Seated(r, ps)
                     THEN NewPlayer(r, ps[a].pos, PLAYER, 1)
                     ELSE ps[a]
  BY DEF StartRound, Set
<1>4. Moves(r, ps, player')
  <2>1. ASSUME NEW a \in Actors, a \in Seated(r, ps)
        PROVE  player'[a] \in Player /\ player'[a].room = ps[a].room /\ player'[a].pos = ps[a].pos
    <3>1. ps[a] \in Player /\ ps[a].room = r /\ ps[a].pos \in Seats
      BY <2>1 DEF PlayersOK, Player, Seated
    <3>2. player'[a] = NewPlayer(r, ps[a].pos, PLAYER, 1)
      BY <2>1, <1>3
    <3>3. QED
      BY <3>1, <3>2 DEF NewPlayer, Player, Paivals, PLAYER, OBSERVER, MASTER
  <2>2. DOMAIN player' = Actors /\ player' = [a \in Actors |-> player'[a]]
    BY DEF StartRound, Set
  <2>3. QED
    BY <2>1, <2>2, <1>3, NilIsNoPlayer DEF Moves, PlayersOK, Seated
<1>5. Seated(r, player') = Seated(r, ps)
  BY <1>4, MovesKeepSeats
<1>6. \A a \in Seated(r, player') :
         player'[a].member = PLAYER /\ player'[a].ratio = 1
  <2> SUFFICES ASSUME NEW a \in Seated(r, ps)
               PROVE  player'[a].member = PLAYER /\ player'[a].ratio = 1
    BY <1>5
  <2>1. player'[a] = NewPlayer(r, ps[a].pos, PLAYER, 1)
    BY <1>3 DEF Seated
  <2>2. QED
    BY <2>1 DEF NewPlayer
<1>7. Playing(r, player') = Seated(r, player')
  BY <1>6 DEF Playing, PLAYER, OBSERVER
<1>8. Sound(r, em, player')
  <2>1. OneMasterIn(r, em, player')
    BY <1>6 DEF OneMasterIn, PLAYER, MASTER
  <2>2. EquippedIn(r, em, player')
    BY <1>1, <1>6, <1>7, NilIsNoPlayer DEF EquippedIn, WAITING, QIANGZHUANG, XIAZHU, XUANPAI
  <2>3. LoneIn(r, em, player') /\ StallIn(r, em, player')
    BY <1>1 DEF LoneIn, StallIn, Fit, Room, WAITING, NULL
  <2>4. QED
    BY <1>1, <1>5, <2>1, <2>2, <2>3 DEF Sound, Fit
<1>9. QED
  BY <1>1, <1>2, <1>4, <1>8 DEF Outcome

\* Players that keep their room and their seat have not moved.
LEMMA ChangeMoves ==
  ASSUME NEW r, NEW ps, PlayersOK(ps), NEW qs,
         qs = [a \in Actors |-> qs[a]],
         \A a \in Seated(r, ps) :
           qs[a] \in Player /\ qs[a].room = ps[a].room /\ qs[a].pos = ps[a].pos,
         \A a \in Actors \ Seated(r, ps) : qs[a] = ps[a]
  PROVE  Moves(r, ps, qs)
BY NilIsNoPlayer DEF Moves, PlayersOK, Seated

\* Who plays is not changed by a change that keeps members.
LEMMA KeepPlaying ==
  ASSUME NEW r, NEW ps, NEW qs, Moves(r, ps, qs),
         \A a \in Seated(r, ps) : qs[a].member = ps[a].member
  PROVE  Playing(r, qs) = Playing(r, ps) /\ Seated(r, qs) = Seated(r, ps)
<1>1. Seated(r, qs) = Seated(r, ps)
  BY MovesKeepSeats
<1>2. QED
  BY <1>1 DEF Playing

\* Enter handler of QIANGZHUANG: whoever plays has cards.
LEMMA DealCardsSound ==
  ASSUME NEW r \in Rooms, NEW rm, NEW ps, PlayersOK(ps), Fit(r, rm, ps),
         rm.state = WAITING, rm.actor_count >= 2, DOMAIN score = Actors,
         DealCards(r, rm, ps)
  PROVE  Outcome(r, ps)
<1> DEFINE em == Entering(rm, QIANGZHUANG)
<1>1. em \in Room /\ em.state = QIANGZHUANG /\ em.actor_count = rm.actor_count /\ em.countdown # Nil
  BY EnteringRoom DEF Fit, States, NULL, QIANGZHUANG, JIESUAN
<1>2. PICK deal \in Deals(Playing(r, ps)) :
        /\ room' = [room EXCEPT ![r] = em]
        /\ player' = [a \in Actors |->
              IF a \in Playing(r, ps) THEN [ps[a] EXCEPT !.cards = deal[a]] ELSE ps[a]]
        /\ ok' = TRUE
        /\ score' = score
  BY DEF DealCards, Set
<1>3. ASSUME NEW a \in Playing(r, ps)
      PROVE  /\ player'[a] \in Player
             /\ player'[a].room = ps[a].room /\ player'[a].pos = ps[a].pos
             /\ player'[a].member = ps[a].member /\ player'[a].ratio = ps[a].ratio
             /\ player'[a].cards # Nil
  <2>1. ps[a] \in Player /\ a \in Actors
    BY DEF PlayersOK, Playing, Seated
  <2>2. deal[a] \in Hands
    BY <1>2 DEF Deals
  <2>3. player'[a] = [ps[a] EXCEPT !.cards = deal[a]]
    BY <1>2, <2>1
  <2>4. QED
    BY <2>1, <2>2, <2>3, NilIsNoPlayer DEF Player
<1>4. \A a \in Actors \ Playing(r, ps) : player'[a] = ps[a]
  BY <1>2
<1>5. Moves(r, ps, player')
  <2>1. player' = [a \in Actors |-> player'[a]]
    BY <1>2
  <2>2. \A a \in Seated(r, ps) :
          player'[a] \in Player /\ player'[a].room = ps[a].room /\ player'[a].pos = ps[a].pos
    BY <1>3, <1>4 DEF PlayersOK, Seated
  <2>3. Playing(r, ps) \subseteq Seated(r, ps)
    BY DEF Playing
  <2>4. QED
    BY <2>1, <2>2, <2>3, <1>4, ChangeMoves
<1>6. /\ Playing(r, player') = Playing(r, ps)
      /\ Seated(r, player') = Seated(r, ps)
  <2>1. \A a \in Seated(r, ps) : player'[a].member = ps[a].member
    BY <1>3, <1>4 DEF Seated
  <2>2. QED
    BY <2>1, <1>5, KeepPlaying
<1>7. Sound(r, em, player')
  <2>1. OneMasterIn(r, em, player')
    BY <1>1, <1>3, <1>4, <1>6 DEF OneMasterIn, Fit, Seated
  <2>2. EquippedIn(r, em, player')
    <3>1. \A a \in Playing(r, player') : player'[a].cards # Nil /\ player'[a].ratio # Nil
      BY <1>3, <1>6 DEF Fit, EquippedIn
    <3>2. \A a \in Seated(r, player') \ Playing(r, player') : player'[a] = ps[a]
      BY <1>4, <1>6 DEF Seated
    <3>3. QED
      BY <3>1, <3>2, <1>1, <1>6 DEF Fit, EquippedIn, QIANGZHUANG, XIAZHU, XUANPAI
  <2>3. LoneIn(r, em, player') /\ StallIn(r, em, player')
    BY <1>1 DEF LoneIn, StallIn, Fit, Room, QIANGZHUANG, NULL
  <2>4. QED
    BY <1>1, <1>6, <2>1, <2>2, <2>3 DEF Sound, Fit
<1>8. QED
  BY <1>1, <1>2, <1>5, <1>7 DEF Outcome

\* Enter handler of XIAZHU: whoever plays has a ratio_list, and a missing master
\* is an error that leaves the room as it should be.
LEMMA EnterXiazhuSound ==
  ASSUME NEW r \in Rooms, NEW rm \in Room, NEW ps, PlayersOK(ps),
         rm.actor_count = Cardinality(Seated(r, ps)), rm.actor_count >= 2,
         \A a, b \in Seated(r, ps) :
           ps[a].member = MASTER /\ ps[b].member = MASTER => a = b,
         rm.state = QIANGZHUANG, EquippedIn(r, rm, ps), DOMAIN score = Actors,
         EnterXiazhu(r, rm, ps)
  PROVE  Outcome(r, ps)
<1> DEFINE em == Entering(rm, XIAZHU)
<1>1. em \in Room /\ em.state = XIAZHU /\ em.actor_count = rm.actor_count /\ em.countdown # Nil
  BY EnteringRoom DEF States, NULL, XIAZHU, JIESUAN
<1>2. /\ room' = [room EXCEPT ![r] = em]
      /\ player' = [a \in Actors |->
            IF a \in Playing(r, ps) THEN [ps[a] EXCEPT !.ratio_list = Ratios] ELSE ps[a]]
      /\ ok' \in BOOLEAN
      /\ score' = score
  BY DEF EnterXiazhu, Set
<1>3. ASSUME NEW a \in Playing(r, ps)
      PROVE  /\ player'[a] \in Player
             /\ player'[a].room = ps[a].room /\ player'[a].pos = ps[a].pos
             /\ player'[a].member = ps[a].member /\ player'[a].ratio = ps[a].ratio
             /\ player'[a].cards = ps[a].cards /\ player'[a].ratio_list = Ratios
  <2>1. ps[a] \in Player /\ a \in Actors
    BY DEF PlayersOK, Playing, Seated
  <2>2. player'[a] = [ps[a] EXCEPT !.ratio_list = Ratios]
    BY <1>2, <2>1
  <2>3. QED
    BY <2>1, <2>2 DEF Player
<1>4. \A a \in Actors \ Playing(r, ps) : player'[a] = ps[a]
  BY <1>2
<1>5. Moves(r, ps, player')
  <2>1. player' = [a \in Actors |-> player'[a]]
    BY <1>2
  <2>2. \A a \in Seated(r, ps) :
          player'[a] \in Player /\ player'[a].room = ps[a].room /\ player'[a].pos = ps[a].pos
    BY <1>3, <1>4 DEF PlayersOK, Seated
  <2>3. Playing(r, ps) \subseteq Seated(r, ps)
    BY DEF Playing
  <2>4. QED
    BY <2>1, <2>2, <2>3, <1>4, ChangeMoves
<1>6. /\ Playing(r, player') = Playing(r, ps)
      /\ Seated(r, player') = Seated(r, ps)
      /\ \A a \in Seated(r, ps) : player'[a].member = ps[a].member
  <2>1. \A a \in Seated(r, ps) : player'[a].member = ps[a].member
    BY <1>3, <1>4 DEF Seated
  <2>2. QED
    BY <2>1, <1>5, KeepPlaying
<1>7. Sound(r, em, player')
  <2>1. OneMasterIn(r, em, player')
    BY <1>1, <1>6 DEF OneMasterIn, WAITING, QIANGZHUANG, XIAZHU
  <2>2. EquippedIn(r, em, player')
    <3>1. \A a \in Playing(r, player') :
            /\ player'[a].cards # Nil
            /\ player'[a].ratio # Nil
            /\ player'[a].ratio_list = Ratios
      BY <1>3, <1>6 DEF EquippedIn, QIANGZHUANG
    <3>2. \A a \in Seated(r, player') \ Playing(r, player') : player'[a] = ps[a]
      BY <1>4, <1>6 DEF Seated
    <3>3. QED
      BY <3>1, <3>2, <1>6 DEF EquippedIn
  <2>3. LoneIn(r, em, player') /\ StallIn(r, em, player')
    BY <1>1 DEF LoneIn, StallIn, Room, XIAZHU, NULL
  <2>4. QED
    BY <1>1, <1>6, <2>1, <2>2, <2>3 DEF Sound, Fit
<1>8. QED
  BY <1>1, <1>2, <1>5, <1>7 DEF Outcome

\* random_quang chooses somebody who plays, and finds nobody only if nobody
\* plays.
LEMMA CandidatesPlay ==
  ASSUME NEW r, NEW ps
  PROVE  /\ Candidates(r, ps) \subseteq Playing(r, ps)
         /\ Candidates(r, ps) = {} => Playing(r, ps) = {}
BY DEF Candidates

\* A player who becomes the master has moved nowhere and is still equipped.
LEMMA MakeMasterFit ==
  ASSUME NEW r \in Rooms, NEW rm, NEW ps, PlayersOK(ps), Fit(r, rm, ps),
         rm.state = QIANGZHUANG, NEW m \in Playing(r, ps)
  PROVE  LET qs == MakeMaster(ps, m)
         IN  /\ Moves(r, ps, qs)
             /\ Seated(r, qs) = Seated(r, ps)
             /\ \A a, b \in Seated(r, qs) :
                  qs[a].member = MASTER /\ qs[b].member = MASTER => a = b
             /\ EquippedIn(r, rm, qs)
<1> DEFINE qs == MakeMaster(ps, m)
<1>1. ps[m] \in Player /\ m \in Actors /\ m \in Seated(r, ps)
  BY DEF PlayersOK, Playing, Seated
<1>2. qs[m] = [ps[m] EXCEPT !.member = MASTER] /\ qs = [a \in Actors |-> qs[a]]
  BY <1>1 DEF MakeMaster, PlayersOK
<1>3. \A a \in Actors \ {m} : qs[a] = ps[a]
  BY DEF MakeMaster, PlayersOK
<1>4. /\ qs[m] \in Player /\ qs[m].room = ps[m].room /\ qs[m].pos = ps[m].pos
      /\ qs[m].member = MASTER /\ qs[m].ratio = ps[m].ratio
      /\ qs[m].cards = ps[m].cards /\ qs[m].ratio_list = ps[m].ratio_list
  BY <1>1, <1>2 DEF Player
<1> HIDE DEF qs
<1>5. Moves(r, ps, qs)
  <2>1. \A a \in Seated(r, ps) :
          qs[a] \in Player /\ qs[a].room = ps[a].room /\ qs[a].pos = ps[a].pos
    BY <1>3, <1>4 DEF PlayersOK, Seated
  <2>2. QED
    BY <1>1, <1>2, <1>3, <2>1, ChangeMoves
<1>6. Seated(r, qs) = Seated(r, ps)
  BY <1>5, MovesKeepSeats
<1>7. Playing(r, qs) = Playing(r, ps)
  BY <1>3, <1>4, <1>6 DEF Playing, Seated, OBSERVER, MASTER
<1>8. \A a, b \in Seated(r, qs) :
        qs[a].member = MASTER /\ qs[b].member = MASTER => a = b
  BY <1>3, <1>6 DEF Fit, OneMasterIn, Seated
<1>9. EquippedIn(r, rm, qs)
  <2>1. \A a \in Playing(r, qs) :
          /\ qs[a].cards = ps[a].cards
          /\ qs[a].ratio = ps[a].ratio
          /\ qs[a].ratio_list = ps[a].ratio_list
    BY <1>3, <1>4 DEF Playing, Seated
  <2>2. \A a \in Seated(r, qs) \ Playing(r, qs) : qs[a] = ps[a]
    BY <1>3, <1>7 DEF Seated
  <2>3. QED
    BY <2>1, <2>2, <1>6, <1>7 DEF Fit, EquippedIn
<1>10. QED
  BY <1>5, <1>6, <1>8, <1>9 DEF qs

\* Two changes that move nobody move nobody.
LEMMA MovesTransitive ==
  ASSUME NEW r, NEW ps, NEW qs, NEW ts, Moves(r, ps, qs), Moves(r, qs, ts)
  PROVE  Moves(r, ps, ts)
BY DEF Moves

\* XIAZHU entered with the master random_quang has chosen.
LEMMA EnterXiazhuWithMaster ==
  ASSUME NEW r \in Rooms, NEW rm, NEW ps, PlayersOK(ps), Fit(r, rm, ps),
         rm.state = QIANGZHUANG, rm.actor_count >= 2, DOMAIN score = Actors,
         NEW m \in Candidates(r, ps), EnterXiazhu(r, rm, MakeMaster(ps, m))
  PROVE  Outcome(r, ps)
<1> DEFINE qs == MakeMaster(ps, m)
<1>1. m \in Playing(r, ps)
  BY CandidatesPlay
<1>2. /\ Moves(r, ps, qs)
      /\ Seated(r, qs) = Seated(r, ps)
      /\ \A a, b \in Seated(r, qs) :
           qs[a].member = MASTER /\ qs[b].member = MASTER => a = b
      /\ EquippedIn(r, rm, qs)
  BY <1>1, MakeMasterFit
<1>3. PlayersOK(qs) /\ EnterXiazhu(r, rm, qs)
  BY <1>2 DEF Moves
<1> HIDE DEF qs
<1>4. Outcome(r, qs)
  BY <1>2, <1>3, EnterXiazhuSound DEF Fit
<1>5. QED
  BY <1>2, <1>4, MovesTransitive DEF Outcome

\* random_quang fails only when nobody plays, and then QIANGZHUANG may stall.
LEMMA FailsWithoutPlayers ==
  ASSUME NEW r \in Rooms, NEW rm, NEW ps, PlayersOK(ps), Fit(r, rm, ps),
         rm.state = QIANGZHUANG, rm.actor_count >= 2, DOMAIN score = Actors,
         Candidates(r, ps) = {}, Fails(r, rm, ps)
  PROVE  Outcome(r, ps)
<1>1. Playing(r, ps) = {}
  BY CandidatesPlay
<1>2. player' = ps /\ room' = [room EXCEPT ![r] = rm] /\ ok' = FALSE /\ score' = score
  BY DEF Fails, Set
<1>3. Moves(r, ps, ps)
  BY DEF Moves
<1>4. Sound(r, rm, ps)
  BY <1>1 DEF Sound, Fit, LoneIn, StallIn, Room, QIANGZHUANG, NULL
<1>5. QED
  BY <1>2, <1>3, <1>4 DEF Outcome, Fit

\* Exit handler of QIANGZHUANG, with and without a master to choose.
LEMMA LeaveQiangzhuangSound ==
  ASSUME NEW r \in Rooms, NEW rm, NEW ps, PlayersOK(ps), Fit(r, rm, ps),
         rm.state = QIANGZHUANG, rm.actor_count >= 2, DOMAIN score = Actors,
         LeaveQiangzhuang(r, rm, ps)
  PROVE  Outcome(r, ps)
<1>1. CASE AllDecided(r, ps) /\ EnterXiazhu(r, rm, ps)
  BY <1>1, EnterXiazhuSound DEF Fit, OneMasterIn
<1>2. CASE \E m \in Candidates(r, ps) : EnterXiazhu(r, rm, MakeMaster(ps, m))
  BY <1>2, EnterXiazhuWithMaster
<1>3. CASE Candidates(r, ps) = {} /\ Fails(r, rm, ps)
  BY <1>3, FailsWithoutPlayers
<1>4. QED
  BY <1>1, <1>2, <1>3 DEF LeaveQiangzhuang

\* A bet keeps all of a player but his bet.
LEMMA BetPlayer ==
  ASSUME NEW p \in Player, NEW ratio \in Ratios
  PROVE  LET q == Bet(p, ratio)
         IN  /\ q \in Player
             /\ q.room = p.room /\ q.pos = p.pos /\ q.member = p.member
             /\ q.cards = p.cards /\ q.ratio_list = p.ratio_list
             /\ q.is_winner = p.is_winner /\ q.recv_xuanpai = p.recv_xuanpai
             /\ q.ratio = ratio /\ q.ratio # Nil /\ q.recv_xiazhu = TRUE
<1>1. ratio \in Nat /\ ratio # Nil
  BY RatiosAssumption, NilIsNoPlayer
<1>2. QED
  BY <1>1 DEF Bet, Player

\* Exit handler of XIAZHU: whoever has not bet bets the smallest ratio.
LEMMA CloseBettingSound ==
  ASSUME NEW r \in Rooms, NEW rm, NEW ps, PlayersOK(ps), Fit(r, rm, ps),
         rm.state = XIAZHU, rm.actor_count >= 2, DOMAIN score = Actors,
         CloseBetting(r, rm, ps)
  PROVE  Outcome(r, ps)
<1> DEFINE em == Entering(rm, XUANPAI)
<1>1. em \in Room /\ em.state = XUANPAI /\ em.actor_count = rm.actor_count /\ em.countdown # Nil
  BY EnteringRoom DEF Fit, States, NULL, XUANPAI, JIESUAN
<1>2. /\ room' = [room EXCEPT ![r] = em]
      /\ player' = [a \in Actors |->
            IF a \in Playing(r, ps) /\ ~ps[a].recv_xiazhu THEN Bet(ps[a], MinRatio)
            ELSE ps[a]]
      /\ ok' = TRUE
      /\ score' = score
  BY DEF CloseBetting, Set
<1>3. ASSUME NEW a \in Playing(r, ps)
      PROVE  /\ player'[a] \in Player
             /\ player'[a].room = ps[a].room /\ player'[a].pos = ps[a].pos
             /\ player'[a].member = ps[a].member /\ player'[a].ratio # Nil
             /\ player'[a].cards = ps[a].cards
             /\ player'[a].ratio_list = ps[a].ratio_list
  <2>1. ps[a] \in Player /\ a \in Actors /\ ps[a].ratio # Nil
    BY DEF PlayersOK, Playing, Seated, Fit, EquippedIn
  <2>2. MinRatio \in Ratios
    BY RatiosAssumption
  <2>3. player'[a] = Bet(ps[a], MinRatio) \/ player'[a] = ps[a]
    BY <1>2, <2>1
  <2>4. CASE player'[a] = Bet(ps[a], MinRatio)
    <3> DEFINE q == Bet(ps[a], MinRatio)
    <3>1. /\ q \in Player
          /\ q.room = ps[a].room /\ q.pos = ps[a].pos /\ q.member = ps[a].member
          /\ q.cards = ps[a].cards /\ q.ratio_list = ps[a].ratio_list
          /\ q.ratio # Nil
      BY <2>1, <2>2, BetPlayer
    <3> HIDE DEF q
    <3>2. player'[a] = q
      BY <2>4 DEF q
    <3>3. QED
      BY <3>1, <3>2
  <2>5. CASE player'[a] = ps[a]
    BY <2>1, <2>5
  <2>6. QED
    BY <2>3, <2>4, <2>5
<1>4. \A a \in Actors \ Playing(r, ps) : player'[a] = ps[a]
  BY <1>2
<1>5. Moves(r, ps, player')
  <2>1. player' = [a \in Actors |-> player'[a]]
    BY <1>2
  <2>2. \A a \in Seated(r, ps) :
          player'[a] \in Player /\ player'[a].room = ps[a].room /\ player'[a].pos = ps[a].pos
    BY <1>3, <1>4 DEF PlayersOK, Seated
  <2>3. Playing(r, ps) \subseteq Seated(r, ps)
    BY DEF Playing
  <2>4. QED
    BY <2>1, <2>2, <2>3, <1>4, ChangeMoves
<1>6. /\ Playing(r, player') = Playing(r, ps)
      /\ Seated(r, player') = Seated(r, ps)
      /\ \A a \in Seated(r, ps) : player'[a].member = ps[a].member
  <2>1. \A a \in Seated(r, ps) : player'[a].member = ps[a].member
    BY <1>3, <1>4 DEF Seated
  <2>2. QED
    BY <2>1, <1>5, KeepPlaying
<1>7. Sound(r, em, player')
  <2>1. OneMasterIn(r, em, player')
    BY <1>1, <1>6 DEF OneMasterIn, Fit, WAITING, QIANGZHUANG, XUANPAI
  <2>2. EquippedIn(r, em, player')
    <3>1. \A a \in Playing(r, player') :
            /\ player'[a].cards # Nil
            /\ player'[a].ratio # Nil
            /\ player'[a].ratio_list = Ratios
      BY <1>3, <1>6 DEF Fit, EquippedIn, QIANGZHUANG, XIAZHU
    <3>2. \A a \in Seated(r, player') \ Playing(r, player') : player'[a] = ps[a]
      BY <1>4, <1>6 DEF Seated
    <3>3. QED
      BY <3>1, <3>2, <1>6 DEF Fit, EquippedIn
  <2>3. LoneIn(r, em, player') /\ StallIn(r, em, player')
    BY <1>1 DEF LoneIn, StallIn, Fit, Room, XUANPAI, NULL
  <2>4. QED
    BY <1>1, <1>6, <2>1, <2>2, <2>3 DEF Sound, Fit
<1>8. QED
  BY <1>1, <1>2, <1>5, <1>7 DEF Outcome

-----------------------------------------------------------------------------
(* The showdown.  exit_room enters it from the states QIANGZHUANG and XIAZHU
   too, when one actor is left: then nobody is compared. *)

ShowdownFit(r, rm, ps) ==
  /\ rm \in Room
  /\ rm.state = XUANPAI
  /\ rm.actor_count = Cardinality(Seated(r, ps))
  /\ rm.actor_count >= 1
  /\ \A a, b \in Seated(r, ps) :
       ps[a].member = MASTER /\ ps[b].member = MASTER => a = b
  /\ \A a \in Playing(r, ps) :
       /\ ps[a].cards # Nil
       /\ ps[a].ratio # Nil
       /\ rm.actor_count >= 2 => ps[a].ratio_list = Ratios
  /\ \A a \in Seated(r, ps) \ Playing(r, ps) :
       ps[a].cards = Nil /\ ps[a].ratio_list = {} /\ ~ps[a].is_winner

\* Showing the hands changes nothing but the paival of those who had not chosen.
LEMMA ShownPlayers ==
  ASSUME NEW r \in Rooms, NEW rm, NEW ps, PlayersOK(ps), ShowdownFit(r, rm, ps)
  PROVE  LET qs == Shown(r, ps)
         IN  /\ qs = [a \in Actors |-> qs[a]]
             /\ \A a \in Actors \ Playing(r, ps) : qs[a] = ps[a]
             /\ \A a \in Playing(r, ps) :
                  /\ qs[a] \in Player
                  /\ qs[a].room = ps[a].room /\ qs[a].pos = ps[a].pos
                  /\ qs[a].member = ps[a].member /\ qs[a].ratio = ps[a].ratio
                  /\ qs[a].cards = ps[a].cards
                  /\ qs[a].ratio_list = ps[a].ratio_list
                  /\ qs[a].recv_xuanpai \/ qs[a].paival = qs[a].cards.max_val
<1> DEFINE qs == Shown(r, ps)
<1>1. ASSUME NEW a \in Playing(r, ps)
      PROVE  /\ qs[a] \in Player
             /\ qs[a].room = ps[a].room /\ qs[a].pos = ps[a].pos
             /\ qs[a].member = ps[a].member /\ qs[a].ratio = ps[a].ratio
             /\ qs[a].cards = ps[a].cards
             /\ qs[a].ratio_list = ps[a].ratio_list
             /\ qs[a].recv_xuanpai \/ qs[a].paival = qs[a].cards.max_val
  <2>1. ps[a] \in Player /\ a \in Actors /\ ps[a].cards \in Hands
    BY DEF PlayersOK, Playing, Seated, ShowdownFit, Player
  <2>2. ps[a].cards.max_val \in Nat
    BY <2>1, HandsAssumption
  <2>3. CASE ~ps[a].recv_xuanpai
    <3>1. qs[a] = [ps[a] EXCEPT !.paival = ps[a].cards.max_val]
      BY <2>1, <2>3 DEF Shown
    <3>2. QED
      BY <2>1, <2>2, <3>1 DEF Player, Paivals
  <2>4. CASE ps[a].recv_xuanpai
    <3>1. qs[a] = ps[a]
      BY <2>1, <2>4 DEF Shown
    <3>2. QED
      BY <2>1, <2>4, <3>1
  <2>5. QED
    BY <2>1, <2>3, <2>4 DEF Player
<1>2. qs = [a \in Actors |-> qs[a]] /\ \A a \in Actors \ Playing(r, ps) : qs[a] = ps[a]
  BY DEF Shown
<1>3. QED
  BY <1>1, <1>2

\* Showing the hands keeps what the showdown needs.
LEMMA ShownFit ==
  ASSUME NEW r \in Rooms, NEW rm, NEW ps, PlayersOK(ps), ShowdownFit(r, rm, ps)
  PROVE  LET qs == Shown(r, ps)
         IN  /\ Moves(r, ps, qs)
             /\ Playing(r, qs) = Playing(r, ps)
             /\ Seated(r, qs) = Seated(r, ps)
             /\ ShowdownFit(r, rm, qs)
<1> DEFINE qs == Shown(r, ps)
<1>1. /\ qs = [a \in Actors |-> qs[a]]
      /\ \A a \in Actors \ Playing(r, ps) : qs[a] = ps[a]
      /\ \A a \in Playing(r, ps) :
           /\ qs[a] \in Player
           /\ qs[a].room = ps[a].room /\ qs[a].pos = ps[a].pos
           /\ qs[a].member = ps[a].member /\ qs[a].ratio = ps[a].ratio
           /\ qs[a].cards = ps[a].cards
           /\ qs[a].ratio_list = ps[a].ratio_list
  BY ShownPlayers
<1> HIDE DEF qs
<1>2. Moves(r, ps, qs)
  <2>1. \A a \in Seated(r, ps) :
          qs[a] \in Player /\ qs[a].room = ps[a].room /\ qs[a].pos = ps[a].pos
    BY <1>1 DEF PlayersOK, Seated
  <2>2. Playing(r, ps) \subseteq Seated(r, ps)
    BY DEF Playing
  <2>3. QED
    BY <1>1, <2>1, <2>2, ChangeMoves
<1>3. \A a \in Seated(r, ps) : qs[a].member = ps[a].member
  BY <1>1 DEF Seated
<1>4. Playing(r, qs) = Playing(r, ps) /\ Seated(r, qs) = Seated(r, ps)
  BY <1>2, <1>3, KeepPlaying
<1>5. ShowdownFit(r, rm, qs)
  <2>1. \A a \in Seated(r, qs) \ Playing(r, qs) : qs[a] = ps[a]
    BY <1>1, <1>4 DEF Seated
  <2>2. QED
    BY <2>1, <1>1, <1>3, <1>4 DEF ShowdownFit
<1>6. QED
  BY <1>2, <1>4, <1>5 DEF qs

\* One actor alone is always ranked, if he plays.
LEMMA AloneIsRanked ==
  ASSUME NEW r, NEW ps, Cardinality(Seated(r, ps)) = 1, ~CanRank(r, ps)
  PROVE  Playing(r, ps) = {}
<1>1. PICK x : Seated(r, ps) = {x}
  BY SeatedFinite, FS_Singleton
<1>2. Playing(r, ps) \subseteq {x}
  BY <1>1 DEF Playing
<1>3. ~(\E a, b \in Playing(r, ps) : a # b)
  BY <1>2
<1>4. QED
  BY <1>3 DEF CanRank

\* So does marking the winner.
LEMMA WinnerFit ==
  ASSUME NEW r \in Rooms, NEW rm, NEW ps, PlayersOK(ps), ShowdownFit(r, rm, ps),
         NEW w \in Playing(r, ps)
  PROVE  LET qs == [ps EXCEPT ![w] = [@ EXCEPT !.is_winner = TRUE]]
         IN  Moves(r, ps, qs) /\ ShowdownFit(r, rm, qs)
<1> DEFINE qs == [ps EXCEPT ![w] = [@ EXCEPT !.is_winner = TRUE]]
<1>1. ps[w] \in Player /\ w \in Actors
  BY DEF PlayersOK, Playing, Seated
<1>2. qs[w] = [ps[w] EXCEPT !.is_winner = TRUE] /\ qs = [a \in Actors |-> qs[a]]
  BY <1>1 DEF PlayersOK
<1>3. \A a \in Actors \ {w} : qs[a] = ps[a]
  BY DEF PlayersOK
<1>4. /\ qs[w] \in Player /\ qs[w].room = ps[w].room /\ qs[w].pos = ps[w].pos
      /\ qs[w].member = ps[w].member /\ qs[w].ratio = ps[w].ratio
      /\ qs[w].cards = ps[w].cards /\ qs[w].ratio_list = ps[w].ratio_list
  BY <1>1, <1>2 DEF Player
<1> HIDE DEF qs
<1>5. Moves(r, ps, qs)
  <2>1. \A a \in Seated(r, ps) :
          qs[a] \in Player /\ qs[a].room = ps[a].room /\ qs[a].pos = ps[a].pos
    BY <1>3, <1>4 DEF PlayersOK, Seated
  <2>2. w \in Seated(r, ps)
    BY DEF Playing
  <2>3. QED
    BY <1>2, <1>3, <2>1, <2>2, ChangeMoves
<1>6. Playing(r, qs) = Playing(r, ps) /\ Seated(r, qs) = Seated(r, ps)
  <2>1. \A a \in Seated(r, ps) : qs[a].member = ps[a].member
    BY <1>3, <1>4 DEF Seated
  <2>2. QED
    BY <2>1, <1>5, KeepPlaying
<1>7. ShowdownFit(r, rm, qs)
  <2>1. \A a \in Playing(r, qs) :
          /\ qs[a].cards = ps[a].cards
          /\ qs[a].ratio = ps[a].ratio
          /\ qs[a].ratio_list = ps[a].ratio_list
    BY <1>3, <1>4 DEF Playing, Seated
  <2>2. \A a \in Seated(r, qs) \ Playing(r, qs) : qs[a] = ps[a]
    BY <1>3, <1>6 DEF Seated
  <2>3. \A a \in Seated(r, qs) : qs[a].member = ps[a].member
    BY <1>3, <1>4 DEF Seated
  <2>4. QED
    BY <2>1, <2>2, <2>3, <1>6 DEF ShowdownFit
<1>8. QED
  BY <1>5, <1>7 DEF qs

\* Exit handler of XUANPAI and enter handler of JIESUAN: the room is settled, or
\* nobody could be ranked and everybody has shown his hand.
LEMMA ShowdownSound ==
  ASSUME NEW r \in Rooms, NEW rm, NEW ps, PlayersOK(ps), ShowdownFit(r, rm, ps),
         Showdown(r, rm, ps)
  PROVE  Outcome(r, ps)
<1> DEFINE qs == Shown(r, ps)
<1>1. /\ Moves(r, ps, qs)
      /\ Playing(r, qs) = Playing(r, ps)
      /\ Seated(r, qs) = Seated(r, ps)
      /\ ShowdownFit(r, rm, qs)
  BY ShownFit
<1>2. PlayersOK(qs)
  BY <1>1 DEF Moves
<1>3. \A a \in Playing(r, qs) : qs[a].recv_xuanpai \/ qs[a].paival = qs[a].cards.max_val
  BY <1>1, ShownPlayers
<1>4. \/ /\ CanRank(r, qs)
         /\ \E w \in Winners(r, qs) :
              Set(r, Entering(rm, JIESUAN),
                  [qs EXCEPT ![w] = [@ EXCEPT !.is_winner = TRUE]])
         /\ ok' = TRUE
         /\ DOMAIN score' = Actors
      \/ /\ ~CanRank(r, qs)
         /\ Set(r, rm, qs)
         /\ ok' = FALSE
         /\ DOMAIN score' = Actors
  BY DEF Showdown
<1> HIDE DEF qs
<1>5. CASE /\ CanRank(r, qs)
           /\ \E w \in Winners(r, qs) :
                Set(r, Entering(rm, JIESUAN),
                    [qs EXCEPT ![w] = [@ EXCEPT !.is_winner = TRUE]])
           /\ ok' = TRUE
           /\ DOMAIN score' = Actors
  <2> DEFINE em == Entering(rm, JIESUAN)
  <2>1. PICK w \in Winners(r, qs) :
          Set(r, em, [qs EXCEPT ![w] = [@ EXCEPT !.is_winner = TRUE]])
    BY <1>5
  <2>2. w \in Playing(r, qs)
    BY DEF Winners
  <2>3. em \in Room /\ em.state = JIESUAN /\ em.actor_count = rm.actor_count /\ em.countdown # Nil
    BY EnteringRoom DEF ShowdownFit, States, NULL, JIESUAN
  <2> HIDE DEF em
  <2>4. Moves(r, qs, player') /\ ShowdownFit(r, rm, player')
    BY <1>1, <1>2, <2>1, <2>2, WinnerFit DEF Set
  <2>5. Sound(r, em, player')
    <3>1. Fit(r, em, player')
      BY <2>3, <2>4 DEF ShowdownFit, Fit, OneMasterIn, EquippedIn,
           WAITING, QIANGZHUANG, XIAZHU, XUANPAI, JIESUAN
    <3>2. LoneIn(r, em, player') /\ StallIn(r, em, player')
      BY <2>3, <2>4 DEF ShowdownFit, LoneIn, StallIn, Room, JIESUAN, NULL
    <3>3. QED
      BY <3>1, <3>2 DEF Sound
  <2>6. Moves(r, ps, player')
    BY <1>1, <2>4, MovesTransitive
  <2>7. QED
    BY <1>5, <2>1, <2>3, <2>5, <2>6 DEF Outcome, Set
<1>6. CASE /\ ~CanRank(r, qs)
           /\ Set(r, rm, qs)
           /\ ok' = FALSE
           /\ DOMAIN score' = Actors
  <2>1. rm \in Room /\ player' = qs
    BY <1>1, <1>6 DEF ShowdownFit, Set
  <2>2. rm.actor_count = 1 => Playing(r, qs) = {}
    BY <1>1, <1>6, AloneIsRanked DEF ShowdownFit
  <2>3. LoneIn(r, rm, qs)
    BY <2>2, <1>1 DEF ShowdownFit, LoneIn, Room
  <2>4. StallIn(r, rm, qs)
    BY <1>1, <1>3 DEF ShowdownFit, StallIn, XUANPAI, NULL
  <2>5. EquippedIn(r, rm, qs)
    <3>1. rm.actor_count = 1 \/ rm.actor_count >= 2
      BY <1>1, <2>1 DEF ShowdownFit, Room
    <3>2. QED
      BY <3>1, <1>1, <2>2 DEF ShowdownFit, EquippedIn
  <2>6. OneMasterIn(r, rm, qs)
    BY <1>1 DEF ShowdownFit, OneMasterIn, XUANPAI, WAITING, QIANGZHUANG
  <2>7. Sound(r, rm, qs)
    BY <1>1, <2>1, <2>3, <2>4, <2>5, <2>6 DEF Sound, Fit, ShowdownFit
  <2>8. QED
    BY <1>1, <1>6, <2>1, <2>7 DEF Outcome, Set
<1>7. QED
  BY <1>4, <1>5, <1>6

-----------------------------------------------------------------------------
(* The inductive invariant *)

IInv ==
  /\ TypeOK
  /\ SeatsMatch
  /\ \A r \in Rooms : Sound(r, room[r], player)

\* The people of a room see nothing of what happens in another.
LEMMA OtherRoom ==
  ASSUME NEW s, NEW rm, NEW ps, NEW qs,
         Seated(s, qs) = Seated(s, ps),
         \A a \in Seated(s, ps) : qs[a] = ps[a],
         Sound(s, rm, ps)
  PROVE  Sound(s, rm, qs)
<1>1. Playing(s, qs) = Playing(s, ps) /\ Playing(s, ps) \subseteq Seated(s, ps)
  BY DEF Playing
<1>2. \A a \in Playing(s, qs) : qs[a] = ps[a]
  BY <1>1
<1>3. OneMasterIn(s, rm, qs)
  BY DEF Sound, Fit, OneMasterIn
<1>4. EquippedIn(s, rm, qs)
  BY <1>1, <1>2 DEF Sound, Fit, EquippedIn
<1>5. LoneIn(s, rm, qs) /\ StallIn(s, rm, qs)
  BY <1>1, <1>2 DEF Sound, LoneIn, StallIn
<1>6. QED
  BY <1>3, <1>4, <1>5 DEF Sound, Fit

\* A room that has a sound outcome and leaves everybody in his seat keeps the
\* invariant.
LEMMA OutcomeKeepsIInv ==
  ASSUME IInv, NEW r \in Rooms, Outcome(r, player), UNCHANGED player_list,
         updating' \in 0..NRooms
  PROVE  IInv'
<1>1. PICK rm \in Room : room' = [room EXCEPT ![r] = rm] /\ Sound(r, rm, player')
  BY DEF Outcome
<1>2. Moves(r, player, player') /\ room \in [Rooms -> Room]
  BY DEF Outcome, IInv, TypeOK
<1>3. TypeOK'
  BY <1>1, <1>2 DEF Outcome, IInv, TypeOK, Moves, PlayersOK
<1>4. \A s \in Rooms : Seated(s, player') = Seated(s, player)
  BY <1>2, MovesKeepSeats
<1>5. ASSUME NEW s \in Rooms
      PROVE  Sound(s, room'[s], player')
  <2>1. CASE s = r
    BY <1>1, <1>2, <2>1
  <2>2. CASE s # r
    <3>1. room'[s] = room[s] /\ Sound(s, room[s], player)
      BY <1>1, <1>2, <2>2 DEF IInv
    <3>2. \A a \in Seated(s, player) : player'[a] = player[a]
      BY <1>2, <2>2 DEF Moves, Seated
    <3>3. QED
      BY <3>1, <3>2, <1>4, OtherRoom
  <2>3. QED
    BY <2>1, <2>2
<1>6. SeatsMatch'
  <2>1. \A a \in Actors : /\ player'[a] = Nil <=> player[a] = Nil
                          /\ player[a] # Nil => /\ player'[a].room = player[a].room
                                                /\ player'[a].pos = player[a].pos
    BY <1>2 DEF Moves
  <2>2. \A a \in Actors :
          player'[a] # Nil => player_list'[player'[a].room][player'[a].pos] = a
    BY <2>1 DEF IInv, SeatsMatch
  <2>3. \A s \in Rooms, i \in Seats :
          player_list'[s][i] # Nil =>
            LET p == player'[player_list'[s][i]]
            IN  p # Nil /\ p.room = s /\ p.pos = i
    BY <2>1 DEF IInv, SeatsMatch, TypeOK
  <2>4. \A s \in Rooms : room'[s].actor_count = Cardinality(Seated(s, player'))
    BY <1>5 DEF Sound, Fit
  <2>5. QED
    BY <2>2, <2>3, <2>4 DEF SeatsMatch
<1>7. QED
  BY <1>3, <1>5, <1>6 DEF IInv

\* The rooms of create_room are sound.
LEMMA InitIInv == Init => IInv
<1> SUFFICES ASSUME Init PROVE IInv
  OBVIOUS
<1>1. \A r \in Rooms : Seated(r, player) = {} /\ Playing(r, player) = {}
  BY DEF Init, Seated, Playing
<1>2. \A r \in Rooms : room[r] = [state |-> NULL, countdown |-> Nil, actor_count |-> 0]
  BY DEF Init
<1>3. TypeOK
  BY RoomsAssumption DEF Init, TypeOK, Room, States, NULL, JIESUAN
<1>4. Cardinality({}) = 0
  BY FS_EmptySet
<1>5. SeatsMatch
  BY <1>1, <1>2, <1>4 DEF SeatsMatch, Init
<1>6. ASSUME NEW r \in Rooms PROVE Sound(r, room[r], player)
  <2>1. room[r] \in Room
    BY <1>3 DEF TypeOK
  <2>2. Fit(r, room[r], player)
    BY <2>1, <1>1, <1>2, <1>4 DEF Fit, OneMasterIn, EquippedIn
  <2>3. LoneIn(r, room[r], player) /\ StallIn(r, room[r], player)
    BY <1>2 DEF LoneIn, StallIn
  <2>4. QED
    BY <2>2, <2>3 DEF Sound
<1>7. QED
  BY <1>3, <1>5, <1>6 DEF IInv

-----------------------------------------------------------------------------
(* update() *)

\* goto_next_state when a countdown has run out.
LEMMA AdvanceSound ==
  ASSUME NEW r \in Rooms, NEW rm \in Room, NEW ps, PlayersOK(ps),
         Fit(r, rm, ps), LoneIn(r, rm, ps), rm.countdown = Nil, rm.state # NULL,
         DOMAIN score = Actors, Advance(r, rm, ps)
  PROVE  Outcome(r, ps)
<1> USE DEF NULL, WAITING, QIANGZHUANG, XIAZHU, XUANPAI, JIESUAN
<1>0. rm.actor_count \in Nat /\ rm.actor_count # 0
  BY DEF Room, LoneIn
<1>1. CASE rm.state = WAITING /\ DealCards(r, rm, ps)
  BY <1>0, <1>1, DealCardsSound DEF LoneIn
<1>2. CASE rm.state = QIANGZHUANG /\ LeaveQiangzhuang(r, rm, ps)
  BY <1>0, <1>2, LeaveQiangzhuangSound DEF LoneIn
<1>3. CASE rm.state = XIAZHU /\ CloseBetting(r, rm, ps)
  BY <1>0, <1>3, CloseBettingSound DEF LoneIn
<1>4. CASE rm.state = XUANPAI /\ Showdown(r, rm, ps)
  <2>1. ShowdownFit(r, rm, ps)
    BY <1>0, <1>4 DEF Fit, ShowdownFit, OneMasterIn, EquippedIn
  <2>2. QED
    BY <2>1, <1>4, ShowdownSound
<1>5. CASE rm.state = JIESUAN /\ rm.actor_count >= 2 /\ StartRound(r, Entering(rm, NULL), ps)
  <2> DEFINE em == Entering(rm, NULL)
  <2>1. em \in Room /\ em.state = NULL /\ em.actor_count = rm.actor_count
    BY EnteringRoom DEF States
  <2> HIDE DEF em
  <2>2. Fit(r, em, ps)
    BY <2>1, <1>5 DEF Fit, OneMasterIn, EquippedIn
  <2>3. StartRound(r, em, ps)
    BY <1>5 DEF em
  <2>4. QED
    BY <2>1, <2>2, <2>3, <1>5, StartRoundSound
<1>6. CASE /\ rm.state = JIESUAN /\ rm.actor_count < 2
           /\ Set(r, Entering(rm, NULL), ps) /\ ok' = TRUE /\ UNCHANGED score
  <2> DEFINE em == Entering(rm, NULL)
  <2>1. /\ em \in Room /\ em.state = NULL /\ em.actor_count = rm.actor_count
        /\ em.countdown = Nil
    BY EnteringRoom DEF States
  <2>2. room' = [room EXCEPT ![r] = em] /\ player' = ps
    BY <1>6 DEF Set
  <2> HIDE DEF em
  <2>3. Sound(r, em, ps)
    BY <2>1, <1>0, <1>6 DEF Sound, Fit, OneMasterIn, EquippedIn, LoneIn, StallIn
  <2>4. Moves(r, ps, ps)
    BY DEF Moves
  <2>5. QED
    BY <2>1, <2>2, <2>3, <2>4, <1>6 DEF Outcome
<1>7. QED
  BY <1>1, <1>2, <1>3, <1>4, <1>5, <1>6 DEF Advance

\* A room that is only counted down, or not touched at all.
LEMMA SameRoomSound ==
  ASSUME IInv, NEW r \in Rooms, NEW rm \in Room,
         rm.state = room[r].state, rm.actor_count = room[r].actor_count,
         rm.countdown = Nil <=> room[r].countdown = Nil,
         Set(r, rm, player), ok' = TRUE, UNCHANGED score
  PROVE  Outcome(r, player)
<1>1. Sound(r, room[r], player) /\ PlayersOK(player) /\ DOMAIN score = Actors
  BY DEF IInv, TypeOK, PlayersOK
<1>2. Sound(r, rm, player)
  BY <1>1 DEF Sound, Fit, OneMasterIn, EquippedIn, LoneIn, StallIn
<1>3. Moves(r, player, player)
  BY <1>1 DEF Moves
<1>4. QED
  BY <1>1, <1>2, <1>3 DEF Outcome, Set

\* A second of a room.
LEMMA UpdateRoomOutcome ==
  ASSUME IInv, NEW r \in Rooms, UpdateRoom(r)
  PROVE  Outcome(r, player)
<1>1. /\ Sound(r, room[r], player) /\ PlayersOK(player) /\ DOMAIN score = Actors
      /\ room[r] \in Room /\ updating \in 0..NRooms /\ NRooms \in Nat
  BY RoomsAssumption DEF IInv, TypeOK, PlayersOK
<1>2. ASSUME Expire(r) PROVE Outcome(r, player)
  <2> DEFINE rm == [room[r] EXCEPT !.countdown = Nil]
  <2>1. /\ rm \in Room /\ rm.countdown = Nil /\ rm.state = room[r].state
        /\ rm.actor_count = room[r].actor_count
    BY <1>1 DEF Room
  <2>2. Advance(r, rm, player) /\ room[r].state # NULL
    BY <1>1, <1>2 DEF Expire, Sound, StallIn
  <2> HIDE DEF rm
  <2>3. Fit(r, rm, player) /\ LoneIn(r, rm, player)
    BY <2>1, <1>1 DEF Sound, Fit, OneMasterIn, EquippedIn, LoneIn
  <2>4. QED
    BY <1>1, <2>1, <2>2, <2>3, AdvanceSound
<1>3. ASSUME CountDown(r) PROVE Outcome(r, player)
  <2> DEFINE rm == [room[r] EXCEPT !.countdown = @ - 1]
  <2>1. /\ rm \in Room /\ rm.countdown # Nil /\ room[r].countdown # Nil
        /\ rm.state = room[r].state /\ rm.actor_count = room[r].actor_count
    BY <1>1, <1>3, NilIsNoPlayer DEF Room, CountDown
  <2>2. QED
    BY <1>3, <2>1, SameRoomSound DEF CountDown
<1>4. ASSUME Begin(r) PROVE Outcome(r, player)
  BY <1>1, <1>4, StartRoundSound DEF Begin, Sound
<1>5. ASSUME Rest(r) PROVE Outcome(r, player)
  BY <1>1, <1>5, SameRoomSound DEF Rest
<1>6. QED
  BY <1>2, <1>3, <1>4, <1>5 DEF UpdateRoom

\* Whatever it does, a second keeps the invariant.
LEMMA UpdateRoomKeepsIInv ==
  ASSUME IInv, NEW r \in Rooms, UpdateRoom(r)
  PROVE  IInv'
<1>1. updating' \in 0..NRooms
  BY RoomsAssumption DEF UpdateRoom, Rooms, IInv, TypeOK
<1>2. QED
  BY <1>1, UpdateRoomOutcome, OutcomeKeepsIInv DEF UpdateRoom

-----------------------------------------------------------------------------
(* The choices of a seated actor *)

\* What an actor's own choice may change of his player.
OwnChange(p, q) ==
  /\ q \in Player
  /\ q.room = p.room /\ q.pos = p.pos /\ q.member = p.member
  /\ q.cards = p.cards /\ q.ratio_list = p.ratio_list
  /\ q.is_winner = p.is_winner
  /\ q.ratio # Nil \/ q.ratio = p.ratio
  /\ \/ q.recv_xuanpai
     \/ q.paival = p.paival /\ q.recv_xuanpai = p.recv_xuanpai

\* An actor's own choice moves nobody and leaves his room sound.
LEMMA OwnChangeSound ==
  ASSUME IInv, NEW a \in Actors, player[a] # Nil, NEW q, OwnChange(player[a], q)
  PROVE  LET r  == player[a].room
             ps == [player EXCEPT ![a] = q]
         IN  /\ r \in Rooms
             /\ PlayersOK(ps)
             /\ Moves(r, player, ps)
             /\ Sound(r, room[r], ps)
             /\ ps[a] = q
             /\ \A b \in Actors \ {a} : ps[b] = player[b]
<1> DEFINE r == player[a].room
           ps == [player EXCEPT ![a] = q]
<1>1. player[a] \in Player /\ r \in Rooms /\ PlayersOK(player)
  BY DEF IInv, TypeOK, Player, PlayersOK
<1>2. ps[a] = q /\ ps = [b \in Actors |-> ps[b]] /\ \A b \in Actors \ {a} : ps[b] = player[b]
  BY <1>1 DEF PlayersOK
<1>3. a \in Seated(r, player) /\ Sound(r, room[r], player)
  BY <1>1 DEF Seated, IInv
<1> HIDE DEF ps, r
<1>4. Moves(r, player, ps)
  <2>1. \A b \in Seated(r, player) :
          ps[b] \in Player /\ ps[b].room = player[b].room /\ ps[b].pos = player[b].pos
    BY <1>1, <1>2 DEF PlayersOK, Seated, OwnChange
  <2>2. QED
    BY <1>1, <1>2, <1>3, <2>1, ChangeMoves
<1>5. \A b \in Seated(r, player) : ps[b].member = player[b].member
  BY <1>2 DEF Seated, OwnChange
<1>6. Playing(r, ps) = Playing(r, player) /\ Seated(r, ps) = Seated(r, player)
  BY <1>4, <1>5, KeepPlaying
<1>7. \A b \in Seated(r, player) :
        /\ ps[b].cards = player[b].cards
        /\ ps[b].ratio_list = player[b].ratio_list
        /\ ps[b].is_winner = player[b].is_winner
        /\ ps[b].ratio # Nil \/ ps[b].ratio = player[b].ratio
        /\ ps[b].recv_xuanpai \/ /\ ps[b].paival = player[b].paival
                                 /\ ps[b].recv_xuanpai = player[b].recv_xuanpai
  BY <1>2 DEF Seated, OwnChange
<1>8. Playing(r, player) \subseteq Seated(r, player)
  BY DEF Playing
<1>9. Sound(r, room[r], ps)
  <2>1. OneMasterIn(r, room[r], ps)
    BY <1>3, <1>5, <1>6 DEF Sound, Fit, OneMasterIn
  <2>2. EquippedIn(r, room[r], ps)
    BY <1>3, <1>6, <1>7, <1>8 DEF Sound, Fit, EquippedIn
  <2>3. LoneIn(r, room[r], ps)
    BY <1>3, <1>6 DEF Sound, LoneIn
  <2>4. StallIn(r, room[r], ps)
    BY <1>3, <1>6, <1>7, <1>8 DEF Sound, StallIn
  <2>5. QED
    BY <1>3, <1>6, <2>1, <2>2, <2>3, <2>4 DEF Sound, Fit
<1>10. PlayersOK(ps)
  BY <1>4 DEF Moves
<1>11. QED
  BY <1>1, <1>2, <1>4, <1>9, <1>10 DEF ps, r

\* The choice is recorded and nothing follows, or the handler fails after it.
LEMMA RecordedOutcome ==
  ASSUME IInv, NEW r \in Rooms, NEW ps, Moves(r, player, ps), Sound(r, room[r], ps),
         player' = ps, room' = room, ok' \in BOOLEAN, score' = score
  PROVE  Outcome(r, player)
<1>1. room \in [Rooms -> Room] /\ room' = [room EXCEPT ![r] = room[r]]
  BY DEF IInv, TypeOK
<1>2. QED
  BY <1>1 DEF Outcome, IInv, TypeOK

\* The choice is recorded and a transition of the room follows.
LEMMA FollowedOutcome ==
  ASSUME NEW r \in Rooms, NEW ps, Moves(r, player, ps), Outcome(r, ps)
  PROVE  Outcome(r, player)
BY MovesTransitive DEF Outcome

\* MSG_XIAZHU.
LEMMA XiazhuOutcome ==
  ASSUME IInv, NEW a \in Actors, NEW ratio \in Ratios, Xiazhu(a, ratio)
  PROVE  Outcome(player[a].room, player)
<1> DEFINE r  == player[a].room
           q  == Bet(player[a], ratio)
           ps == [player EXCEPT ![a] = q]
<1>1. player[a] # Nil /\ player[a] \in Player /\ room[r].state = XIAZHU
  BY DEF Xiazhu, Asked, IInv, TypeOK
<1>2. OwnChange(player[a], q)
  <2>1. /\ q \in Player
        /\ q.room = player[a].room /\ q.pos = player[a].pos
        /\ q.member = player[a].member
        /\ q.cards = player[a].cards /\ q.ratio_list = player[a].ratio_list
        /\ q.is_winner = player[a].is_winner
        /\ q.recv_xuanpai = player[a].recv_xuanpai
        /\ q.ratio # Nil
    BY <1>1, BetPlayer
  <2>2. q.paival = player[a].paival
    BY <1>1 DEF Bet, Player
  <2>3. QED
    BY <2>1, <2>2 DEF OwnChange
<1>3. r \in Rooms /\ PlayersOK(ps) /\ Moves(r, player, ps) /\ Sound(r, room[r], ps)
  BY <1>1, <1>2, OwnChangeSound
<1>4. \/ Wait(ps)
      \/ CloseBetting(r, room[r], ps)
  BY DEF Xiazhu
<1> HIDE DEF ps, r
<1>5. CASE Wait(ps)
  BY <1>3, <1>5, RecordedOutcome DEF Wait, r
<1>6. CASE CloseBetting(r, room[r], ps)
  <2>1. room[r].actor_count >= 2
    BY <1>1, <1>3 DEF Sound, Fit, LoneIn, Room, NULL, XIAZHU, XUANPAI, JIESUAN, r
  <2>2. room[r].state = XIAZHU
    BY <1>1 DEF r
  <2>3. Outcome(r, ps)
    BY <1>3, <1>6, <2>1, <2>2, CloseBettingSound DEF Sound, IInv, TypeOK
  <2>4. QED
    BY <1>3, <2>3, FollowedOutcome DEF r
<1>7. QED
  BY <1>4, <1>5, <1>6

\* MSG_XIAZHU of an observer.
LEMMA XiazhuFailsOutcome ==
  ASSUME IInv, NEW a \in Actors, XiazhuFails(a)
  PROVE  Outcome(player[a].room, player)
<1> DEFINE r == player[a].room
<1>1. player[a] # Nil /\ r \in Rooms /\ PlayersOK(player)
  BY DEF XiazhuFails, Asked, IInv, TypeOK, Player, PlayersOK
<1>2. Moves(r, player, player) /\ Sound(r, room[r], player)
  BY <1>1 DEF Moves, IInv
<1>3. QED
  BY <1>1, <1>2, RecordedOutcome DEF XiazhuFails

\* A showdown in state XUANPAI finds what it needs.
LEMMA SoundIsShowdownFit ==
  ASSUME NEW r \in Rooms, NEW rm, NEW ps, Sound(r, rm, ps), rm.state = XUANPAI
  PROVE  ShowdownFit(r, rm, ps)
<1>1. rm.actor_count \in Nat /\ rm.actor_count # 0
  BY DEF Sound, Fit, Room, LoneIn, NULL, XUANPAI
<1>2. QED
  BY <1>1 DEF Sound, Fit, ShowdownFit, OneMasterIn, EquippedIn, QIANGZHUANG, XIAZHU, XUANPAI

\* What the three messages of XUANPAI share.
LEMMA ChooseOutcome ==
  ASSUME IInv, NEW a \in Actors, NEW v \in Paivals, MayChoose(a), Choose(a, v)
  PROVE  Outcome(player[a].room, player)
<1> DEFINE r  == player[a].room
           q  == Choice(player[a], v)
           ps == [player EXCEPT ![a] = q]
<1>1. player[a] # Nil /\ player[a] \in Player /\ room[r].state = XUANPAI
  BY DEF MayChoose, Asked, IInv, TypeOK
<1>2. OwnChange(player[a], q)
  <2>1. /\ q \in Player
        /\ q.room = player[a].room /\ q.pos = player[a].pos
        /\ q.member = player[a].member
        /\ q.cards = player[a].cards /\ q.ratio_list = player[a].ratio_list
        /\ q.is_winner = player[a].is_winner
        /\ q.ratio = player[a].ratio
        /\ q.recv_xuanpai = TRUE
    BY <1>1 DEF Choice, Player
  <2> HIDE DEF q
  <2>2. q.recv_xuanpai
    BY <2>1
  <2>3. QED
    BY <2>1, <2>2 DEF OwnChange
<1>3. r \in Rooms /\ PlayersOK(ps) /\ Moves(r, player, ps) /\ Sound(r, room[r], ps)
  BY <1>1, <1>2, OwnChangeSound
<1>4. \/ Wait(ps)
      \/ Showdown(r, room[r], ps)
  BY DEF Choose
<1> HIDE DEF ps
<1>5. CASE Wait(ps)
  BY <1>3, <1>5, RecordedOutcome DEF Wait
<1>6. CASE Showdown(r, room[r], ps)
  <2>1. ShowdownFit(r, room[r], ps)
    BY <1>1, <1>3, SoundIsShowdownFit
  <2>2. Outcome(r, ps)
    BY <1>3, <1>6, <2>1, ShowdownSound
  <2>3. QED
    BY <1>3, <2>2, FollowedOutcome
<1>7. QED
  BY <1>4, <1>5, <1>6

\* MSG_XUANPAI that fails on a missing card.
LEMMA XuanpaiFailsOutcome ==
  ASSUME IInv, NEW a \in Actors, XuanpaiFails(a)
  PROVE  Outcome(player[a].room, player)
<1> DEFINE r  == player[a].room
           q  == [player[a] EXCEPT !.recv_xuanpai = TRUE]
           ps == [player EXCEPT ![a] = q]
<1>1. player[a] # Nil /\ player[a] \in Player
  BY DEF XuanpaiFails, MayChoose, Asked, IInv, TypeOK
<1>2. OwnChange(player[a], q)
  <2>1. /\ q \in Player
        /\ q.room = player[a].room /\ q.pos = player[a].pos
        /\ q.member = player[a].member
        /\ q.cards = player[a].cards /\ q.ratio_list = player[a].ratio_list
        /\ q.is_winner = player[a].is_winner
        /\ q.ratio = player[a].ratio
        /\ q.recv_xuanpai = TRUE
    BY <1>1 DEF Player
  <2> HIDE DEF q
  <2>2. q.recv_xuanpai
    BY <2>1
  <2>3. QED
    BY <2>1, <2>2 DEF OwnChange
<1>3. r \in Rooms /\ Moves(r, player, ps) /\ Sound(r, room[r], ps)
  BY <1>1, <1>2, OwnChangeSound
<1>4. /\ room' = [room EXCEPT ![r] = room[r]] /\ player' = ps
      /\ ok' = FALSE /\ score' = score
  BY DEF XuanpaiFails, Fails, Set
<1>5. room' = room
  BY <1>4 DEF IInv, TypeOK
<1>6. QED
  BY <1>3, <1>4, <1>5, RecordedOutcome

\* MSG_QIANGZHUANG.
LEMMA QiangzhuangOutcome ==
  ASSUME IInv, NEW a \in Actors, NEW is_master \in Bids, Qiangzhuang(a, is_master)
  PROVE  Outcome(player[a].room, player)
<1> DEFINE r  == player[a].room
           q  == Bid(player[a], is_master)
           ps == [player EXCEPT ![a] = q]
<1>1. player[a] # Nil /\ player[a] \in Player /\ room[r].state = QIANGZHUANG
  BY DEF Qiangzhuang, Asked, IInv, TypeOK
<1>2. OwnChange(player[a], q)
  <2>1. /\ q \in Player
        /\ q.room = player[a].room /\ q.pos = player[a].pos
        /\ q.member = player[a].member
        /\ q.cards = player[a].cards /\ q.ratio_list = player[a].ratio_list
        /\ q.is_winner = player[a].is_winner
        /\ q.ratio = player[a].ratio
        /\ q.paival = player[a].paival
        /\ q.recv_xuanpai = player[a].recv_xuanpai
    BY <1>1 DEF Bid, Player
  <2> HIDE DEF q
  <2>2. QED
    BY <2>1 DEF OwnChange
<1>3. r \in Rooms /\ PlayersOK(ps) /\ Moves(r, player, ps) /\ Sound(r, room[r], ps)
  BY <1>1, <1>2, OwnChangeSound
<1>4. \/ Wait(ps)
      \/ /\ AllDecided(r, ps)
         /\ \E m \in Candidates(r, ps) :
              LeaveQiangzhuang(r, room[r], MakeMaster(ps, m))
      \/ Candidates(r, ps) = {} /\ Fails(r, room[r], ps)
  BY DEF Qiangzhuang
<1> HIDE DEF ps, r
<1>5. room[r].actor_count >= 2 /\ Fit(r, room[r], ps) /\ DOMAIN score = Actors
  <2>1. room[r].actor_count \in Nat /\ room[r].actor_count \notin {0, 1}
    BY <1>1, <1>3 DEF Sound, Fit, LoneIn, Room, NULL, QIANGZHUANG, XUANPAI, JIESUAN
  <2>2. room[r].actor_count >= 2
    BY <2>1
  <2>3. Fit(r, room[r], ps)
    BY <1>3 DEF Sound
  <2>4. DOMAIN score = Actors
    BY DEF IInv, TypeOK
  <2>5. QED
    BY <2>2, <2>3, <2>4
<1>6. CASE Wait(ps)
  BY <1>3, <1>6, RecordedOutcome DEF Wait, r
<1>7. CASE /\ AllDecided(r, ps)
           /\ \E m \in Candidates(r, ps) :
                LeaveQiangzhuang(r, room[r], MakeMaster(ps, m))
  <2>1. PICK m \in Candidates(r, ps) : LeaveQiangzhuang(r, room[r], MakeMaster(ps, m))
    BY <1>7
  <2> DEFINE qs == MakeMaster(ps, m)
  <2>2. m \in Playing(r, ps)
    BY CandidatesPlay
  <2>3. Seated(r, qs) = Seated(r, ps)
    BY <2>2, <1>1, <1>3, <1>5, MakeMasterFit
  <2>4. AllDecided(r, qs)
    <3>1. m \in Actors /\ ps[m] \in Player
      BY <2>2, <1>3 DEF Playing, Seated, PlayersOK
    <3>2. qs[m].recv_qiangzhuang = ps[m].recv_qiangzhuang
      BY <3>1, <1>3 DEF MakeMaster, PlayersOK, Player
    <3>3. \A b \in Actors \ {m} : qs[b] = ps[b]
      BY <1>3 DEF MakeMaster, PlayersOK
    <3>4. QED
      BY <2>3, <3>2, <3>3, <1>7 DEF AllDecided, Seated
  <2>5. EnterXiazhu(r, room[r], qs)
    BY <2>1, <2>4 DEF LeaveQiangzhuang
  <2>6. Outcome(r, ps)
    BY <2>5, <1>1, <1>3, <1>5, EnterXiazhuWithMaster
  <2>7. QED
    BY <1>3, <2>6, FollowedOutcome DEF r
<1>8. CASE Candidates(r, ps) = {} /\ Fails(r, room[r], ps)
  <2>1. Outcome(r, ps)
    BY <1>1, <1>3, <1>5, <1>8, FailsWithoutPlayers
  <2>2. QED
    BY <1>3, <2>1, FollowedOutcome DEF r
<1>9. QED
  BY <1>4, <1>6, <1>7, <1>8

\* What the three messages of XUANPAI choose is a paival.
LEMMA ChosenPaival ==
  ASSUME IInv, NEW a \in Actors, XuanpaiNone(a) \/ XuanpaiTip(a) \/ Xuanpai(a)
  PROVE  MayChoose(a) /\ \E v \in Paivals : Choose(a, v)
<1>1. MayChoose(a)
  BY DEF XuanpaiNone, XuanpaiTip, Xuanpai
<1>2. player[a] \in Player
  BY <1>1 DEF MayChoose, Asked, IInv, TypeOK
<1>3. player[a].cards = Nil \/ player[a].cards \in Hands
  BY <1>2 DEF Player
<1>4. ASSUME NEW h \in Hands
      PROVE  h.max_val \in Paivals /\ h.best \in Paivals /\ h.picks \subseteq Paivals
  BY HandsAssumption DEF Paivals
<1>5. Nil \in Paivals /\ NoCardsPaival \in Paivals
  BY DEF Paivals, NoCardsPaival
<1>6. \E v \in Paivals : Choose(a, v)
  <2>1. CASE XuanpaiNone(a)
    BY <2>1, <1>3, <1>4, <1>5 DEF XuanpaiNone
  <2>2. CASE XuanpaiTip(a)
    BY <2>2, <1>3, <1>4, <1>5 DEF XuanpaiTip
  <2>3. CASE Xuanpai(a)
    BY <2>3, <1>3, <1>4 DEF Xuanpai
  <2>4. QED
    BY <2>1, <2>2, <2>3
<1>7. QED
  BY <1>1, <1>6

\* MSG_XUANPAI_NONE, MSG_XUANPAI_TIP and MSG_XUANPAI.
LEMMA XuanpaiOutcome ==
  ASSUME IInv, NEW a \in Actors, XuanpaiNone(a) \/ XuanpaiTip(a) \/ Xuanpai(a)
  PROVE  Outcome(player[a].room, player)
BY ChosenPaival, ChooseOutcome

\* Whatever a seated actor sends, his room is sound and nobody has moved.
LEMMA PlayOutcome ==
  ASSUME IInv, NEW a \in Actors, Play(a)
  PROVE  /\ player[a].room \in Rooms
         /\ Outcome(player[a].room, player)
         /\ UNCHANGED <<player_list, updating>>
<1>1. player[a] # Nil /\ UNCHANGED <<player_list, updating>>
  BY DEF Play, Qiangzhuang, Xiazhu, XiazhuFails, XuanpaiNone, XuanpaiTip, Xuanpai,
         XuanpaiFails, MayChoose, Choose, Asked
<1>2. player[a].room \in Rooms
  BY <1>1 DEF IInv, TypeOK, Player
<1>3. Outcome(player[a].room, player)
  BY QiangzhuangOutcome, XiazhuOutcome, XiazhuFailsOutcome, XuanpaiOutcome,
     XuanpaiFailsOutcome DEF Play
<1>4. QED
  BY <1>1, <1>2, <1>3

\* The messages keep the invariant.
LEMMA PlayKeepsIInv ==
  ASSUME IInv, NEW a \in Actors, Play(a)
  PROVE  IInv'
BY PlayOutcome, OutcomeKeepsIInv DEF IInv, TypeOK

-----------------------------------------------------------------------------
(* Coming and going *)

\* MSG_ENTER.
LEMMA EnterKeepsIInv ==
  ASSUME IInv, NEW a \in Actors, NEW type, Enter(a, type)
  PROVE  IInv'
<1>0. PICK r \in Open(type) : \E i \in Free(r) :
        /\ player' = [player EXCEPT ![a] = NewPlayer(r, i, OBSERVER, Nil)]
        /\ player_list' = [player_list EXCEPT ![r][i] = a]
        /\ room' = [room EXCEPT ![r].actor_count = @ + 1]
  BY DEF Enter
<1>1. PICK i \in Free(r) :
        /\ player' = [player EXCEPT ![a] = NewPlayer(r, i, OBSERVER, Nil)]
        /\ player_list' = [player_list EXCEPT ![r][i] = a]
        /\ room' = [room EXCEPT ![r].actor_count = @ + 1]
  BY <1>0
<1>2. /\ ok' = TRUE /\ score' = score /\ updating' = updating /\ player[a] = Nil
      /\ r \in Rooms /\ i \in Seats /\ player_list[r][i] = Nil
  BY DEF Enter, Open, Free
<1> DEFINE p == NewPlayer(r, i, OBSERVER, Nil)
<1>3. /\ p \in Player /\ p # Nil /\ p.room = r /\ p.pos = i /\ p.member = OBSERVER
      /\ p.cards = Nil /\ p.ratio_list = {} /\ p.is_winner = FALSE
  <2>1. p \in Player
    BY <1>2 DEF NewPlayer, Player, Paivals
  <2>2. QED
    BY <2>1, NilIsNoPlayer DEF NewPlayer
<1>4. /\ PlayersOK(player') /\ player'[a] = p
      /\ \A b \in Actors \ {a} : player'[b] = player[b]
  BY <1>1, <1>3 DEF IInv, TypeOK, PlayersOK
<1> HIDE DEF p
<1>5. /\ Seated(r, player') = Seated(r, player) \cup {a}
      /\ Playing(r, player') = Playing(r, player)
      /\ a \notin Seated(r, player)
      /\ \A s \in Rooms \ {r} : Seated(s, player') = Seated(s, player)
  BY <1>2, <1>3, <1>4 DEF Seated, Playing
<1>6. Sound(r, room[r], player) /\ room[r] \in Room /\ room \in [Rooms -> Room]
  BY <1>2 DEF IInv, TypeOK
<1> DEFINE rm == room'[r]
<1>7. /\ rm \in Room /\ rm.state = room[r].state /\ rm.countdown = room[r].countdown
      /\ rm.actor_count = room[r].actor_count + 1
      /\ room' = [room EXCEPT ![r] = rm]
  BY <1>1, <1>2, <1>6 DEF Room
<1> HIDE DEF rm
<1>8. rm.actor_count = Cardinality(Seated(r, player'))
  BY <1>5, <1>6, <1>7, SeatedFinite, FS_AddElement DEF Sound, Fit
<1>9. Sound(r, rm, player')
  <2>1. OneMasterIn(r, rm, player')
    BY <1>2, <1>3, <1>4, <1>5, <1>6, <1>7 DEF Sound, Fit, OneMasterIn, Seated, OBSERVER, MASTER
  <2>2. EquippedIn(r, rm, player')
    <3>1. \A b \in Playing(r, player') : b # a
      BY <1>5 DEF Playing
    <3>2. \A b \in Playing(r, player') : player'[b] = player[b]
      BY <3>1, <1>4 DEF Playing, Seated
    <3>3. \A b \in Seated(r, player') \ {a} : player'[b] = player[b]
      BY <1>4 DEF Seated
    <3>4. QED
      BY <3>2, <3>3, <1>3, <1>4, <1>5, <1>6, <1>7 DEF Sound, Fit, EquippedIn
  <2>3. LoneIn(r, rm, player')
    BY <1>5, <1>6, <1>7 DEF Sound, Fit, LoneIn, Room
  <2>4. StallIn(r, rm, player')
    <3>1. \A b \in Playing(r, player') : player'[b] = player[b]
      BY <1>4, <1>5 DEF Playing, Seated
    <3>2. QED
      BY <3>1, <1>5, <1>6, <1>7 DEF Sound, StallIn
  <2>5. QED
    BY <2>1, <2>2, <2>3, <2>4, <1>7, <1>8 DEF Sound, Fit
<1>10. ASSUME NEW s \in Rooms PROVE Sound(s, room'[s], player')
  <2>1. CASE s = r
    BY <2>1, <1>9 DEF rm
  <2>2. CASE s # r
    <3>1. room'[s] = room[s] /\ Sound(s, room[s], player)
      BY <1>6, <1>7, <2>2 DEF IInv
    <3>2. \A b \in Seated(s, player) : player'[b] = player[b]
      BY <1>2, <1>4 DEF Seated
    <3>3. QED
      BY <3>1, <3>2, <1>5, <2>2, OtherRoom
  <2>3. QED
    BY <2>1, <2>2
<1>11. TypeOK'
  <2>1. room' \in [Rooms -> Room]
    BY <1>6, <1>7
  <2>2. player_list' \in [Rooms -> [Seats -> Actors \cup {Nil}]]
    BY <1>1, <1>2 DEF IInv, TypeOK
  <2>3. QED
    BY <2>1, <2>2, <1>2, <1>4 DEF IInv, TypeOK, PlayersOK
<1>12. SeatsMatch'
  <2> USE DEF IInv, TypeOK, SeatsMatch
  <2>1. \A s \in Rooms, j \in Seats :
          player_list'[s][j] = IF s = r /\ j = i THEN a ELSE player_list[s][j]
    BY <1>1, <1>2
  <2>2. \A b \in Actors : player[b] # Nil => player[b].room \in Rooms /\ player[b].pos \in Seats
    BY DEF Player
  <2>3. ASSUME NEW b \in Actors, player'[b] # Nil
        PROVE  player_list'[player'[b].room][player'[b].pos] = b
    <3>1. CASE b = a
      BY <3>1, <2>1, <1>2, <1>3, <1>4
    <3>2. CASE b # a
      <4>1. player'[b] = player[b] /\ player_list[player[b].room][player[b].pos] = b
        BY <1>4, <2>3, <3>2
      <4>2. b # Nil
        BY NilIsNoPlayer
      <4>3. QED
        BY <4>1, <4>2, <2>1, <2>2, <2>3, <1>2
    <3>3. QED
      BY <3>1, <3>2
  <2>4. ASSUME NEW s \in Rooms, NEW j \in Seats, player_list'[s][j] # Nil
        PROVE  LET q == player'[player_list'[s][j]]
               IN  q # Nil /\ q.room = s /\ q.pos = j
    <3>1. CASE s = r /\ j = i
      BY <3>1, <2>1, <1>3, <1>4
    <3>2. CASE ~(s = r /\ j = i)
      <4>1. player_list'[s][j] = player_list[s][j] /\ player_list[s][j] \in Actors
        BY <2>1, <2>4, <3>2
      <4>2. player[player_list[s][j]] # Nil
        BY <4>1, <2>4
      <4>3. player_list[s][j] # a
        BY <4>2, <1>2
      <4>4. player'[player_list[s][j]] = player[player_list[s][j]]
        BY <4>1, <4>3, <1>4
      <4>5. QED
        BY <4>1, <4>4, <2>4
    <3>3. QED
      BY <3>1, <3>2
  <2>5. \A s \in Rooms : room'[s].actor_count = Cardinality(Seated(s, player'))
    BY <1>10 DEF Sound, Fit
  <2>6. QED
    BY <2>3, <2>4, <2>5
<1>13. QED
  BY <1>10, <1>11, <1>12 DEF IInv

\* The room that an actor leaves, before exit_room decides what follows.
Left(r) == [room[r] EXCEPT !.actor_count = @ - 1]

\* An empty seat: the actor is gone, the others are as they were, and the count
\* is right.
LEMMA LeavingSound ==
  ASSUME IInv, NEW a \in Actors, player[a] # Nil
  PROVE  LET r  == player[a].room
             ps == [player EXCEPT ![a] = Nil]
         IN  /\ r \in Rooms /\ PlayersOK(ps) /\ ps[a] = Nil
             /\ \A b \in Actors \ {a} : ps[b] = player[b]
             /\ Left(r).state = room[r].state
             /\ Left(r).countdown = room[r].countdown
             /\ Fit(r, Left(r), ps)
             /\ StallIn(r, Left(r), ps)
<1> DEFINE r    == player[a].room
           ps   == [player EXCEPT ![a] = Nil]
           left == Left(r)
<1>1. player[a] \in Player /\ r \in Rooms /\ PlayersOK(player) /\ room[r] \in Room
  BY DEF IInv, TypeOK, Player, PlayersOK
<1>2. PlayersOK(ps) /\ ps[a] = Nil /\ \A b \in Actors \ {a} : ps[b] = player[b]
  BY <1>1 DEF PlayersOK
<1>3. Sound(r, room[r], player) /\ a \in Seated(r, player)
  BY <1>1 DEF IInv, Seated
<1>4. /\ left = [state |-> room[r].state, countdown |-> room[r].countdown,
                 actor_count |-> room[r].actor_count - 1]
  BY <1>1 DEF Left, Room
<1> HIDE DEF ps, left
<1>5. Seated(r, ps) = Seated(r, player) \ {a}
  BY <1>2 DEF Seated
<1>6. Playing(r, ps) = Playing(r, player) \ {a}
  BY <1>2, <1>5 DEF Playing, Seated
<1>7. \A b \in Seated(r, ps) : ps[b] = player[b]
  BY <1>2, <1>5 DEF Seated
<1>8. left.actor_count = Cardinality(Seated(r, ps)) /\ left.actor_count \in Nat
  <2>1. Cardinality(Seated(r, ps)) = room[r].actor_count - 1
    BY <1>3, <1>5, SeatedFinite, FS_RemoveElement DEF Sound, Fit
  <2>2. Cardinality(Seated(r, ps)) \in Nat
    BY SeatedFinite, FS_CardinalityType
  <2>3. QED
    BY <2>1, <2>2, <1>4
<1>9. left \in Room
  BY <1>1, <1>4, <1>8 DEF Room
<1>10. OneMasterIn(r, left, ps)
  BY <1>3, <1>4, <1>5, <1>7 DEF Sound, Fit, OneMasterIn
<1>11. Playing(r, ps) \subseteq Seated(r, ps)
  BY DEF Playing
<1>12. EquippedIn(r, left, ps)
  BY <1>3, <1>4, <1>5, <1>6, <1>7, <1>11 DEF Sound, Fit, EquippedIn
<1>13. StallIn(r, left, ps)
  BY <1>3, <1>4, <1>6, <1>7, <1>11 DEF Sound, StallIn
<1>14. Fit(r, left, ps)
  BY <1>8, <1>9, <1>10, <1>12 DEF Fit
<1>15. left.state = room[r].state /\ left.countdown = room[r].countdown
  BY <1>4
<1>16. QED
  BY <1>1, <1>2, <1>13, <1>14, <1>15 DEF ps, left

\* exit_room ends in a sound room, whichever of its branches it takes.
LEMMA ExitOutcome ==
  ASSUME IInv, NEW a \in Actors, Exit(a)
  PROVE  Outcome(player[a].room, [player EXCEPT ![a] = Nil])
<1> DEFINE r    == player[a].room
           ps   == [player EXCEPT ![a] = Nil]
           left == Left(r)
           void == [left EXCEPT !.countdown = Nil]
           show == [void EXCEPT !.state = XUANPAI]
           em   == Entering(void, NULL)
<1> USE DEF NULL, WAITING, QIANGZHUANG, XIAZHU, XUANPAI, JIESUAN
<1>1. /\ player[a] # Nil
      /\ \/ /\ left.actor_count = 1 /\ left.state \in QIANGZHUANG..XUANPAI
            /\ Showdown(r, show, ps)
         \/ Set(r, em, ps) /\ ok' = TRUE /\ score' = [score EXCEPT ![a] = Nil]
         \/ /\ left.actor_count \notin {0, 1}
            /\ Set(r, left, ps) /\ ok' = TRUE /\ score' = [score EXCEPT ![a] = Nil]
  BY DEF Exit, Left
<1>2. /\ r \in Rooms /\ PlayersOK(ps) /\ Fit(r, left, ps) /\ StallIn(r, left, ps)
      /\ DOMAIN score = Actors
  BY <1>1, LeavingSound DEF IInv, TypeOK
<1>3. left \in Room
  BY <1>2 DEF Fit
<1>4. void \in Room /\ void.countdown = Nil /\ void.actor_count = left.actor_count
  BY <1>3 DEF Room
<1> HIDE DEF void
<1>5. show \in Room /\ show.state = XUANPAI /\ show.actor_count = left.actor_count
  BY <1>4 DEF Room, States
<1>6. /\ em \in Room /\ em.state = NULL /\ em.countdown = Nil
      /\ em.actor_count = left.actor_count
  BY <1>4, EnteringRoom DEF States
<1>7. Moves(r, ps, ps)
  BY <1>2 DEF Moves
<1> HIDE DEF r, ps, left, show, em
<1>8. CASE /\ left.actor_count = 1 /\ left.state \in QIANGZHUANG..XUANPAI
           /\ Showdown(r, show, ps)
  <2>1. ShowdownFit(r, show, ps)
    BY <1>2, <1>5, <1>8 DEF Fit, ShowdownFit, OneMasterIn, EquippedIn
  <2>2. Outcome(r, ps)
    BY <1>2, <1>8, <2>1, ShowdownSound
  <2>3. QED
    BY <2>2 DEF r, ps
<1>9. CASE Set(r, em, ps) /\ ok' = TRUE /\ score' = [score EXCEPT ![a] = Nil]
  <2>1. Sound(r, em, ps)
    BY <1>2, <1>6 DEF Sound, Fit, OneMasterIn, EquippedIn, LoneIn, StallIn
  <2>2. Outcome(r, ps)
    BY <1>2, <1>6, <1>7, <1>9, <2>1 DEF Outcome, Set
  <2>3. QED
    BY <2>2 DEF r, ps
<1>10. CASE /\ left.actor_count \notin {0, 1}
            /\ Set(r, left, ps) /\ ok' = TRUE /\ score' = [score EXCEPT ![a] = Nil]
  <2>1. Sound(r, left, ps)
    BY <1>2, <1>10 DEF Sound, LoneIn
  <2>2. Outcome(r, ps)
    BY <1>2, <1>3, <1>7, <1>10, <2>1 DEF Outcome, Set
  <2>3. QED
    BY <2>2 DEF r, ps
<1>11. QED
  BY <1>1, <1>8, <1>9, <1>10

\* exit_room keeps the invariant.
LEMMA ExitKeepsIInv ==
  ASSUME IInv, NEW a \in Actors, Exit(a)
  PROVE  IInv'
<1> DEFINE r  == player[a].room
           i  == player[a].pos
           ps == [player EXCEPT ![a] = Nil]
<1>1. /\ player[a] # Nil /\ r \in Rooms /\ i \in Seats /\ ps[a] = Nil
      /\ player_list[r][i] = a
      /\ \A b \in Actors \ {a} : ps[b] = player[b]
  <2>1. player[a] # Nil
    BY Zenon DEF Exit
  <2>2. r \in Rooms /\ ps[a] = Nil /\ \A b \in Actors \ {a} : ps[b] = player[b]
    BY <2>1, LeavingSound
  <2>3. i \in Seats /\ player_list[r][i] = a
    BY <2>1 DEF IInv, TypeOK, SeatsMatch, Player
  <2>4. QED
    BY <2>1, <2>2, <2>3
<1>2. /\ player_list' = [player_list EXCEPT ![r][i] = Nil]
      /\ updating' = updating
  BY DEF Exit
<1>3. Outcome(r, ps)
  BY ExitOutcome
<1> HIDE DEF r, i, ps
<1>4. PICK rm \in Room : room' = [room EXCEPT ![r] = rm] /\ Sound(r, rm, player')
  BY <1>3 DEF Outcome
<1>5. Moves(r, ps, player') /\ room \in [Rooms -> Room]
  BY <1>3 DEF Outcome, IInv, TypeOK
<1>6. TypeOK'
  <2>1. room' \in [Rooms -> Room]
    BY <1>1, <1>4, <1>5
  <2>2. player_list' \in [Rooms -> [Seats -> Actors \cup {Nil}]]
    BY <1>1, <1>2 DEF IInv, TypeOK
  <2>3. QED
    BY <2>1, <2>2, <1>2, <1>3, <1>5 DEF Outcome, IInv, TypeOK, Moves, PlayersOK
<1>7. ASSUME NEW s \in Rooms PROVE Sound(s, room'[s], player')
  <2>1. CASE s = r
    BY <1>4, <1>5, <2>1
  <2>2. CASE s # r
    <3>1. room'[s] = room[s] /\ Sound(s, room[s], player)
      BY <1>4, <1>5, <2>2 DEF IInv
    <3>2. a \notin Seated(s, player)
      BY <2>2 DEF Seated, r
    <3>3. Seated(s, ps) = Seated(s, player)
      BY <3>2, <1>1 DEF Seated
    <3>4. Seated(s, player') = Seated(s, player)
      BY <3>3, <1>5, MovesKeepSeats
    <3>5. \A b \in Seated(s, player) : player'[b] = player[b]
      <4>1. \A b \in Seated(s, player) : b \in Actors \ {a} /\ player[b] # Nil /\ player[b].room = s
        BY <3>2 DEF Seated
      <4>2. QED
        BY <4>1, <1>1, <1>5, <2>2 DEF Moves
    <3>6. QED
      BY <3>1, <3>4, <3>5, OtherRoom
  <2>3. QED
    BY <2>1, <2>2
<1>8. SeatsMatch'
  <2>1. \A s \in Rooms, j \in Seats :
          player_list'[s][j] = IF s = r /\ j = i THEN Nil ELSE player_list[s][j]
    BY <1>1, <1>2 DEF IInv, TypeOK
  <2>2. /\ player'[a] = Nil
        /\ \A b \in Actors \ {a} :
             /\ player'[b] = Nil <=> player[b] = Nil
             /\ player[b] # Nil => /\ player'[b].room = player[b].room
                                   /\ player'[b].pos = player[b].pos
    BY <1>1, <1>5 DEF Moves
  <2>3. \A b \in Actors : player[b] # Nil => player[b].room \in Rooms /\ player[b].pos \in Seats
    BY DEF IInv, TypeOK, Player
  <2>4. ASSUME NEW b \in Actors, player'[b] # Nil
        PROVE  player_list'[player'[b].room][player'[b].pos] = b
    <3>1. b # a /\ player[b] # Nil
      BY <2>2, <2>4
    <3>2. player_list[player[b].room][player[b].pos] = b
      BY <3>1 DEF IInv, SeatsMatch
    <3>3. ~(player[b].room = r /\ player[b].pos = i)
      BY <3>1, <3>2, <1>1
    <3>4. QED
      BY <3>1, <3>2, <3>3, <2>1, <2>2, <2>3
  <2>5. ASSUME NEW s \in Rooms, NEW j \in Seats, player_list'[s][j] # Nil
        PROVE  LET q == player'[player_list'[s][j]]
               IN  q # Nil /\ q.room = s /\ q.pos = j
    <3> DEFINE c == player_list[s][j]
    <3>1. ~(s = r /\ j = i) /\ player_list'[s][j] = c /\ c \in Actors
      BY <2>1, <2>5 DEF IInv, TypeOK
    <3>2. player[c] # Nil /\ player[c].room = s /\ player[c].pos = j
      BY <3>1, <2>5 DEF IInv, SeatsMatch
    <3>3. c # a
      BY <3>1, <3>2 DEF r, i
    <3> HIDE DEF c
    <3>4. QED
      BY <3>1, <3>2, <3>3, <2>2
  <2>6. \A s \in Rooms : room'[s].actor_count = Cardinality(Seated(s, player'))
    BY <1>7 DEF Sound, Fit
  <2>7. QED
    BY <2>4, <2>5, <2>6 DEF SeatsMatch
<1>9. QED
  BY <1>6, <1>7, <1>8 DEF IInv

-----------------------------------------------------------------------------
(* The theorems *)

\* Every step of the specification keeps the invariant.
LEMMA NextKeepsIInv == IInv /\ [Next]_vars => IInv'
<1> SUFFICES ASSUME IInv, [Next]_vars PROVE IInv'
  OBVIOUS
<1>1. CASE UNCHANGED vars
  BY <1>1 DEF vars, IInv, TypeOK, SeatsMatch, Sound, Fit, OneMasterIn, EquippedIn,
              LoneIn, StallIn, Seated, Playing
<1>2. ASSUME NEW r \in Rooms, UpdateRoom(r) PROVE IInv'
  BY <1>2, UpdateRoomKeepsIInv
<1>3. ASSUME NEW a \in Actors, NEW type \in Types, Enter(a, type) PROVE IInv'
  BY <1>3, EnterKeepsIInv
<1>4. ASSUME NEW a \in Actors, Exit(a) PROVE IInv'
  BY <1>4, ExitKeepsIInv
<1>5. ASSUME NEW a \in Actors, Play(a) PROVE IInv'
  BY <1>5, PlayKeepsIInv
<1>6. QED
  BY <1>1, <1>2, <1>3, <1>4, <1>5 DEF Next, Update

\* Every reachable state satisfies the invariant.
THEOREM InvariantHolds == Spec => []IInv
BY InitIInv, NextKeepsIInv, PTL DEF Spec

\* Every variable keeps its type.
THEOREM TypeCorrect == Spec => []TypeOK
<1>1. IInv => TypeOK
  BY DEF IInv
<1>2. QED
  BY <1>1, InvariantHolds, PTL

\* The seats, the actors' pointers and actor_count always tell the same story,
\* whoever enters, leaves or fails (enter_room, exit_room).
THEOREM SeatsCorrect == Spec => []SeatsMatch
<1>1. IInv => SeatsMatch
  BY DEF IInv
<1>2. QED
  BY <1>1, InvariantHolds, PTL

\* A room that is not in NULL has two actors, or one who looks at the settlement
\* or observes a showdown that failed (exit_room).
THEOREM LoneActorCorrect == Spec => []LoneActor
<1>1. IInv => LoneActor
  BY DEF IInv, Sound, LoneActor
<1>2. QED
  BY <1>1, InvariantHolds, PTL

\* Outside NULL a room counts down, except in QIANGZHUANG when nobody plays and
\* in XUANPAI when the exit handler has run (room_update).
THEOREM StallsCorrect == Spec => []StallOnlyAt
<1>1. IInv => StallOnlyAt
  BY DEF IInv, Sound, StallOnlyAt
<1>2. QED
  BY <1>1, InvariantHolds, PTL

\* A room never has two masters (random_quang, MSG_QIANGZHUANG).
THEOREM OneMasterCorrect == Spec => []OneMaster
<1>1. IInv => OneMaster
  BY DEF IInv, Sound, Fit, OneMaster
<1>2. QED
  BY <1>1, InvariantHolds, PTL

\* Who plays has the cards and the ratio_list the handlers read.
THEOREM EquippedCorrect == Spec => []Equipped
<1>1. IInv => Equipped
  BY DEF IInv, Sound, Fit, Equipped
<1>2. QED
  BY <1>1, InvariantHolds, PTL

-----------------------------------------------------------------------------
(* Bets stand *)

\* No bet is taken back or changed between ps and qs.
Stands(ps, qs) ==
  \A a \in Actors :
    ps[a] # Nil /\ qs[a] # Nil /\ ps[a].recv_xiazhu =>
      qs[a].recv_xiazhu /\ qs[a].ratio = ps[a].ratio

\* No bet is taken back or changed by the step, unless a new round begins.
StandsTillNewRound ==
  \A a \in Actors :
    player[a] # Nil /\ player'[a] # Nil /\ player[a].recv_xiazhu =>
      \/ player'[a].recv_xiazhu /\ player'[a].ratio = player[a].ratio
      \/ room'[player[a].room].state = WAITING

\* Enter handlers of QIANGZHUANG and XIAZHU.
LEMMA EnterHandlersStand ==
  ASSUME NEW r, NEW rm, NEW ps, PlayersOK(ps),
         DealCards(r, rm, ps) \/ EnterXiazhu(r, rm, ps)
  PROVE  Stands(ps, player')
<1> SUFFICES ASSUME NEW a \in Actors, ps[a] # Nil
             PROVE  player'[a].recv_xiazhu = ps[a].recv_xiazhu
                    /\ player'[a].ratio = ps[a].ratio
  BY DEF Stands
<1>1. ps[a] \in Player
  BY DEF PlayersOK
<1>2. CASE DealCards(r, rm, ps)
  BY <1>1, <1>2 DEF DealCards, Set, Player
<1>3. CASE EnterXiazhu(r, rm, ps)
  BY <1>1, <1>3 DEF EnterXiazhu, Set, Player
<1>4. QED
  BY <1>2, <1>3

\* A player who becomes the master keeps what he has bet.
LEMMA MasterStands ==
  ASSUME NEW r, NEW ps, PlayersOK(ps), NEW m \in Candidates(r, ps)
  PROVE  /\ PlayersOK(MakeMaster(ps, m))
         /\ Stands(ps, MakeMaster(ps, m))
         /\ \A a \in Actors : ps[a] # Nil => MakeMaster(ps, m)[a] # Nil
<1> DEFINE qs == MakeMaster(ps, m)
<1>1. m \in Actors /\ ps[m] \in Player
  BY CandidatesPlay DEF Playing, Seated, PlayersOK
<1>2. /\ qs \in [Actors -> Player \cup {Nil}]
      /\ qs[m] \in Player
      /\ qs[m].recv_xiazhu = ps[m].recv_xiazhu /\ qs[m].ratio = ps[m].ratio
      /\ \A a \in Actors \ {m} : qs[a] = ps[a]
  BY <1>1 DEF MakeMaster, PlayersOK, Player
<1> HIDE DEF qs
<1>3. QED
  BY <1>1, <1>2, NilIsNoPlayer DEF PlayersOK, Stands, qs

\* Exit handler of QIANGZHUANG.
LEMMA LeaveQiangzhuangStands ==
  ASSUME NEW r, NEW rm, NEW ps, PlayersOK(ps), LeaveQiangzhuang(r, rm, ps)
  PROVE  Stands(ps, player')
<1>1. CASE EnterXiazhu(r, rm, ps)
  BY <1>1, EnterHandlersStand
<1>2. ASSUME NEW m \in Candidates(r, ps), EnterXiazhu(r, rm, MakeMaster(ps, m))
      PROVE  Stands(ps, player')
  <2>1. PlayersOK(MakeMaster(ps, m)) /\ Stands(ps, MakeMaster(ps, m))
    BY MasterStands
  <2>2. Stands(MakeMaster(ps, m), player')
    BY <1>2, <2>1, EnterHandlersStand
  <2>3. QED
    BY <2>1, <2>2, MasterStands DEF Stands
<1>3. CASE Fails(r, rm, ps)
  BY <1>3 DEF Fails, Set, Stands
<1>4. QED
  BY <1>1, <1>2, <1>3 DEF LeaveQiangzhuang

\* Exit handler of XIAZHU: it bets only for those who have not.
LEMMA CloseBettingStands ==
  ASSUME NEW r, NEW rm, NEW ps, PlayersOK(ps), CloseBetting(r, rm, ps)
  PROVE  Stands(ps, player')
BY DEF CloseBetting, Set, Stands

\* Exit handler of XUANPAI and the settlement.
LEMMA ShowdownStands ==
  ASSUME NEW r, NEW rm, NEW ps, PlayersOK(ps), Showdown(r, rm, ps)
  PROVE  Stands(ps, player')
<1> SUFFICES ASSUME NEW a \in Actors, ps[a] # Nil
             PROVE  player'[a].recv_xiazhu = ps[a].recv_xiazhu
                    /\ player'[a].ratio = ps[a].ratio
  BY DEF Stands
<1> DEFINE qs == Shown(r, ps)
<1>1. ps[a] \in Player
  BY DEF PlayersOK
<1>2. /\ qs = [b \in Actors |-> qs[b]]
      /\ DOMAIN qs[a] = DOMAIN ps[a]
      /\ qs[a].recv_xiazhu = ps[a].recv_xiazhu /\ qs[a].ratio = ps[a].ratio
  BY <1>1 DEF Shown, Player
<1>3. \/ player' = qs
      \/ \E w \in Actors : player' = [qs EXCEPT ![w] = [@ EXCEPT !.is_winner = TRUE]]
  BY DEF Showdown, Set, Winners, Playing, Seated
<1> HIDE DEF qs
<1>4. ASSUME NEW w \in Actors, player' = [qs EXCEPT ![w] = [@ EXCEPT !.is_winner = TRUE]]
      PROVE  player'[a].recv_xiazhu = qs[a].recv_xiazhu /\ player'[a].ratio = qs[a].ratio
  <2>1. CASE a = w
    <3>1. player'[a] = [qs[a] EXCEPT !.is_winner = TRUE]
      BY <1>2, <1>4, <2>1
    <3>2. "recv_xiazhu" \in DOMAIN qs[a] /\ "ratio" \in DOMAIN qs[a]
      BY <1>1, <1>2 DEF Player
    <3>3. QED
      BY <3>1, <3>2
  <2>2. CASE a # w
    BY <1>2, <1>4, <2>2
  <2>3. QED
    BY <2>1, <2>2
<1>5. QED
  BY <1>2, <1>3, <1>4

\* Enter handler of WAITING: bets are cleared where a new round begins.
LEMMA StartRoundStands ==
  ASSUME IInv, NEW r \in Rooms, NEW rm, StartRound(r, rm, player)
  PROVE  StandsTillNewRound
<1>1. room'[r].state = WAITING
  BY DEF StartRound, Set, Entering, IInv, TypeOK
<1>2. \A a \in Actors \ Seated(r, player) : player'[a] = player[a]
  BY DEF StartRound, Set
<1>3. QED
  BY <1>1, <1>2 DEF StandsTillNewRound, Seated

\* A second of a room.
LEMMA UpdateRoomStands ==
  ASSUME IInv, NEW r \in Rooms, UpdateRoom(r)
  PROVE  StandsTillNewRound
<1>1. PlayersOK(player)
  BY DEF IInv, TypeOK, PlayersOK
<1>2. CASE Expire(r)
  <2>1. PICK rm : Advance(r, rm, player)
    BY <1>2 DEF Expire
  <2>2. CASE DealCards(r, rm, player) \/ LeaveQiangzhuang(r, rm, player)
             \/ CloseBetting(r, rm, player) \/ Showdown(r, rm, player)
    <3>1. Stands(player, player')
      BY <1>1, <2>2, EnterHandlersStand, LeaveQiangzhuangStands, CloseBettingStands,
         ShowdownStands
    <3>2. QED
      BY <3>1 DEF Stands, StandsTillNewRound
  <2>3. CASE StartRound(r, rm, player) \/ StartRound(r, Entering(rm, NULL), player)
    BY <2>3, StartRoundStands
  <2>4. CASE Set(r, Entering(rm, NULL), player)
    BY <2>4 DEF Set, StandsTillNewRound
  <2>5. QED
    BY <2>1, <2>2, <2>3, <2>4 DEF Advance
<1>3. CASE CountDown(r) \/ Rest(r)
  BY <1>3 DEF CountDown, Rest, Set, StandsTillNewRound
<1>4. CASE Begin(r)
  BY <1>4, StartRoundStands DEF Begin
<1>5. QED
  BY <1>2, <1>3, <1>4 DEF UpdateRoom

\* Who leaves takes his bet with him; those of the others stand.
LEMMA ExitStands ==
  ASSUME IInv, NEW a \in Actors, Exit(a)
  PROVE  StandsTillNewRound
<1> DEFINE ps == [player EXCEPT ![a] = Nil]
<1>1. /\ PlayersOK(ps) /\ ps[a] = Nil
      /\ \A b \in Actors \ {a} : ps[b] = player[b]
  BY DEF IInv, TypeOK, PlayersOK
<1>2. Outcome(player[a].room, ps)
  BY ExitOutcome
<1>3. (\E r, rm : Showdown(r, rm, ps)) \/ player' = ps
  BY DEF Exit, Set
<1> HIDE DEF ps
<1>4. Stands(ps, player')
  BY <1>1, <1>3, ShowdownStands DEF Stands
<1>5. player'[a] = Nil
  BY <1>1, <1>2 DEF Outcome, Moves
<1>6. QED
  BY <1>1, <1>4, <1>5 DEF Stands, StandsTillNewRound

\* A choice q of actor a that keeps his bet, and what the handler does then.
LEMMA ChoiceStands ==
  ASSUME IInv, NEW a \in Actors, player[a] # Nil, NEW q \in Player,
         player[a].recv_xiazhu => q.recv_xiazhu /\ q.ratio = player[a].ratio,
         NEW ps, ps = [player EXCEPT ![a] = q],
         Stands(ps, player')
  PROVE  StandsTillNewRound
<1>1. ps[a] = q /\ q # Nil /\ \A b \in Actors \ {a} : ps[b] = player[b]
  BY NilIsNoPlayer DEF IInv, TypeOK
<1>2. QED
  BY <1>1 DEF Stands, StandsTillNewRound

\* The messages of an actor.
LEMMA PlayStands ==
  ASSUME IInv, NEW a \in Actors, Play(a)
  PROVE  StandsTillNewRound
<1> DEFINE r == player[a].room
<1>1. CASE XiazhuFails(a)
  BY <1>1 DEF XiazhuFails, StandsTillNewRound
<1>2. ASSUME player[a] # Nil PROVE player[a] \in Player
  BY <1>2 DEF IInv, TypeOK
<1>3. ASSUME NEW ps, Wait(ps) PROVE Stands(ps, player')
  BY <1>3 DEF Wait, Stands
<1>4. ASSUME NEW ps, NEW rm, NEW s, Fails(s, rm, ps) PROVE Stands(ps, player')
  BY <1>4 DEF Fails, Set, Stands
<1>5. ASSUME NEW is_master \in Bids, Qiangzhuang(a, is_master) PROVE StandsTillNewRound
  <2> DEFINE q  == Bid(player[a], is_master)
             ps == [player EXCEPT ![a] = q]
  <2>1. player[a] # Nil /\ player[a] \in Player
    BY <1>2, <1>5 DEF Qiangzhuang, Asked
  <2>2. q \in Player /\ q.recv_xiazhu = player[a].recv_xiazhu /\ q.ratio = player[a].ratio
    BY <2>1 DEF Bid, Player
  <2>3. PlayersOK(ps)
    BY <2>2 DEF IInv, TypeOK, PlayersOK
  <2>4. \/ Wait(ps) \/ Fails(r, room[r], ps)
        \/ \E m \in Candidates(r, ps) : LeaveQiangzhuang(r, room[r], MakeMaster(ps, m))
    BY <1>5 DEF Qiangzhuang
  <2> HIDE DEF q, ps
  <2>5. Stands(ps, player')
    <3>1. ASSUME NEW m \in Candidates(r, ps), LeaveQiangzhuang(r, room[r], MakeMaster(ps, m))
          PROVE  Stands(ps, player')
      <4>1. /\ PlayersOK(MakeMaster(ps, m)) /\ Stands(ps, MakeMaster(ps, m))
            /\ \A b \in Actors : ps[b] # Nil => MakeMaster(ps, m)[b] # Nil
        BY <2>3, MasterStands
      <4>2. Stands(MakeMaster(ps, m), player')
        BY <3>1, <4>1, LeaveQiangzhuangStands
      <4>3. QED
        BY <4>1, <4>2 DEF Stands
    <3>2. QED
      BY <1>3, <1>4, <2>4, <3>1
  <2>6. QED
    BY <2>1, <2>2, <2>5, ChoiceStands DEF ps
<1>6. ASSUME NEW ratio \in Ratios, Xiazhu(a, ratio) PROVE StandsTillNewRound
  <2> DEFINE q  == Bet(player[a], ratio)
             ps == [player EXCEPT ![a] = q]
  <2>1. player[a] # Nil /\ player[a] \in Player /\ ~player[a].recv_xiazhu
    BY <1>2, <1>6 DEF Xiazhu, Asked
  <2>2. q \in Player
    BY <2>1, BetPlayer
  <2>3. PlayersOK(ps)
    BY <2>2 DEF IInv, TypeOK, PlayersOK
  <2>4. Wait(ps) \/ CloseBetting(r, room[r], ps)
    BY <1>6 DEF Xiazhu
  <2> HIDE DEF q, ps
  <2>5. Stands(ps, player')
    BY <1>3, <2>3, <2>4, CloseBettingStands
  <2>6. QED
    BY <2>1, <2>2, <2>5, ChoiceStands DEF ps
<1>7. ASSUME NEW v \in Paivals, MayChoose(a), Choose(a, v) PROVE StandsTillNewRound
  <2> DEFINE q  == Choice(player[a], v)
             ps == [player EXCEPT ![a] = q]
  <2>1. player[a] # Nil /\ player[a] \in Player
    BY <1>2, <1>7 DEF MayChoose, Asked
  <2>2. q \in Player /\ q.recv_xiazhu = player[a].recv_xiazhu /\ q.ratio = player[a].ratio
    BY <2>1 DEF Choice, Player
  <2>3. PlayersOK(ps)
    BY <2>2 DEF IInv, TypeOK, PlayersOK
  <2>4. Wait(ps) \/ Showdown(r, room[r], ps)
    BY <1>7 DEF Choose
  <2> HIDE DEF q, ps
  <2>5. Stands(ps, player')
    BY <1>3, <2>3, <2>4, ShowdownStands
  <2>6. QED
    BY <2>1, <2>2, <2>5, ChoiceStands DEF ps
<1>8. CASE XuanpaiNone(a) \/ XuanpaiTip(a) \/ Xuanpai(a)
  BY <1>7, <1>8, ChosenPaival
<1>9. CASE XuanpaiFails(a)
  <2> DEFINE q  == [player[a] EXCEPT !.recv_xuanpai = TRUE]
             ps == [player EXCEPT ![a] = q]
  <2>1. player[a] # Nil /\ player[a] \in Player
    BY <1>2, <1>9 DEF XuanpaiFails, MayChoose, Asked
  <2>2. q \in Player /\ q.recv_xiazhu = player[a].recv_xiazhu /\ q.ratio = player[a].ratio
    BY <2>1 DEF Player
  <2>3. Fails(r, room[r], ps)
    BY <1>9 DEF XuanpaiFails
  <2> HIDE DEF q, ps
  <2>4. QED
    BY <1>4, <2>1, <2>2, <2>3, ChoiceStands DEF ps
<1>10. QED
  BY <1>1, <1>5, <1>6, <1>8, <1>9 DEF Play

\* A bet that was made stands until the next round clears it, whoever leaves,
\* fails or lets the countdown run out (exit handler of XIAZHU, MSG_XIAZHU).
THEOREM BetsKeptCorrect == Spec => BetsKept
<1>1. ASSUME IInv, [Next]_vars PROVE [StandsTillNewRound]_vars
  <2>1. ASSUME Update PROVE StandsTillNewRound
    BY <1>1, <2>1, UpdateRoomStands DEF Update
  <2>2. ASSUME NEW a \in Actors, NEW type \in Types, Enter(a, type)
        PROVE  StandsTillNewRound
    BY <1>1, <2>2 DEF Enter, StandsTillNewRound, IInv, TypeOK
  <2>3. ASSUME NEW a \in Actors, Exit(a) PROVE StandsTillNewRound
    BY <1>1, <2>3, ExitStands
  <2>4. ASSUME NEW a \in Actors, Play(a) PROVE StandsTillNewRound
    BY <1>1, <2>4, PlayStands
  <2>5. QED
    BY <1>1, <2>1, <2>2, <2>3, <2>4 DEF Next
<1>2. QED
  BY <1>1, InvariantHolds, PTL DEF Spec, BetsKept, StandsTillNewRound

-----------------------------------------------------------------------------
(* The rooms implement Table: each step is one of Table's or changes        *)
(* nothing Table sees.                                                     *)

\* How a handler that moves nobody may change the state of room r.
Goes(r) ==
  LET from == room[r].state
      to   == room'[r].state
  IN  \/ to = from
      \/ room[r].actor_count >= 2 /\ from \in {NULL, JIESUAN} /\ to = WAITING
      \/ room[r].actor_count >= 2 /\ from \in WAITING..XUANPAI /\ to = from + 1
      \/ room[r].actor_count < 2 /\ from = JIESUAN /\ to = NULL

TableStep == [Tables!Next]_(Tables!vars)

-----------------------------------------------------------------------------
(* Which state follows *)

\* A round runs with two actors or more, but for observers stuck in XUANPAI.
LEMMA RoundNeedsTwo ==
  ASSUME NEW r, NEW rm \in Room, NEW ps, LoneIn(r, rm, ps),
         rm.state \in WAITING..XUANPAI
  PROVE  rm.actor_count >= 2 \/ (rm.state = XUANPAI /\ Playing(r, ps) = {})
<1>1. rm.actor_count \in Nat /\ rm.state \in 2..5
  BY DEF Room, WAITING, XUANPAI
<1>2. rm.actor_count # 0
  BY <1>1 DEF LoneIn, NULL
<1>3. rm.actor_count = 1 => rm.state = XUANPAI /\ Playing(r, ps) = {}
  BY <1>1 DEF LoneIn, NULL, JIESUAN
<1>4. QED
  BY <1>1, <1>2, <1>3

\* The state each transition of goto_next_state leads to.
LEMMA StateAfter ==
  ASSUME IInv, NEW r \in Rooms, NEW rm, NEW ps
  PROVE  /\ StartRound(r, rm, ps) => room'[r].state = WAITING
         /\ DealCards(r, rm, ps) => room'[r].state = QIANGZHUANG
         /\ LeaveQiangzhuang(r, rm, ps) => room'[r].state \in {rm.state, XIAZHU}
         /\ CloseBetting(r, rm, ps) => room'[r].state = XUANPAI
         /\ Showdown(r, rm, ps) => room'[r].state \in {rm.state, JIESUAN}
         /\ Set(r, Entering(rm, NULL), ps) => room'[r].state = NULL
<1>1. \A to, qs : Set(r, to, qs) => room'[r] = to
  BY DEF Set, IInv, TypeOK
<1>2. \A s : Entering(rm, s).state = s
  BY DEF Entering
<1>3. StartRound(r, rm, ps) => room'[r] = Entering(rm, WAITING)
  BY <1>1 DEF StartRound
<1>4. DealCards(r, rm, ps) => room'[r] = Entering(rm, QIANGZHUANG)
  BY <1>1 DEF DealCards
<1>5. \A qs : EnterXiazhu(r, rm, qs) => room'[r] = Entering(rm, XIAZHU)
  BY <1>1 DEF EnterXiazhu
<1>6. LeaveQiangzhuang(r, rm, ps) => room'[r] \in {rm, Entering(rm, XIAZHU)}
  BY <1>1, <1>5 DEF LeaveQiangzhuang, Fails
<1>7. CloseBetting(r, rm, ps) => room'[r] = Entering(rm, XUANPAI)
  BY <1>1 DEF CloseBetting
<1>8. Showdown(r, rm, ps) => room'[r] \in {rm, Entering(rm, JIESUAN)}
  BY <1>1 DEF Showdown
<1>9. QED
  BY <1>1, <1>2, <1>3, <1>4, <1>6, <1>7, <1>8

\* Without anybody who plays there is nobody to rank, and XUANPAI stays.
LEMMA NobodyIsRanked ==
  ASSUME IInv, NEW r \in Rooms, NEW rm, NEW ps, Playing(r, ps) = {},
         Showdown(r, rm, ps)
  PROVE  room'[r].state = rm.state
<1>1. \A a \in Seated(r, ps) : Shown(r, ps)[a] = ps[a]
  BY DEF Shown, Seated
<1>2. \A a \in Actors : Shown(r, ps)[a] = ps[a]
  BY DEF Shown
<1>3. Playing(r, Shown(r, ps)) = {}
  BY <1>2 DEF Playing, Seated
<1>4. Set(r, rm, Shown(r, ps))
  BY <1>3 DEF Showdown, CanRank
<1>5. QED
  BY <1>4 DEF Set, IInv, TypeOK

\* A second of a room moves it on by one state, starts or closes a round.
LEMMA UpdateRoomGoes ==
  ASSUME IInv, NEW r \in Rooms, UpdateRoom(r)
  PROVE  Goes(r)
<1> USE DEF NULL, WAITING, QIANGZHUANG, XIAZHU, XUANPAI, JIESUAN
<1>1. room[r] \in Room /\ LoneIn(r, room[r], player) /\ StallIn(r, room[r], player)
  BY DEF IInv, TypeOK, Sound
<1>2. CASE Expire(r)
  <2> DEFINE rm == [room[r] EXCEPT !.countdown = Nil]
  <2>1. /\ rm.state = room[r].state /\ rm.actor_count = room[r].actor_count
        /\ rm.actor_count \in Nat
    BY <1>1 DEF Room
  <2>2. Advance(r, rm, player) /\ room[r].state # NULL
    BY <1>1, <1>2 DEF Expire, StallIn
  <2> HIDE DEF rm
  <2>r. room[r].state \in WAITING..XUANPAI =>
          \/ room[r].actor_count >= 2
          \/ room[r].state = XUANPAI /\ Playing(r, player) = {}
    BY <1>1, RoundNeedsTwo
  <2>3. CASE rm.state = WAITING /\ DealCards(r, rm, player)
    BY <2>1, <2>3, <2>r, StateAfter DEF Goes
  <2>4. CASE rm.state = QIANGZHUANG /\ LeaveQiangzhuang(r, rm, player)
    BY <2>1, <2>4, <2>r, StateAfter DEF Goes
  <2>5. CASE rm.state = XIAZHU /\ CloseBetting(r, rm, player)
    BY <2>1, <2>5, <2>r, StateAfter DEF Goes
  <2>6. CASE rm.state = XUANPAI /\ Showdown(r, rm, player)
    BY <2>1, <2>6, <2>r, StateAfter, NobodyIsRanked DEF Goes
  <2>7. CASE /\ rm.state = JIESUAN /\ rm.actor_count >= 2
             /\ StartRound(r, Entering(rm, NULL), player)
    BY <2>1, <2>7, StateAfter DEF Goes
  <2>8. CASE /\ rm.state = JIESUAN /\ rm.actor_count < 2
             /\ Set(r, Entering(rm, NULL), player)
    BY <2>1, <2>8, StateAfter DEF Goes
  <2>9. QED
    BY <2>1, <2>2, <2>3, <2>4, <2>5, <2>6, <2>7, <2>8 DEF Advance
<1>3. CASE CountDown(r)
  BY <1>1, <1>3 DEF CountDown, Set, Goes, IInv, TypeOK, Room
<1>4. CASE Begin(r)
  BY <1>4, StateAfter DEF Begin, Goes
<1>5. CASE Rest(r)
  BY <1>5 DEF Rest, Set, Goes, IInv, TypeOK
<1>6. QED
  BY <1>2, <1>3, <1>4, <1>5 DEF UpdateRoom

\* A message moves a room on by one state or leaves it.
LEMMA PlayGoes ==
  ASSUME IInv, NEW a \in Actors, Play(a)
  PROVE  Goes(player[a].room)
<1> USE DEF NULL, WAITING, QIANGZHUANG, XIAZHU, XUANPAI, JIESUAN
<1> DEFINE r == player[a].room
<1>0. player[a] # Nil
  BY DEF Play, Qiangzhuang, Xiazhu, XiazhuFails, XuanpaiNone, XuanpaiTip, Xuanpai,
         XuanpaiFails, MayChoose, Asked
<1>1. r \in Rooms
  BY PlayOutcome
<1>2. room[r] \in Room /\ LoneIn(r, room[r], player)
  BY <1>1 DEF IInv, TypeOK, Sound
<1>3. \/ room' = room
      \/ room[r].state = QIANGZHUANG
           /\ \E ps : LeaveQiangzhuang(r, room[r], ps) \/ Fails(r, room[r], ps)
      \/ room[r].state = XIAZHU /\ \E ps : CloseBetting(r, room[r], ps)
      \/ /\ room[r].state = XUANPAI
         /\ \E v : LET ps == [player EXCEPT ![a] = Choice(@, v)]
                   IN  Showdown(r, room[r], ps)
      \/ \E ps : Fails(r, room[r], ps)
  BY DEF Play, Qiangzhuang, Xiazhu, XiazhuFails, XuanpaiNone, XuanpaiTip, Xuanpai,
         XuanpaiFails, MayChoose, Choose, Asked, Wait
<1> HIDE DEF r
<1>4. CASE room' = room
  BY <1>4 DEF Goes, r
<1>5. CASE \E ps : Fails(r, room[r], ps)
  BY <1>1, <1>5 DEF Fails, Set, Goes, IInv, TypeOK, r
<1>6. CASE /\ room[r].state = QIANGZHUANG
           /\ \E ps : LeaveQiangzhuang(r, room[r], ps)
  BY <1>1, <1>2, <1>6, RoundNeedsTwo, StateAfter DEF Goes, r
<1>7. CASE room[r].state = XIAZHU /\ \E ps : CloseBetting(r, room[r], ps)
  BY <1>1, <1>2, <1>7, RoundNeedsTwo, StateAfter DEF Goes, r
<1>8. ASSUME room[r].state = XUANPAI,
             NEW v, Showdown(r, room[r], [player EXCEPT ![a] = Choice(@, v)])
      PROVE  Goes(r)
  <2> DEFINE ps == [player EXCEPT ![a] = Choice(@, v)]
  <2>1. CASE Playing(r, player) = {}
    <3>1. Playing(r, ps) = {}
      <4>1. \A b \in Actors \ {a} : ps[b] = player[b]
        BY DEF IInv, TypeOK
      <4>2. player[a] \in Player /\ player[a].member = OBSERVER
        BY <1>0, <2>1 DEF Playing, Seated, r, IInv, TypeOK
      <4>3. ps[a].member = OBSERVER
        BY <4>2 DEF Choice, Player, IInv, TypeOK
      <4>4. QED
        BY <2>1, <4>1, <4>3 DEF Playing, Seated
    <3>2. QED
      BY <1>1, <1>8, <3>1, NobodyIsRanked DEF Goes
  <2>2. CASE room[r].actor_count >= 2
    BY <1>1, <1>8, <2>2, StateAfter DEF Goes
  <2>3. QED
    BY <1>2, <1>8, <2>1, <2>2, RoundNeedsTwo
<1>9. QED
  BY <1>3, <1>4, <1>5, <1>6, <1>7, <1>8 DEF r

-----------------------------------------------------------------------------
(* Steps of Table *)

\* Table counts as Douniu does.
LEMMA SameCardinality == \A S : Tables!Cardinality(S) = Cardinality(S)
BY DEF Tables!Cardinality, Cardinality

\* A handler that moves nobody is a step of its room on the table, or none.
LEMMA OutcomeIsTableStep ==
  ASSUME IInv, NEW r \in Rooms, Outcome(r, player), Goes(r)
  PROVE  TableStep
<1> DEFINE st     == [s \in Rooms |-> room[s].state]
           seated == [s \in Rooms |-> Seated(s, player)]
<1>1. /\ room' \in [Rooms -> Room] /\ room \in [Rooms -> Room]
      /\ \A s \in Rooms \ {r} : room'[s] = room[s]
  BY DEF Outcome, IInv, TypeOK
<1>2. \A s \in Rooms : Seated(s, player') = Seated(s, player)
  BY MovesKeepSeats DEF Outcome
<1>3. seated' = seated
  BY <1>2
<1>4. st' = [st EXCEPT ![r] = room'[r].state] /\ st[r] = room[r].state
  BY <1>1
<1>5. seated[r] = Seated(r, player) /\ room[r].actor_count = Cardinality(Seated(r, player))
  BY DEF IInv, SeatsMatch
<1>6. CASE room'[r].state = room[r].state
  <2>1. st' = st
    BY <1>4, <1>6
  <2>2. QED
    BY <1>3, <2>1 DEF TableStep, Tables!vars
<1>7. CASE room'[r].state # room[r].state
  <2>1. Tables!Begin(r) \/ Tables!Proceed(r) \/ Tables!Close(r)
    BY <1>3, <1>4, <1>5, <1>7, SameCardinality
    DEF Goes, Tables!Begin, Tables!Proceed, Tables!Close, NULL, WAITING, XUANPAI, JIESUAN
  <2>2. QED
    BY <2>1 DEF TableStep, Tables!Next
<1>8. QED
  BY <1>6, <1>7

\* MSG_ENTER: a free seat in a room that is not full.
LEMMA EnterIsTableStep ==
  ASSUME IInv, NEW a \in Actors, NEW type \in Types, Enter(a, type)
  PROVE  TableStep
<1> DEFINE st     == [s \in Rooms |-> room[s].state]
           seated == [s \in Rooms |-> Seated(s, player)]
<1>1. PICK r \in Open(type) : \E i \in Free(r) :
        /\ player' = [player EXCEPT ![a] = NewPlayer(r, i, OBSERVER, Nil)]
        /\ room' = [room EXCEPT ![r].actor_count = @ + 1]
  BY DEF Enter
<1>i. PICK i \in Free(r) :
        /\ player' = [player EXCEPT ![a] = NewPlayer(r, i, OBSERVER, Nil)]
        /\ room' = [room EXCEPT ![r].actor_count = @ + 1]
  BY <1>1
<1>2. r \in Rooms /\ room[r].actor_count < MaxActor /\ player[a] = Nil
  BY DEF Open, Enter
<1>3. /\ player'[a] # Nil /\ player'[a].room = r
      /\ \A b \in Actors \ {a} : player'[b] = player[b]
  <2>1. NewPlayer(r, i, OBSERVER, Nil) # Nil
    <3>1. i \in Seats
      BY DEF Free
    <3>2. NewPlayer(r, i, OBSERVER, Nil) \in Player
      BY <1>2, <3>1 DEF NewPlayer, Player, Paivals, OBSERVER, PLAYER, MASTER
    <3>3. QED
      BY <3>2, NilIsNoPlayer
  <2>2. QED
    BY <1>i, <2>1 DEF NewPlayer, IInv, TypeOK
<1>4. \A s \in Rooms : a \notin Seated(s, player)
  BY <1>2 DEF Seated
<1>5. \A s \in Rooms :
        Seated(s, player') = IF s = r THEN Seated(s, player) \cup {a} ELSE Seated(s, player)
  BY <1>2, <1>3 DEF Seated
<1>6. st' = st
  BY <1>i, <1>2 DEF IInv, TypeOK, Room
<1>7. seated' = [seated EXCEPT ![r] = @ \cup {a}]
  BY <1>2, <1>5
<1>8. Cardinality(Seated(r, player)) < MaxActor
  BY <1>2 DEF IInv, SeatsMatch
<1>9. Tables!Join(r, a)
  BY <1>2, <1>4, <1>6, <1>7, <1>8, SameCardinality DEF Tables!Join
<1>10. QED
  BY <1>2, <1>9 DEF TableStep, Tables!Next

\* exit_room: by how many are left it is the end of a round, of a table, or of
\* neither.
LEMMA ExitIsTableStep ==
  ASSUME IInv, NEW a \in Actors, Exit(a)
  PROVE  TableStep
<1> DEFINE r      == player[a].room
           ps     == [player EXCEPT ![a] = Nil]
           st     == [s \in Rooms |-> room[s].state]
           seated == [s \in Rooms |-> Seated(s, player)]
           n      == Cardinality(Seated(r, player))
<1> USE DEF NULL, WAITING, QIANGZHUANG, XIAZHU, XUANPAI, JIESUAN
<1>1. /\ player[a] # Nil /\ r \in Rooms /\ ps[a] = Nil
      /\ \A b \in Actors \ {a} : ps[b] = player[b]
  BY LeavingSound DEF Exit
<1>2. Outcome(r, ps)
  BY ExitOutcome
<1>3. /\ room' \in [Rooms -> Room] /\ room \in [Rooms -> Room]
      /\ \A s \in Rooms \ {r} : room'[s] = room[s]
  BY <1>1, <1>2 DEF Outcome, IInv, TypeOK
<1>4. room[r].actor_count = n /\ n \in Nat
  BY <1>1, SeatedFinite, FS_CardinalityType DEF IInv, SeatsMatch
<1> HIDE DEF n
<1>5. \/ n = 2 /\ room[r].state \in 3..5 /\ room'[r].state \in {5, 6}
      \/ n <= 2 /\ (n = 2 => room[r].state \notin 3..5) /\ room'[r].state = 1
      \/ n > 2 /\ room'[r].state = room[r].state
  <2> DEFINE left == [room[r] EXCEPT !.actor_count = @ - 1]
             void == [left EXCEPT !.countdown = Nil]
             show == [void EXCEPT !.state = XUANPAI]
  <2>1. /\ left.actor_count = n - 1 /\ left.state = room[r].state
        /\ show.state = XUANPAI
    BY <1>1, <1>3, <1>4 DEF Room
  <2>2. n # 0
    <3>1. a \in Seated(r, player)
      BY <1>1 DEF Seated
    <3>2. QED
      BY <3>1, SeatedFinite, FS_EmptySet DEF n
  <2>3. \/ left.actor_count = 1 /\ left.state \in 3..5 /\ Showdown(r, show, ps)
        \/ /\ \/ left.actor_count = 0
              \/ left.actor_count = 1 /\ left.state \notin 3..5
           /\ Set(r, Entering(void, NULL), ps)
        \/ left.actor_count \notin {0, 1} /\ Set(r, left, ps)
    BY DEF Exit
  <2> HIDE DEF left, show, void, r, ps
  <2>4. CASE left.actor_count = 1 /\ left.state \in 3..5 /\ Showdown(r, show, ps)
    BY <1>1, <1>4, <2>1, <2>4, StateAfter
  <2>5. CASE /\ \/ left.actor_count = 0
                \/ left.actor_count = 1 /\ left.state \notin 3..5
             /\ Set(r, Entering(void, NULL), ps)
    BY <1>1, <1>4, <2>1, <2>5, StateAfter
  <2>6. CASE left.actor_count \notin {0, 1} /\ Set(r, left, ps)
    BY <1>1, <1>3, <1>4, <2>1, <2>2, <2>6 DEF Set
  <2>7. QED
    BY <2>3, <2>4, <2>5, <2>6
<1>6. \A s \in Rooms :
        Seated(s, player') = IF s = r THEN Seated(s, player) \ {a} ELSE Seated(s, player)
  <2>1. \A s \in Rooms : Seated(s, player') = Seated(s, ps)
    BY <1>2, MovesKeepSeats DEF Outcome
  <2>2. \A s \in Rooms : Seated(s, ps) =
          IF s = r THEN Seated(s, player) \ {a} ELSE Seated(s, player)
    BY <1>1 DEF Seated
  <2>3. QED
    BY <2>1, <2>2
<1>7. seated' = [seated EXCEPT ![r] = @ \ {a}]
  BY <1>1, <1>6
<1>8. st' = [st EXCEPT ![r] = room'[r].state] /\ st[r] = room[r].state
  BY <1>1, <1>3
<1>9. a \in seated[r] /\ Cardinality(seated[r]) = n
  BY <1>1 DEF Seated, n
<1>10. room'[r].state = room[r].state => st' = st
  BY <1>8
<1>11. Tables!Leave(r, a)
  BY <1>5, <1>7, <1>8, <1>9, <1>10, SameCardinality DEF Tables!Leave
<1>12. QED
  BY <1>1, <1>11 DEF TableStep, Tables!Next

\* The empty rooms of create_room are empty tables.
LEMMA InitIsTableInit == Init => Tables!Init
BY DEF Init, Tables!Init, Seated, NULL

\* Every step of the rooms is a step of Table or leaves it alone.
LEMMA NextIsTableStep == IInv /\ [Next]_vars => TableStep
<1> SUFFICES ASSUME IInv, [Next]_vars PROVE TableStep
  OBVIOUS
<1>1. CASE UNCHANGED vars
  BY <1>1 DEF vars, TableStep, Tables!vars, Seated
<1>2. ASSUME NEW r \in Rooms, UpdateRoom(r) PROVE TableStep
  BY <1>2, UpdateRoomOutcome, UpdateRoomGoes, OutcomeIsTableStep
<1>3. ASSUME NEW a \in Actors, NEW type \in Types, Enter(a, type) PROVE TableStep
  BY <1>3, EnterIsTableStep
<1>4. ASSUME NEW a \in Actors, Exit(a) PROVE TableStep
  BY <1>4, ExitIsTableStep
<1>5. ASSUME NEW a \in Actors, Play(a) PROVE TableStep
  BY <1>5, PlayOutcome, PlayGoes, OutcomeIsTableStep
<1>6. QED
  BY <1>1, <1>2, <1>3, <1>4, <1>5 DEF Next, Update

\* Whoever enters, leaves, plays or fails, and however many rooms and seats
\* there are, the rooms change people and states only the way Table allows:
\* nobody sits in two rooms or in one that is full, a round starts with two, and
\* it ends in its order or when the last but one leaves.
THEOREM TableImplemented == Spec => ImplementsTable
BY InvariantHolds, InitIsTableInit, NextIsTableStep, PTL
DEF Spec, ImplementsTable, Tables!Spec, TableStep

-----------------------------------------------------------------------------
(* Who wins a round has strictly more than everybody else, for every deal  *)
(* of disjoint hands.                                                      *)

\* Two hands of a room have no card in common.
Apart(r, ps) ==
  \A a, b \in Playing(r, ps) :
    a # b /\ ps[a].cards # Nil /\ ps[b].cards # Nil =>
      ps[a].cards.vals \cap ps[b].cards.vals = {}

\* A paival ends in a card of the hand it is the value of.
OwnCard(p) == p.paival # Nil => p.cards # Nil /\ p.paival % 100 \in p.cards.vals

Dealt(r, ps) == Apart(r, ps) /\ \A a \in Playing(r, ps) : OwnCard(ps[a])

NoWinner(r, ps) == \A a \in Playing(r, ps) : ~ps[a].is_winner

Unvalued(r, ps) == \A a \in Playing(r, ps) : ps[a].paival = Nil

BestWins(r, ps) ==
  \A w, a \in Playing(r, ps) :
    ps[w].is_winner /\ a # w => ps[w].paival > ps[a].paival

\* What the rounds know of hands and winners.
Ranked(r, rm, ps) ==
  /\ Dealt(r, ps)
  /\ rm.state = WAITING => Unvalued(r, ps)
  /\ rm.state \in WAITING..XUANPAI => NoWinner(r, ps)
  /\ rm.state = JIESUAN => BestWins(r, ps)

AllRanked == \A r \in Rooms : Ranked(r, room[r], player)

-----------------------------------------------------------------------------
(* Changes that matter to no ranking *)

Alike(p, q) ==
  /\ q.room = p.room /\ q.cards = p.cards /\ q.paival = p.paival
  /\ q.is_winner = p.is_winner
  /\ q.member = OBSERVER <=> p.member = OBSERVER

\* Nobody has come, gone, or got other cards, another value or the victory.
Unranked(ps, qs) ==
  \A a \in Actors : /\ ps[a] = Nil <=> qs[a] = Nil
                    /\ ps[a] # Nil => Alike(ps[a], qs[a])

\* Such a change keeps everything Ranked says of the players.
LEMMA UnrankedKeeps ==
  ASSUME NEW r, NEW ps, NEW qs, Unranked(ps, qs)
  PROVE  /\ Dealt(r, ps) => Dealt(r, qs)
         /\ Unvalued(r, ps) => Unvalued(r, qs)
         /\ NoWinner(r, ps) => NoWinner(r, qs)
         /\ BestWins(r, ps) => BestWins(r, qs)
<1>1. Playing(r, qs) = Playing(r, ps)
  BY DEF Playing, Seated, Unranked, Alike
<1>2. \A a \in Playing(r, ps) :
        /\ qs[a].cards = ps[a].cards /\ qs[a].paival = ps[a].paival
        /\ qs[a].is_winner = ps[a].is_winner
  BY DEF Playing, Seated, Unranked, Alike
<1>3. Dealt(r, ps) => Dealt(r, qs)
  BY <1>1, <1>2 DEF Dealt, Apart, OwnCard
<1>4. QED
  BY <1>1, <1>2, <1>3 DEF Unvalued, NoWinner, BestWins

\* Fewer players are ranked as well.
LEMMA FewerKeep ==
  ASSUME NEW r, NEW rm, NEW ps, NEW qs, Ranked(r, rm, ps),
         Playing(r, qs) \subseteq Playing(r, ps),
         \A a \in Playing(r, qs) : qs[a] = ps[a]
  PROVE  Ranked(r, rm, qs)
<1>1. Dealt(r, qs)
  BY DEF Ranked, Dealt, Apart, OwnCard
<1>2. QED
  BY <1>1 DEF Ranked, Unvalued, NoWinner, BestWins

\* A choice, a bid, a bet: one actor changes.
LEMMA OneUnranked ==
  ASSUME IInv, NEW a \in Actors, player[a] # Nil, NEW q \in Player, Alike(player[a], q)
  PROVE  Unranked(player, [player EXCEPT ![a] = q])
BY NilIsNoPlayer DEF Unranked, Alike, IInv, TypeOK

-----------------------------------------------------------------------------
(* The transitions of goto_next_state *)

\* room' of a transition that sets the room.
LEMMA RoomSet ==
  ASSUME IInv, NEW r \in Rooms, NEW rm, NEW ps, Set(r, rm, ps)
  PROVE  room'[r] = rm /\ player' = ps
BY DEF Set, IInv, TypeOK

\* Enter handler of WAITING: no hands, no values, no winner.
LEMMA StartRoundRanked ==
  ASSUME IInv, NEW r \in Rooms, NEW rm, NEW ps, PlayersOK(ps), StartRound(r, rm, ps)
  PROVE  Ranked(r, room'[r], player')
<1>1. room'[r].state = WAITING
  BY RoomSet DEF StartRound, Entering
<1>2. \A a \in Actors :
        player'[a] = IF a \in Seated(r, ps)
                     THEN NewPlayer(r, ps[a].pos, PLAYER, 1)
                     ELSE ps[a]
  BY DEF StartRound, Set
<1>3. \A a \in Playing(r, player') : a \in Seated(r, ps)
  BY <1>2 DEF Playing, Seated
<1>4. \A a \in Playing(r, player') :
        player'[a] = NewPlayer(r, ps[a].pos, PLAYER, 1)
  BY <1>2, <1>3 DEF Playing, Seated
<1>5. ASSUME NEW a \in Playing(r, player')
      PROVE  /\ player'[a].cards = Nil /\ player'[a].paival = Nil
             /\ ~player'[a].is_winner
  <2>1. player'[a] = NewPlayer(r, ps[a].pos, PLAYER, 1)
    BY <1>4
  <2>2. QED
    BY <2>1 DEF NewPlayer
<1>6. Dealt(r, player')
  BY <1>5 DEF Dealt, Apart, OwnCard
<1>7. QED
  BY <1>1, <1>5, <1>6 DEF Ranked, Unvalued, NoWinner, WAITING, JIESUAN

\* Enter handler of QIANGZHUANG: hands of one deck.
LEMMA DealCardsRanked ==
  ASSUME IInv, NEW r \in Rooms, NEW rm, NEW ps, PlayersOK(ps),
         Unvalued(r, ps), NoWinner(r, ps), DealCards(r, rm, ps)
  PROVE  Ranked(r, room'[r], player')
<1>1. PICK deal \in Deals(Playing(r, ps)) :
        Set(r, Entering(rm, QIANGZHUANG),
            [a \in Actors |->
               IF a \in Playing(r, ps) THEN [ps[a] EXCEPT !.cards = deal[a]]
               ELSE ps[a]])
  BY DEF DealCards
<1>2. room'[r].state = QIANGZHUANG
  BY <1>1, RoomSet DEF Entering
<1>3. \A a \in Actors :
        player'[a] = IF a \in Playing(r, ps) THEN [ps[a] EXCEPT !.cards = deal[a]]
                     ELSE ps[a]
  BY <1>1 DEF Set
<1>4. \A a \in Playing(r, ps) : ps[a] \in Player
  BY DEF Playing, Seated, PlayersOK
<1>5. \A a \in Playing(r, ps) :
        /\ player'[a].cards = deal[a] /\ player'[a].paival = ps[a].paival
        /\ player'[a].is_winner = ps[a].is_winner
  BY <1>3, <1>4 DEF Player, Playing, Seated
<1>6. Playing(r, player') \subseteq Playing(r, ps)
  BY <1>3 DEF Playing, Seated
<1>7. Dealt(r, player')
  BY <1>5, <1>6 DEF Dealt, Apart, OwnCard, Deals, Unvalued
<1>8. NoWinner(r, player')
  BY <1>5, <1>6 DEF NoWinner
<1>9. QED
  BY <1>2, <1>7, <1>8 DEF Ranked, WAITING, QIANGZHUANG, JIESUAN

\* random_quang makes a player the master and changes nothing else of him.
LEMMA MasterUnranked ==
  ASSUME NEW r, NEW ps, PlayersOK(ps), NEW m \in Candidates(r, ps)
  PROVE  PlayersOK(MakeMaster(ps, m)) /\ Unranked(ps, MakeMaster(ps, m))
<1> DEFINE qs == MakeMaster(ps, m)
<1>1. m \in Actors /\ ps[m] \in Player /\ ps[m].member # OBSERVER
  BY CandidatesPlay DEF Playing, Seated, PlayersOK
<1>2. /\ qs[m] \in Player /\ Alike(ps[m], qs[m])
      /\ \A a \in Actors \ {m} : qs[a] = ps[a]
  BY <1>1 DEF MakeMaster, PlayersOK, Player, Alike, OBSERVER, PLAYER, MASTER
<1>3. Unranked(ps, qs)
  BY <1>1, <1>2, NilIsNoPlayer DEF Unranked, Alike
<1>4. QED
  BY <1>3, MasterStands

\* Enter handlers of XIAZHU and XUANPAI, and a failure.
LEMMA BettingUnranked ==
  ASSUME NEW r, NEW rm, NEW ps, PlayersOK(ps),
         \/ EnterXiazhu(r, rm, ps)
         \/ CloseBetting(r, rm, ps)
         \/ Fails(r, rm, ps)
  PROVE  Unranked(ps, player')
<1>1. \A a \in Playing(r, ps) : ps[a] \in Player
  BY DEF Playing, Seated, PlayersOK
<1>2. CASE EnterXiazhu(r, rm, ps)
  BY <1>1, <1>2, NilIsNoPlayer DEF EnterXiazhu, Set, Unranked, Alike, Player
<1>3. CASE CloseBetting(r, rm, ps)
  <2>1. \A a \in Actors :
          \/ player'[a] = ps[a]
          \/ a \in Playing(r, ps) /\ player'[a] = Bet(ps[a], MinRatio)
    BY <1>3 DEF CloseBetting, Set
  <2>2. ASSUME NEW p \in Player
        PROVE  Bet(p, MinRatio) \in Player /\ Alike(p, Bet(p, MinRatio))
    <3>1. Bet(p, MinRatio).paival = p.paival
      BY DEF Bet, Player
    <3>2. QED
      BY <3>1, BetPlayer, RatiosAssumption DEF Alike
  <2>3. \A p : Alike(p, p)
    BY DEF Alike
  <2>4. QED
    BY <1>1, <2>1, <2>2, <2>3, NilIsNoPlayer DEF Unranked
<1>4. CASE Fails(r, rm, ps)
  BY <1>4 DEF Fails, Set, Unranked, Alike
<1>5. QED
  BY <1>2, <1>3, <1>4

\* Exit handlers of QIANGZHUANG and XIAZHU lead to states of the same round.
LEMMA BettingRanked ==
  ASSUME IInv, NEW r \in Rooms, NEW rm, NEW ps, PlayersOK(ps),
         rm.state \in QIANGZHUANG..XUANPAI, Dealt(r, ps), NoWinner(r, ps),
         \/ LeaveQiangzhuang(r, rm, ps)
         \/ CloseBetting(r, rm, ps)
         \/ Fails(r, rm, ps)
  PROVE  Ranked(r, room'[r], player')
<1> USE DEF WAITING, QIANGZHUANG, XIAZHU, XUANPAI, JIESUAN
<1>1. ASSUME NEW qs, EnterXiazhu(r, rm, qs) PROVE room'[r].state = XIAZHU
  BY <1>1, RoomSet DEF EnterXiazhu, Entering
<1>2. CloseBetting(r, rm, ps) => room'[r].state = XUANPAI
  BY RoomSet DEF CloseBetting, Entering
<1>3. Fails(r, rm, ps) => room'[r] = rm
  BY RoomSet DEF Fails
<1>4. room'[r].state \in QIANGZHUANG..XUANPAI
  BY <1>1, <1>2, <1>3 DEF LeaveQiangzhuang
<1>5. Dealt(r, player') /\ NoWinner(r, player')
  <2>1. CASE EnterXiazhu(r, rm, ps) \/ CloseBetting(r, rm, ps) \/ Fails(r, rm, ps)
    BY <2>1, BettingUnranked, UnrankedKeeps
  <2>2. ASSUME NEW m \in Candidates(r, ps), EnterXiazhu(r, rm, MakeMaster(ps, m))
        PROVE  Dealt(r, player') /\ NoWinner(r, player')
    <3> DEFINE qs == MakeMaster(ps, m)
    <3>1. PlayersOK(qs) /\ Unranked(ps, qs)
      BY MasterUnranked
    <3>2. EnterXiazhu(r, rm, qs)
      BY <2>2
    <3> HIDE DEF qs
    <3>3. Dealt(r, qs) /\ NoWinner(r, qs)
      BY <3>1, UnrankedKeeps
    <3>4. QED
      BY <3>1, <3>2, <3>3, BettingUnranked, UnrankedKeeps
  <2>3. QED
    BY <2>1, <2>2 DEF LeaveQiangzhuang
<1>6. QED
  BY <1>4, <1>5 DEF Ranked

\* Exit handler of XUANPAI: who has not chosen is worth his highest card.
LEMMA ShownDealt ==
  ASSUME NEW r, NEW ps, PlayersOK(ps), Dealt(r, ps), NoWinner(r, ps),
         \A a \in Playing(r, ps) : ps[a].cards # Nil
  PROVE  LET qs == Shown(r, ps)
         IN  PlayersOK(qs) /\ Dealt(r, qs) /\ NoWinner(r, qs)
<1> DEFINE qs == Shown(r, ps)
<1>1. \A a \in Actors \ Playing(r, ps) : qs[a] = ps[a]
  BY DEF Shown
<1>2. ASSUME NEW a \in Playing(r, ps)
      PROVE  /\ qs[a] \in Player
             /\ qs[a].room = ps[a].room /\ qs[a].member = ps[a].member
             /\ qs[a].cards = ps[a].cards /\ qs[a].is_winner = ps[a].is_winner
             /\ OwnCard(qs[a])
  <2>1. a \in Actors /\ ps[a] \in Player /\ ps[a].cards \in Hands
    BY <1>2 DEF Playing, Seated, PlayersOK, Player
  <2>2. CASE ps[a].recv_xuanpai
    BY <1>2, <2>1, <2>2 DEF Shown, Dealt
  <2>3. CASE ~ps[a].recv_xuanpai
    <3> DEFINE v == ps[a].cards.max_val
    <3>1. v \in ps[a].cards.vals /\ v \in 1..52
      BY <2>1, HandsAssumption
    <3>2. v % 100 = v /\ v \in Paivals
      BY <3>1 DEF Paivals
    <3>3. qs[a] = [ps[a] EXCEPT !.paival = v]
      BY <1>2, <2>1, <2>3 DEF Shown
    <3> HIDE DEF v, qs
    <3>4. /\ qs[a] \in Player /\ qs[a].paival = v
          /\ qs[a].room = ps[a].room /\ qs[a].member = ps[a].member
          /\ qs[a].cards = ps[a].cards /\ qs[a].is_winner = ps[a].is_winner
      BY <2>1, <3>2, <3>3 DEF Player
    <3>5. QED
      BY <1>2, <3>1, <3>2, <3>4 DEF OwnCard
  <2>4. QED
    BY <2>2, <2>3
<1>3. qs = [a \in Actors |-> qs[a]]
  BY DEF Shown
<1> HIDE DEF qs
<1>4. PlayersOK(qs)
  BY <1>1, <1>2, <1>3 DEF PlayersOK
<1>5. Playing(r, qs) = Playing(r, ps)
  BY <1>1, <1>2, NilIsNoPlayer DEF Playing, Seated
<1>6. Dealt(r, qs) /\ NoWinner(r, qs)
  BY <1>2, <1>5 DEF Dealt, Apart, NoWinner
<1>7. QED
  BY <1>4, <1>6 DEF qs

\* No two hands of a round are worth the same.
LEMMA ValuesDiffer ==
  ASSUME NEW r, NEW ps, PlayersOK(ps), Dealt(r, ps),
         NEW w \in Winners(r, ps), NEW a \in Playing(r, ps), a # w,
         CanRank(r, ps)
  PROVE  ps[w].paival > ps[a].paival
<1>1. w \in Playing(r, ps) /\ ps[w].paival >= ps[a].paival
  BY DEF Winners
<1>2. ps[w].paival # Nil /\ ps[a].paival # Nil
  BY <1>1 DEF CanRank
<1>3. ps[w].paival \in Nat /\ ps[a].paival \in Nat
  <2>1. ps[w] \in Player /\ ps[a] \in Player
    BY <1>1 DEF Playing, Seated, PlayersOK
  <2>2. QED
    BY <1>2, <2>1 DEF Player, Paivals
<1>4. /\ ps[w].paival % 100 \in ps[w].cards.vals
      /\ ps[a].paival % 100 \in ps[a].cards.vals
      /\ ps[w].cards.vals \cap ps[a].cards.vals = {}
  BY <1>1, <1>2 DEF Dealt, Apart, OwnCard
<1>5. ps[w].paival # ps[a].paival
  BY <1>4
<1>6. QED
  BY <1>1, <1>3, <1>5

\* The settlement: whoever is sorted first has strictly more than the others,
\* or nobody is a winner.
LEMMA ShowdownRanked ==
  ASSUME IInv, NEW r \in Rooms, NEW rm, NEW ps, PlayersOK(ps),
         rm.state = XUANPAI, Dealt(r, ps), NoWinner(r, ps),
         \A a \in Playing(r, ps) : ps[a].cards # Nil,
         Showdown(r, rm, ps)
  PROVE  Ranked(r, room'[r], player')
<1> USE DEF WAITING, QIANGZHUANG, XIAZHU, XUANPAI, JIESUAN
<1> DEFINE qs == Shown(r, ps)
<1>1. PlayersOK(qs) /\ Dealt(r, qs) /\ NoWinner(r, qs)
  BY ShownDealt
<1>2. \/ /\ CanRank(r, qs)
         /\ \E w \in Winners(r, qs) :
              Set(r, Entering(rm, JIESUAN),
                  [qs EXCEPT ![w] = [@ EXCEPT !.is_winner = TRUE]])
      \/ Set(r, rm, qs)
  BY DEF Showdown
<1> HIDE DEF qs
<1>3. CASE Set(r, rm, qs)
  BY <1>1, <1>3, RoomSet DEF Ranked
<1>4. ASSUME CanRank(r, qs), NEW w \in Winners(r, qs),
             Set(r, Entering(rm, JIESUAN),
                 [qs EXCEPT ![w] = [@ EXCEPT !.is_winner = TRUE]])
      PROVE  Ranked(r, room'[r], player')
  <2>1. room'[r].state = JIESUAN
    BY <1>4, RoomSet DEF Entering
  <2>2. w \in Playing(r, qs) /\ w \in Actors /\ qs[w] \in Player
    BY <1>1 DEF Winners, Playing, Seated, PlayersOK
  <2>3. /\ player'[w] = [qs[w] EXCEPT !.is_winner = TRUE]
        /\ \A a \in Actors \ {w} : player'[a] = qs[a]
    BY <1>1, <1>4, <2>2 DEF Set, PlayersOK
  <2>4. /\ player'[w] \in Player
        /\ player'[w].room = qs[w].room /\ player'[w].member = qs[w].member
        /\ player'[w].cards = qs[w].cards /\ player'[w].paival = qs[w].paival
    BY <2>2, <2>3 DEF Player
  <2>5. Playing(r, player') = Playing(r, qs)
    BY <2>2, <2>3, <2>4, NilIsNoPlayer DEF Playing, Seated
  <2>6. \A a \in Playing(r, qs) :
          player'[a].cards = qs[a].cards /\ player'[a].paival = qs[a].paival
    BY <2>3, <2>4 DEF Playing, Seated
  <2>7. Dealt(r, player')
    BY <1>1, <2>5, <2>6 DEF Dealt, Apart, OwnCard
  <2>8. BestWins(r, player')
    <3> SUFFICES ASSUME NEW v \in Playing(r, qs), NEW a \in Playing(r, qs),
                        player'[v].is_winner, a # v
                 PROVE  player'[v].paival > player'[a].paival
      BY <2>5 DEF BestWins
    <3>1. v = w
      BY <1>1, <2>3 DEF NoWinner, Playing, Seated
    <3>2. QED
      BY <3>1, <1>1, <1>4, <2>6, ValuesDiffer
  <2>9. QED
    BY <2>1, <2>7, <2>8 DEF Ranked
<1>5. QED
  BY <1>2, <1>3, <1>4

-----------------------------------------------------------------------------
(* The handlers *)

\* Ranked asks of a room for its state only.
LEMMA RankedByState ==
  ASSUME NEW r, NEW rm, NEW qm, NEW ps, Ranked(r, rm, ps),
         qm.state = rm.state \/ qm.state = NULL
  PROVE  Ranked(r, qm, ps)
BY DEF Ranked, NULL, WAITING, XUANPAI, JIESUAN

\* A handler changes the ranks of its own room only.
LEMMA RankedElsewhere ==
  ASSUME IInv, AllRanked, NEW r \in Rooms, NEW ps, Outcome(r, ps),
         \A a \in Actors :
           \/ ps[a] = player[a]
           \/ ps[a] = Nil /\ player[a] # Nil /\ player[a].room = r,
         Ranked(r, room'[r], player')
  PROVE  AllRanked'
<1> SUFFICES ASSUME NEW s \in Rooms, s # r PROVE Ranked(s, room'[s], player')
  BY DEF AllRanked
<1>1. room'[s] = room[s]
  BY DEF Outcome, IInv, TypeOK
<1>2. \A a \in Playing(s, player') : a \in Playing(s, player) /\ player'[a] = player[a]
  BY DEF Outcome, Moves, Playing, Seated
<1>3. QED
  BY <1>1, <1>2, FewerKeep DEF AllRanked

\* A second of a room.
LEMMA UpdateRoomRanked ==
  ASSUME IInv, AllRanked, NEW r \in Rooms, UpdateRoom(r)
  PROVE  AllRanked'
<1> USE DEF NULL, WAITING, QIANGZHUANG, XIAZHU, XUANPAI, JIESUAN
<1>1. /\ PlayersOK(player) /\ Ranked(r, room[r], player) /\ room[r] \in Room
      /\ EquippedIn(r, room[r], player) /\ StallIn(r, room[r], player)
  BY DEF IInv, TypeOK, PlayersOK, AllRanked, Sound, Fit
<1>2. ASSUME Expire(r) PROVE Ranked(r, room'[r], player')
  <2> DEFINE rm == [room[r] EXCEPT !.countdown = Nil]
  <2>1. rm.state = room[r].state
    BY <1>1 DEF Room
  <2>2. Advance(r, rm, player) /\ rm.state # NULL
    BY <1>1, <1>2, <2>1 DEF Expire, StallIn
  <2> HIDE DEF rm
  <2>3. CASE rm.state = WAITING /\ DealCards(r, rm, player)
    BY <1>1, <2>1, <2>3, DealCardsRanked DEF Ranked
  <2>4. CASE \/ rm.state = QIANGZHUANG /\ LeaveQiangzhuang(r, rm, player)
             \/ rm.state = XIAZHU /\ CloseBetting(r, rm, player)
    BY <1>1, <2>1, <2>4, BettingRanked DEF Ranked
  <2>5. CASE rm.state = XUANPAI /\ Showdown(r, rm, player)
    BY <1>1, <2>1, <2>5, ShowdownRanked DEF Ranked, EquippedIn
  <2>6. CASE StartRound(r, Entering(rm, NULL), player)
    BY <1>1, <2>6, StartRoundRanked
  <2>7. CASE Set(r, Entering(rm, NULL), player)
    <3>1. room'[r].state = NULL /\ player' = player
      BY <2>7, RoomSet DEF Entering
    <3>2. QED
      BY <3>1, <1>1, RankedByState
  <2>8. QED
    BY <2>2, <2>3, <2>4, <2>5, <2>6, <2>7 DEF Advance
<1>3. ASSUME CountDown(r) \/ Rest(r) PROVE Ranked(r, room'[r], player')
  <2>1. room'[r].state = room[r].state /\ player' = player
    BY <1>1, <1>3, RoomSet DEF CountDown, Rest, Room
  <2>2. QED
    BY <2>1, <1>1, RankedByState
<1>4. ASSUME Begin(r) PROVE Ranked(r, room'[r], player')
  BY <1>1, <1>4, StartRoundRanked DEF Begin
<1>5. QED
  BY <1>2, <1>3, <1>4, UpdateRoomOutcome, RankedElsewhere DEF UpdateRoom

\* Whoever comes in is an observer.
LEMMA EnterRanked ==
  ASSUME IInv, AllRanked, NEW a \in Actors, NEW type, Enter(a, type)
  PROVE  AllRanked'
<1>1. PICK r \in Open(type) : \E i \in Free(r) :
        /\ player' = [player EXCEPT ![a] = NewPlayer(r, i, OBSERVER, Nil)]
        /\ room' = [room EXCEPT ![r].actor_count = @ + 1]
  BY DEF Enter
<1>2. PICK i \in Free(r) :
        player' = [player EXCEPT ![a] = NewPlayer(r, i, OBSERVER, Nil)]
  BY <1>1
<1>3. player'[a].member = OBSERVER /\ \A b \in Actors \ {a} : player'[b] = player[b]
  BY <1>2 DEF NewPlayer, IInv, TypeOK
<1>4. \A s \in Rooms : room'[s].state = room[s].state
  BY <1>1 DEF IInv, TypeOK, Room
<1>5. ASSUME NEW s \in Rooms PROVE Ranked(s, room'[s], player')
  <2>1. Playing(s, player') \subseteq Playing(s, player)
    BY <1>3 DEF Playing, Seated
  <2>2. \A b \in Playing(s, player') : player'[b] = player[b]
    BY <1>3 DEF Playing, Seated
  <2>3. Ranked(s, room[s], player')
    BY <2>1, <2>2, FewerKeep DEF AllRanked
  <2>4. QED
    BY <1>4, <2>3, RankedByState
<1>6. QED
  BY <1>5 DEF AllRanked

\* exit_room.
LEMMA ExitRanked ==
  ASSUME IInv, AllRanked, NEW a \in Actors, Exit(a)
  PROVE  AllRanked'
<1> USE DEF NULL, WAITING, QIANGZHUANG, XIAZHU, XUANPAI, JIESUAN
<1> DEFINE r    == player[a].room
           ps   == [player EXCEPT ![a] = Nil]
           left == [room[r] EXCEPT !.actor_count = @ - 1]
           void == [left EXCEPT !.countdown = Nil]
           show == [void EXCEPT !.state = XUANPAI]
<1>1. /\ player[a] # Nil /\ r \in Rooms /\ PlayersOK(ps) /\ ps[a] = Nil
      /\ \A b \in Actors \ {a} : ps[b] = player[b]
  BY LeavingSound DEF Exit
<1>2. Outcome(r, ps)
  BY ExitOutcome
<1>3. /\ room[r] \in Room /\ EquippedIn(r, room[r], player)
      /\ Ranked(r, room[r], player)
  BY <1>1 DEF IInv, TypeOK, AllRanked, Sound, Fit
<1>4. left.state = room[r].state /\ show.state = XUANPAI
  BY <1>3 DEF Room
<1>5. \/ left.state \in QIANGZHUANG..XUANPAI /\ Showdown(r, show, ps)
      \/ Set(r, Entering(void, NULL), ps)
      \/ Set(r, left, ps)
  BY DEF Exit
<1> HIDE DEF r, ps, left, show, void
<1>6. \A b \in Playing(r, ps) : b \in Playing(r, player) /\ ps[b] = player[b]
  BY <1>1 DEF Playing, Seated
<1>7. Ranked(r, room[r], ps)
  BY <1>3, <1>6, FewerKeep
<1>8. CASE left.state \in QIANGZHUANG..XUANPAI /\ Showdown(r, show, ps)
  <2>1. \A b \in Playing(r, ps) : ps[b].cards # Nil
    BY <1>3, <1>4, <1>6, <1>8 DEF EquippedIn
  <2>2. Dealt(r, ps) /\ NoWinner(r, ps)
    BY <1>4, <1>7, <1>8 DEF Ranked
  <2>3. Ranked(r, room'[r], player')
    BY <1>1, <1>4, <1>8, <2>1, <2>2, ShowdownRanked
  <2>4. QED
    BY <1>1, <1>2, <2>3, RankedElsewhere DEF r
<1>9. CASE Set(r, Entering(void, NULL), ps) \/ Set(r, left, ps)
  <2>1. /\ room'[r].state = room[r].state \/ room'[r].state = NULL
        /\ player' = ps
    BY <1>1, <1>4, <1>9, RoomSet DEF Entering
  <2>2. Ranked(r, room'[r], player')
    BY <1>7, <2>1, RankedByState
  <2>3. QED
    BY <1>1, <1>2, <2>2, RankedElsewhere DEF r
<1>10. QED
  BY <1>5, <1>8, <1>9

\* A choice is worth a card of the hand it is made from, or does not add up.
LEMMA ChosenIsOwn ==
  ASSUME IInv, NEW a \in Actors, XuanpaiNone(a) \/ XuanpaiTip(a) \/ Xuanpai(a)
  PROVE  /\ MayChoose(a)
         /\ \E v \in Paivals :
              /\ Choose(a, v)
              /\ player[a].cards # Nil /\ v # Nil => v % 100 \in player[a].cards.vals
<1>1. MayChoose(a)
  BY DEF XuanpaiNone, XuanpaiTip, Xuanpai
<1>2. player[a] \in Player
  BY <1>1 DEF MayChoose, Asked, IInv, TypeOK
<1>3. player[a].cards = Nil \/ player[a].cards \in Hands
  BY <1>2 DEF Player
<1>4. ASSUME NEW h \in Hands
      PROVE  /\ h.max_val \in Paivals /\ h.max_val % 100 \in h.vals
             /\ h.best \in Paivals /\ h.best % 100 \in h.vals
             /\ h.picks \subseteq Paivals
             /\ \A v \in h.picks \ {Nil} : v % 100 \in h.vals
  <2>1. h.max_val \in h.vals /\ h.max_val \in 1..52
    BY HandsAssumption
  <2>2. h.max_val % 100 = h.max_val /\ h.max_val \in Nat
    BY <2>1
  <2>3. QED
    BY <2>1, <2>2, HandsAssumption DEF Paivals
<1>5. Nil \in Paivals /\ NoCardsPaival \in Paivals
  BY DEF Paivals, NoCardsPaival
<1>6. CASE XuanpaiNone(a)
  BY <1>1, <1>3, <1>4, <1>5, <1>6 DEF XuanpaiNone
<1>7. CASE XuanpaiTip(a)
  BY <1>1, <1>3, <1>4, <1>5, <1>7 DEF XuanpaiTip
<1>8. CASE Xuanpai(a)
  BY <1>1, <1>3, <1>4, <1>8 DEF Xuanpai
<1>9. QED
  BY <1>6, <1>7, <1>8

\* The choice recorded: hands apart, values honest, no winner yet.
LEMMA ChosenDealt ==
  ASSUME IInv, AllRanked, NEW a \in Actors, NEW v \in Paivals,
         player[a].cards # Nil /\ v # Nil => v % 100 \in player[a].cards.vals,
         MayChoose(a)
  PROVE  LET r  == player[a].room
             ps == [player EXCEPT ![a] = Choice(player[a], v)]
         IN  /\ PlayersOK(ps) /\ Dealt(r, ps) /\ NoWinner(r, ps)
             /\ \A b \in Playing(r, ps) : ps[b].cards # Nil /\ ps[b].ratio # Nil
<1> USE DEF WAITING, QIANGZHUANG, XIAZHU, XUANPAI, JIESUAN
<1> DEFINE r  == player[a].room
           q  == Choice(player[a], v)
           ps == [player EXCEPT ![a] = q]
<1>1. player[a] # Nil /\ player[a] \in Player /\ room[r].state = XUANPAI
  BY DEF MayChoose, Asked, IInv, TypeOK
<1>2. r \in Rooms /\ room[r] \in Room
  BY <1>1 DEF Player, IInv, TypeOK
<1>3. EquippedIn(r, room[r], player) /\ Ranked(r, room[r], player)
  BY <1>2 DEF AllRanked, IInv, Sound, Fit
<1>4. /\ q \in Player /\ q.room = r /\ q.member = player[a].member
      /\ q.cards = player[a].cards /\ q.is_winner = player[a].is_winner
      /\ q.ratio = player[a].ratio /\ q.paival = v
  BY <1>1 DEF Choice, Player
<1>5. /\ PlayersOK(ps) /\ ps[a] = q
      /\ \A b \in Actors \ {a} : ps[b] = player[b]
  BY <1>4 DEF PlayersOK, IInv, TypeOK
<1> HIDE DEF r, q, ps
<1>6. Playing(r, ps) = Playing(r, player)
  BY <1>1, <1>4, <1>5, NilIsNoPlayer DEF Playing, Seated, r
<1>7. \A b \in Playing(r, ps) :
        /\ ps[b].cards = player[b].cards /\ ps[b].is_winner = player[b].is_winner
        /\ ps[b].ratio = player[b].ratio
  BY <1>4, <1>5 DEF Playing, Seated
<1>8. \A b \in Playing(r, ps) : ps[b].cards # Nil /\ ps[b].ratio # Nil
  BY <1>1, <1>3, <1>6, <1>7 DEF EquippedIn
<1>9. \A b \in Playing(r, ps) : OwnCard(ps[b])
  <2>1. ASSUME NEW b \in Playing(r, ps), b # a PROVE OwnCard(ps[b])
    BY <1>3, <1>5, <1>6, <2>1 DEF Ranked, Dealt, Playing, Seated
  <2>2. a \in Playing(r, ps) => OwnCard(ps[a])
    BY <1>4, <1>5, <1>8 DEF OwnCard
  <2>3. QED
    BY <2>1, <2>2
<1>10. Dealt(r, ps) /\ NoWinner(r, ps)
  BY <1>1, <1>3, <1>6, <1>7, <1>9 DEF Ranked, Dealt, Apart, NoWinner
<1>11. QED
  BY <1>5, <1>8, <1>10 DEF ps, q, r

\* The three messages of XUANPAI.
LEMMA ChooseRanked ==
  ASSUME IInv, AllRanked, NEW a \in Actors, NEW v \in Paivals,
         player[a].cards # Nil /\ v # Nil => v % 100 \in player[a].cards.vals,
         MayChoose(a), Choose(a, v)
  PROVE  Ranked(player[a].room, room'[player[a].room], player')
<1> DEFINE r  == player[a].room
           ps == [player EXCEPT ![a] = Choice(player[a], v)]
<1>1. player[a] \in Player /\ room[r].state = XUANPAI
  BY DEF MayChoose, Asked, IInv, TypeOK
<1>2. r \in Rooms
  BY <1>1 DEF Player
<1>3. /\ PlayersOK(ps) /\ Dealt(r, ps) /\ NoWinner(r, ps)
      /\ \A b \in Playing(r, ps) : ps[b].cards # Nil
  BY ChosenDealt
<1>4. Wait(ps) \/ Showdown(r, room[r], ps)
  BY DEF Choose
<1> HIDE DEF r, ps
<1>5. CASE Wait(ps)
  BY <1>1, <1>3, <1>5 DEF Wait, Ranked, r, WAITING, QIANGZHUANG, XUANPAI, JIESUAN
<1>6. CASE Showdown(r, room[r], ps)
  BY <1>1, <1>2, <1>3, <1>6, ShowdownRanked DEF r
<1>7. QED
  BY <1>4, <1>5, <1>6

\* A choice q of actor a that changes no ranking, recorded before the handler
\* goes on in the middle of a round.
LEMMA RecordedDealt ==
  ASSUME IInv, AllRanked, NEW a \in Actors, player[a] # Nil,
         NEW q \in Player, Alike(player[a], q),
         room[player[a].room].state \in QIANGZHUANG..XUANPAI
  PROVE  LET r  == player[a].room
             ps == [player EXCEPT ![a] = q]
         IN  r \in Rooms /\ PlayersOK(ps) /\ Dealt(r, ps) /\ NoWinner(r, ps)
<1> DEFINE r  == player[a].room
           ps == [player EXCEPT ![a] = q]
<1>1. r \in Rooms
  BY DEF Player, IInv, TypeOK
<1>2. Dealt(r, player) /\ NoWinner(r, player)
  BY <1>1 DEF AllRanked, Ranked, WAITING, QIANGZHUANG, XUANPAI
<1>3. Unranked(player, ps)
  BY OneUnranked
<1>4. PlayersOK(ps)
  BY DEF PlayersOK, IInv, TypeOK
<1> HIDE DEF ps, r
<1>5. Dealt(r, ps) /\ NoWinner(r, ps)
  BY <1>2, <1>3, UnrankedKeeps
<1>6. QED
  BY <1>1, <1>4, <1>5 DEF ps, r

\* The messages of an actor.
LEMMA PlayRanked ==
  ASSUME IInv, AllRanked, NEW a \in Actors, Play(a)
  PROVE  AllRanked'
<1> USE DEF WAITING, QIANGZHUANG, XIAZHU, XUANPAI, JIESUAN
<1> DEFINE r == player[a].room
<1>1. r \in Rooms /\ Outcome(r, player)
  BY PlayOutcome
<1>2. ASSUME player[a] # Nil PROVE player[a] \in Player
  BY <1>2 DEF IInv, TypeOK
<1>3. Ranked(r, room[r], player)
  BY <1>1 DEF AllRanked
<1>4. ASSUME NEW ps, Wait(ps), Dealt(r, ps), NoWinner(r, ps),
             room[r].state \in QIANGZHUANG..XUANPAI
      PROVE  Ranked(r, room'[r], player')
  BY <1>4 DEF Wait, Ranked
<1>5. ASSUME NEW is_master \in Bids, Qiangzhuang(a, is_master)
      PROVE  Ranked(r, room'[r], player')
  <2> DEFINE q  == Bid(player[a], is_master)
             ps == [player EXCEPT ![a] = q]
  <2>1. player[a] # Nil /\ player[a] \in Player /\ room[r].state = QIANGZHUANG
    BY <1>2, <1>5 DEF Qiangzhuang, Asked
  <2>2. q \in Player /\ Alike(player[a], q)
    BY <2>1 DEF Bid, Player, Alike
  <2>3. PlayersOK(ps) /\ Dealt(r, ps) /\ NoWinner(r, ps)
    BY <2>1, <2>2, RecordedDealt
  <2>4. \/ Wait(ps) \/ Fails(r, room[r], ps)
        \/ \E m \in Candidates(r, ps) : LeaveQiangzhuang(r, room[r], MakeMaster(ps, m))
    BY <1>5 DEF Qiangzhuang
  <2> HIDE DEF q, ps, r
  <2>5. ASSUME NEW m \in Candidates(r, ps), LeaveQiangzhuang(r, room[r], MakeMaster(ps, m))
        PROVE  Ranked(r, room'[r], player')
    <3>1. PlayersOK(MakeMaster(ps, m)) /\ Unranked(ps, MakeMaster(ps, m))
      BY <2>3, MasterUnranked
    <3>2. Dealt(r, MakeMaster(ps, m)) /\ NoWinner(r, MakeMaster(ps, m))
      BY <2>3, <3>1, UnrankedKeeps
    <3>3. QED
      BY <1>1, <2>1, <2>5, <3>1, <3>2, BettingRanked
  <2>6. CASE Wait(ps)
    BY <1>4, <2>1, <2>3, <2>6
  <2>7. CASE Fails(r, room[r], ps)
    BY <1>1, <2>1, <2>3, <2>7, BettingRanked
  <2>8. QED
    BY <2>4, <2>5, <2>6, <2>7
<1>6. ASSUME NEW ratio \in Ratios, Xiazhu(a, ratio)
      PROVE  Ranked(r, room'[r], player')
  <2> DEFINE q  == Bet(player[a], ratio)
             ps == [player EXCEPT ![a] = q]
  <2>1. player[a] # Nil /\ player[a] \in Player /\ room[r].state = XIAZHU
    BY <1>2, <1>6 DEF Xiazhu, Asked
  <2>2. q.paival = player[a].paival
    BY <2>1 DEF Bet, Player
  <2>3. q \in Player /\ Alike(player[a], q)
    BY <2>1, <2>2, BetPlayer DEF Alike
  <2>4. PlayersOK(ps) /\ Dealt(r, ps) /\ NoWinner(r, ps)
    BY <2>1, <2>3, RecordedDealt
  <2>5. Wait(ps) \/ CloseBetting(r, room[r], ps)
    BY <1>6 DEF Xiazhu
  <2> HIDE DEF q, ps, r
  <2>6. QED
    BY <1>1, <1>4, <2>1, <2>4, <2>5, BettingRanked
<1>7. ASSUME XiazhuFails(a)
      PROVE  Ranked(r, room'[r], player')
  BY <1>3, <1>7 DEF XiazhuFails
<1>8. ASSUME XuanpaiNone(a) \/ XuanpaiTip(a) \/ Xuanpai(a)
      PROVE  Ranked(r, room'[r], player')
  BY <1>8, ChosenIsOwn, ChooseRanked
<1>9. ASSUME XuanpaiFails(a)
      PROVE  Ranked(r, room'[r], player')
  <2> DEFINE q  == [player[a] EXCEPT !.recv_xuanpai = TRUE]
             ps == [player EXCEPT ![a] = q]
  <2>1. player[a] # Nil /\ player[a] \in Player /\ room[r].state = XUANPAI
    BY <1>2, <1>9 DEF XuanpaiFails, MayChoose, Asked
  <2>2. q \in Player /\ Alike(player[a], q)
    BY <2>1 DEF Player, Alike
  <2>3. Fails(r, room[r], ps)
    BY <1>9 DEF XuanpaiFails
  <2> HIDE DEF q
  <2>4. PlayersOK(ps) /\ Dealt(r, ps) /\ NoWinner(r, ps)
    BY <2>1, <2>2, RecordedDealt
  <2> HIDE DEF ps, r
  <2>5. QED
    BY <1>1, <2>1, <2>3, <2>4, BettingRanked
<1>10. Ranked(r, room'[r], player')
  BY <1>5, <1>6, <1>7, <1>8, <1>9 DEF Play
<1>11. QED
  BY <1>1, <1>10, RankedElsewhere

-----------------------------------------------------------------------------
(* The theorem *)

\* Nobody has been dealt anything when the rooms are created.
LEMMA InitRanked == Init => AllRanked
BY DEF Init, AllRanked, Ranked, Dealt, Apart, Playing, Seated, Unvalued, NoWinner,
       BestWins

\* Every step keeps hands apart and values honest.
LEMMA NextRanked == IInv /\ AllRanked /\ [Next]_vars => AllRanked'
<1> SUFFICES ASSUME IInv, AllRanked, [Next]_vars PROVE AllRanked'
  OBVIOUS
<1>1. CASE UNCHANGED vars
  BY <1>1 DEF vars, AllRanked, Ranked, Dealt, Apart, Playing, Seated, Unvalued,
              NoWinner, BestWins
<1>2. ASSUME Update PROVE AllRanked'
  BY <1>2, UpdateRoomRanked DEF Update
<1>3. ASSUME NEW a \in Actors, NEW type \in Types, Enter(a, type) PROVE AllRanked'
  BY <1>3, EnterRanked
<1>4. ASSUME NEW a \in Actors, Exit(a) PROVE AllRanked'
  BY <1>4, ExitRanked
<1>5. ASSUME NEW a \in Actors, Play(a) PROVE AllRanked'
  BY <1>5, PlayRanked
<1>6. QED
  BY <1>1, <1>2, <1>3, <1>4, <1>5 DEF Next

\* Whoever wins a round has strictly more than everybody else who plays,
\* whatever is dealt, chosen or left to the countdown, and whoever leaves: the
\* sort of the exit handler of XUANPAI never has a tie to break.
THEOREM WinnerIsBestCorrect == Spec => []WinnerIsBest
<1>1. AllRanked => WinnerIsBest
  BY DEF AllRanked, Ranked, BestWins, WinnerIsBest
<1>2. QED
  BY <1>1, InvariantHolds, InitRanked, NextRanked, PTL DEF Spec

-----------------------------------------------------------------------------
(* Settlements balance *)

\* What a settlement of room r in this step must do.
Settles(r) ==
  room[r].state # JIESUAN /\ room'[r].state = JIESUAN =>
    \A w \in Playing(r, player') :
      player'[w].is_winner =>
        Total(Bettors(r, player') \cup {w}, score') =
          IF player'[w].member = MASTER THEN 0 ELSE MinScore * player'[w].ratio

Stake(p) == MinScore * p.ratio

\* The stakes are a sum, and each is a number.
LEMMA StakesAdd ==
  ASSUME NEW r, NEW ps, PlayersOK(ps), \A a \in Playing(r, ps) : ps[a].ratio # Nil
  PROVE  LET B == Bettors(r, ps)
             f == [a \in B |-> Stake(ps[a])]
         IN  /\ IsFiniteSet(B) /\ B \subseteq Playing(r, ps)
             /\ \A a \in B : f[a] \in Int
             /\ Stakes(r, ps) = SumOver(f, B)
<1> DEFINE B == Bettors(r, ps)
           f == [a \in B |-> Stake(ps[a])]
<1>1. B \subseteq Playing(r, ps) /\ B \subseteq Seated(r, ps) /\ B \subseteq Actors
  BY DEF Bettors, Playing, Seated
<1>2. IsFiniteSet(B)
  BY <1>1, ActorsAssumption, FS_Subset
<1>3. \A a \in B : ps[a].ratio \in Nat
  BY <1>1 DEF PlayersOK, Player, Playing, Seated
<1>4. \A a \in B : f[a] \in Int
  <2>1. ASSUME NEW a \in B PROVE f[a] \in Int
    <3>1. ps[a].ratio \in Nat /\ MinScore \in Nat
      BY <1>3, RatiosAssumption
    <3>2. \A n, m \in Nat : n * m \in Int
      OBVIOUS
    <3>3. Stake(ps[a]) \in Int
      BY <3>1, <3>2 DEF Stake
    <3> QED
      BY <3>3
  <2> QED
    BY <2>1
<1> DEFINE Fold(g) == [s \in SUBSET B |->
                         IF s = {} THEN 0
                         ELSE MinScore * ps[CHOOSE x \in s : TRUE].ratio
                              + g[s \ {CHOOSE x \in s : TRUE}]]
           it == CHOOSE g : g = Fold(g)
<1>5. Stakes(r, ps) = it[B]
  BY DEF Stakes, MapThenSumSet, MapThenFoldSet
<1>6. \A g : g = Fold(g) <=> Summing(g, f, B)
  <2>1. ASSUME NEW s \in SUBSET B, s # {}
        PROVE  MinScore * ps[CHOOSE x \in s : TRUE].ratio = f[Picked(s)]
    <3>1. Picked(s) \in B
      BY <2>1 DEF Picked
    <3> QED
      BY <3>1 DEF Picked, Stake
  <2>2. ASSUME NEW g
        PROVE  Fold(g) = [s \in SUBSET B |-> IF s = {} THEN 0 ELSE f[Picked(s)] + g[s \ {Picked(s)}]]
    <3> HIDE DEF f, B
    <3> QED
      BY <2>1 DEF Picked
  <2> HIDE DEF Fold
  <2> QED
    BY <2>2 DEF Summing
<1> HIDE DEF B, f, Fold
<1>7. PICK g : Summing(g, f, B) /\ SumOver(f, B) = g[B]
  BY <1>2, <1>4, SumOverIs
<1>8. Summing(it, f, B)
  <2>1. \E h : h = Fold(h)
    BY <1>6, <1>7
  <2>2. it = Fold(it)
    BY <2>1
  <2> QED
    BY <1>6, <2>2
<1> HIDE DEF it
<1>9. it[B] = g[B]
  BY <1>2, <1>7, <1>8, SummingSame
<1>10. QED
  BY <1>1, <1>2, <1>4, <1>5, <1>7, <1>9 DEF B, f

\* The sum of what a settlement writes: the winner gets what the others stake.
LEMMA SettlementAdds ==
  ASSUME NEW B, IsFiniteSet(B), NEW f, \A a \in B : f[a] \in Int, NEW w, NEW sc,
         sc[w] = SumOver(f, B), \A a \in B \ {w} : sc[a] = -f[a]
  PROVE  SumOver(sc, B \cup {w}) = IF w \in B THEN f[w] ELSE 0
<1> DEFINE R == B \ {w}
<1>1. /\ IsFiniteSet(R) /\ IsFiniteSet(B \cup {w}) /\ R \subseteq B
      /\ R \cup {w} = B \cup {w} /\ w \notin R
  BY FS_Subset, FS_AddElement
<1>2. SumOver(sc, R) = -SumOver(f, R)
  BY <1>1, SumOverNegates
<1>3. /\ SumOver(f, {}) = 0
      /\ \A s \in SUBSET B : SumOver(f, s) \in Int
      /\ \A s \in SUBSET B : \A x \in B \ s : SumOver(f, s \cup {x}) = f[x] + SumOver(f, s)
  BY SumOverAdds
<1>4. SumOver(f, B) \in Int /\ SumOver(f, R) \in Int
  BY <1>1, <1>3
<1>5. \A a \in R \cup {w} : sc[a] \in Int
  <2>1. \A a \in R : f[a] \in Int /\ sc[a] = -f[a]
    OBVIOUS
  <2> QED
    BY <1>4, <2>1
<1> HIDE DEF R
<1>6. SumOver(sc, R \cup {w}) = sc[w] + SumOver(sc, R)
  <2>1. IsFiniteSet(R \cup {w}) /\ R \in SUBSET (R \cup {w}) /\ w \in (R \cup {w}) \ R
    BY <1>1
  <2> QED
    BY <1>5, <2>1, SumOverAdds
<1>7. CASE w \in B
  <2>1. B = R \cup {w} /\ w \in B \ R /\ R \in SUBSET B
    BY <1>1, <1>7
  <2>2. SumOver(f, B) = f[w] + SumOver(f, R)
    BY <1>3, <2>1
  <2>3. f[w] \in Int
    BY <1>7
  <2>4. SumOver(sc, B \cup {w}) = f[w]
    <3>1. SumOver(sc, B \cup {w}) = SumOver(f, B) + SumOver(sc, R)
      BY <1>1, <1>6
    <3> QED
      BY <1>2, <1>4, <2>2, <2>3, <3>1
  <2>5. QED
    BY <1>7, <2>4
<1>8. CASE w \notin B
  <2>1. R = B
    BY <1>8 DEF R
  <2>2. SumOver(sc, B \cup {w}) = 0
    BY <1>1, <1>2, <1>4, <1>6, <2>1
  <2>3. QED
    BY <1>8, <2>2
<1>9. QED
  BY <1>7, <1>8

\* The exit handler of XUANPAI writes such a settlement.
LEMMA ShowdownSettles ==
  ASSUME IInv, NEW r \in Rooms, NEW rm, NEW ps, PlayersOK(ps), NoWinner(r, ps), Dealt(r, ps),
         \A a \in Playing(r, ps) : ps[a].cards # Nil /\ ps[a].ratio # Nil,
         rm.state # JIESUAN, Showdown(r, rm, ps)
  PROVE  Settles(r)
<1> DEFINE qs == Shown(r, ps)
           B  == Bettors(r, ps)
           f  == [a \in B |-> Stake(ps[a])]
<1>1. PlayersOK(qs) /\ NoWinner(r, qs)
  BY ShownDealt
<1>2. \A a \in Actors :
        /\ a \notin Playing(r, ps) => qs[a] = ps[a]
        /\ a \in Playing(r, ps) =>
             qs[a] \in Player /\ qs[a].room = ps[a].room /\ qs[a].member = ps[a].member
             /\ qs[a].ratio = ps[a].ratio
  <2>1. ASSUME NEW a \in Playing(r, ps) PROVE ps[a] \in Player /\ a \in Actors
    BY DEF Playing, Seated, PlayersOK
  <2>2. ASSUME NEW a \in Playing(r, ps)
        PROVE  /\ qs[a].room = ps[a].room /\ qs[a].member = ps[a].member
               /\ qs[a].ratio = ps[a].ratio /\ qs[a] # Nil
    <3>1. qs[a] = ps[a] \/ qs[a] = [ps[a] EXCEPT !.paival = ps[a].cards.max_val]
      BY <2>1 DEF Shown
    <3>2. qs[a] # Nil
      <4>1. qs[a] = Nil => ~(a \in Seated(r, qs))
        BY DEF Seated
      <4>2. qs[a] \in Player \cup {Nil}
        BY <1>1, <2>1 DEF PlayersOK
      <4>3. ps[a] # Nil /\ [ps[a] EXCEPT !.paival = ps[a].cards.max_val].room = ps[a].room
        BY <2>1, NilIsNoPlayer DEF Player
      <4>4. ps[a].cards \in Hands
        BY <2>1 DEF Player
      <4>5. ps[a].cards.max_val \in Paivals
        BY <4>4, HandsAssumption DEF Paivals
      <4>6. [ps[a] EXCEPT !.paival = ps[a].cards.max_val] \in Player
        BY <2>1, <4>5 DEF Player
      <4> QED
        BY <3>1, <4>3, <4>6, NilIsNoPlayer
    <3> QED
      BY <2>1, <3>1, <3>2 DEF Player
  <2>3. \A a \in Playing(r, ps) : qs[a] \in Player
    BY <1>1, <2>1, <2>2 DEF PlayersOK
  <2>4. \A a \in Actors : a \notin Playing(r, ps) => qs[a] = ps[a]
    BY DEF Shown
  <2> QED
    BY <2>2, <2>3, <2>4
<1>3. Playing(r, qs) = Playing(r, ps)
  BY <1>2, NilIsNoPlayer DEF Playing, Seated
<1>4. \/ \E w \in Winners(r, qs) :
           /\ Set(r, Entering(rm, JIESUAN), [qs EXCEPT ![w] = [@ EXCEPT !.is_winner = TRUE]])
           /\ score' = [a \in Actors |->
                CASE a = w -> Stakes(r, ps)
                  [] a \in B \ {w} -> -(MinScore * ps[a].ratio)
                  [] OTHER -> IF ps[a] = Nil THEN Nil ELSE score[a]]
      \/ Set(r, rm, qs)
  BY DEF Showdown
<1>5. /\ IsFiniteSet(B) /\ B \subseteq Playing(r, ps)
      /\ \A a \in B : f[a] \in Int
      /\ Stakes(r, ps) = SumOver(f, B)
  BY StakesAdd
<1>6. \A a \in B : f[a] = MinScore * ps[a].ratio
  BY DEF Stake
<1>7. \A a \in Playing(r, ps) : a \in B <=> ps[a].member # MASTER
  BY DEF Bettors
<1> HIDE DEF qs, f
<1>8. CASE Set(r, rm, qs)
  BY <1>8, RoomSet DEF Settles
<1>9. ASSUME NEW w \in Winners(r, qs),
             Set(r, Entering(rm, JIESUAN), [qs EXCEPT ![w] = [@ EXCEPT !.is_winner = TRUE]]),
             score' = [a \in Actors |->
                CASE a = w -> Stakes(r, ps)
                  [] a \in B \ {w} -> -(MinScore * ps[a].ratio)
                  [] OTHER -> IF ps[a] = Nil THEN Nil ELSE score[a]]
      PROVE  Settles(r)
  <2>1. w \in Playing(r, qs) /\ w \in Actors /\ qs[w] \in Player
    BY <1>1 DEF Winners, Playing, Seated, PlayersOK
  <2>2. /\ player'[w] = [qs[w] EXCEPT !.is_winner = TRUE]
        /\ \A a \in Actors \ {w} : player'[a] = qs[a]
    BY <1>1, <1>9, <2>1 DEF Set, PlayersOK
  <2>3. /\ player'[w] \in Player
        /\ player'[w].room = qs[w].room /\ player'[w].member = qs[w].member
        /\ player'[w].ratio = qs[w].ratio
    BY <2>1, <2>2 DEF Player
  <2>4. Playing(r, player') = Playing(r, ps)
    <3>1. Playing(r, player') = Playing(r, qs)
      BY <2>1, <2>2, <2>3, NilIsNoPlayer DEF Playing, Seated
    <3> QED
      BY <1>3, <3>1
  <2>5. \A a \in Playing(r, ps) :
          /\ player'[a].member = ps[a].member /\ player'[a].ratio = ps[a].ratio
          /\ player'[a].is_winner => a = w
    BY <1>1, <1>2, <1>3, <2>2, <2>3, ZenonT(60) DEF Playing, Seated, NoWinner
  <2>6. Bettors(r, player') = B
    BY <2>4, <2>5 DEF Bettors
  <2>7. \A a \in B : a \in Actors
    BY <1>5 DEF Playing, Seated
  <2>8. score'[w] = SumOver(f, B)
    BY <1>5, <1>9, <2>1
  <2>9. ASSUME NEW a \in B \ {w} PROVE score'[a] = -f[a]
    BY <1>6, <1>9, <2>7
  <2>10. SumOver(score', B \cup {w}) = IF w \in B THEN f[w] ELSE 0
    <3>1. PICK sc : sc = score'
      OBVIOUS
    <3>2. sc[w] = SumOver(f, B) /\ \A a \in B \ {w} : sc[a] = -f[a]
      BY <2>8, <2>9, <3>1
    <3>3. SumOver(sc, B \cup {w}) = IF w \in B THEN f[w] ELSE 0
      BY <1>5, <3>2, SettlementAdds
    <3> QED
      BY <3>1, <3>3
  <2>11. Total(B \cup {w}, score') = SumOver(score', B \cup {w})
    BY DEF Total, SumOver
  <2>12. IF w \in B THEN f[w] = MinScore * player'[w].ratio /\ player'[w].member # MASTER
         ELSE player'[w].member = MASTER
    BY <1>3, <1>6, <1>7, <2>1, <2>5
  <2> HIDE DEF B
  <2> QED
    BY <2>4, <2>5, <2>6, <2>10, <2>11, <2>12 DEF Settles
<1>10. QED
  BY <1>4, <1>8, <1>9

\* A step that takes the room to another state settles nothing.
LEMMA NotSettled ==
  ASSUME NEW r, room'[r].state # JIESUAN \/ room'[r].state = room[r].state
  PROVE  Settles(r)
BY DEF Settles

\* A handler settles its own room only.
LEMMA SettledElsewhere ==
  ASSUME IInv, NEW r \in Rooms, NEW ps, Outcome(r, ps), Settles(r)
  PROVE  \A s \in Rooms : Settles(s)
<1> SUFFICES ASSUME NEW s \in Rooms, s # r PROVE Settles(s)
  OBVIOUS
<1>1. room'[s] = room[s]
  BY DEF Outcome, IInv, TypeOK
<1>2. QED
  BY <1>1, NotSettled

\* A second of a room.
LEMMA UpdateRoomSettles ==
  ASSUME IInv, AllRanked, NEW r \in Rooms, UpdateRoom(r)
  PROVE  \A s \in Rooms : Settles(s)
<1> USE DEF NULL, WAITING, QIANGZHUANG, XIAZHU, XUANPAI, JIESUAN
<1>1. /\ PlayersOK(player) /\ Ranked(r, room[r], player) /\ room[r] \in Room
      /\ EquippedIn(r, room[r], player)
  BY DEF IInv, TypeOK, PlayersOK, AllRanked, Sound, Fit
<1>2. ASSUME Expire(r) PROVE Settles(r)
  <2> DEFINE rm == [room[r] EXCEPT !.countdown = Nil]
  <2>1. rm.state = room[r].state
    BY <1>1 DEF Room
  <2>2. Advance(r, rm, player)
    BY <1>2 DEF Expire
  <2> HIDE DEF rm
  <2>3. CASE rm.state = XUANPAI /\ Showdown(r, rm, player)
    BY <1>1, <2>1, <2>3, ShowdownSettles DEF Ranked, EquippedIn
  <2>4. CASE rm.state # XUANPAI
    BY <2>2, <2>4, StateAfter, NotSettled DEF Advance
  <2>5. QED
    BY <2>2, <2>3, <2>4 DEF Advance
<1>3. ASSUME CountDown(r) \/ Begin(r) \/ Rest(r) PROVE Settles(r)
  <2>1. CASE CountDown(r) \/ Rest(r)
    BY <1>1, <2>1, RoomSet, NotSettled DEF CountDown, Rest, Room
  <2>2. CASE Begin(r)
    BY <2>2, StateAfter, NotSettled DEF Begin
  <2>3. QED
    BY <1>3, <2>1, <2>2
<1>4. QED
  BY <1>2, <1>3, UpdateRoomOutcome, SettledElsewhere DEF UpdateRoom

\* exit_room: the last but one to leave in a round settles it for the other.
LEMMA ExitSettles ==
  ASSUME IInv, AllRanked, NEW a \in Actors, Exit(a)
  PROVE  \A s \in Rooms : Settles(s)
<1> USE DEF NULL, WAITING, QIANGZHUANG, XIAZHU, XUANPAI, JIESUAN
<1> DEFINE r    == player[a].room
           ps   == [player EXCEPT ![a] = Nil]
           left == [room[r] EXCEPT !.actor_count = @ - 1]
           void == [left EXCEPT !.countdown = Nil]
           show == [void EXCEPT !.state = XUANPAI]
<1>1. /\ player[a] # Nil /\ r \in Rooms /\ PlayersOK(ps) /\ ps[a] = Nil
      /\ \A b \in Actors \ {a} : ps[b] = player[b]
  BY LeavingSound DEF Exit
<1>2. Outcome(r, ps)
  BY ExitOutcome
<1>3. /\ room[r] \in Room /\ EquippedIn(r, room[r], player)
      /\ Ranked(r, room[r], player)
  BY <1>1 DEF IInv, TypeOK, AllRanked, Sound, Fit
<1>4. left.state = room[r].state /\ show.state = XUANPAI
  BY <1>3 DEF Room
<1>5. \/ left.state \in QIANGZHUANG..XUANPAI /\ Showdown(r, show, ps)
      \/ Set(r, Entering(void, NULL), ps)
      \/ Set(r, left, ps)
  BY DEF Exit
<1> HIDE DEF r, ps, left, show, void
<1>6. \A b \in Playing(r, ps) : b \in Playing(r, player) /\ ps[b] = player[b]
  BY <1>1 DEF Playing, Seated
<1>7. Ranked(r, room[r], ps)
  BY <1>3, <1>6, FewerKeep
<1>8. CASE left.state \in QIANGZHUANG..XUANPAI /\ Showdown(r, show, ps)
  <2>1. \A b \in Playing(r, ps) : ps[b].cards # Nil /\ ps[b].ratio # Nil
    BY <1>3, <1>4, <1>6, <1>8 DEF EquippedIn
  <2>2. Dealt(r, ps) /\ NoWinner(r, ps)
    BY <1>4, <1>7, <1>8 DEF Ranked
  <2>3. Settles(r)
    BY <1>1, <1>4, <1>8, <2>1, <2>2, ShowdownSettles
  <2>4. QED
    BY <1>1, <1>2, <2>3, SettledElsewhere
<1>9. CASE Set(r, Entering(void, NULL), ps) \/ Set(r, left, ps)
  <2>1. room'[r].state = room[r].state \/ room'[r].state = NULL
    BY <1>1, <1>4, <1>9, RoomSet DEF Entering
  <2>2. QED
    BY <1>1, <1>2, <2>1, NotSettled, SettledElsewhere
<1>10. QED
  BY <1>5, <1>8, <1>9

\* The choice that completes those of a room settles it.
LEMMA ChooseSettles ==
  ASSUME IInv, AllRanked, NEW a \in Actors, NEW v \in Paivals,
         player[a].cards # Nil /\ v # Nil => v % 100 \in player[a].cards.vals,
         MayChoose(a), Choose(a, v)
  PROVE  Settles(player[a].room)
<1> DEFINE r  == player[a].room
           ps == [player EXCEPT ![a] = Choice(player[a], v)]
<1>1. player[a] \in Player /\ room[r].state = XUANPAI
  BY DEF MayChoose, Asked, IInv, TypeOK
<1>2. r \in Rooms
  BY <1>1 DEF Player
<1>3. /\ PlayersOK(ps) /\ Dealt(r, ps) /\ NoWinner(r, ps)
      /\ \A b \in Playing(r, ps) : ps[b].cards # Nil /\ ps[b].ratio # Nil
  BY ChosenDealt
<1>4. Wait(ps) \/ Showdown(r, room[r], ps)
  BY DEF Choose
<1> HIDE DEF r, ps
<1>5. CASE Wait(ps)
  BY <1>5, NotSettled DEF Wait, r
<1>6. CASE Showdown(r, room[r], ps)
  BY <1>1, <1>2, <1>3, <1>6, ShowdownSettles DEF r, XUANPAI, JIESUAN
<1>7. QED
  BY <1>4, <1>5, <1>6

\* The messages of an actor.
LEMMA PlaySettles ==
  ASSUME IInv, AllRanked, NEW a \in Actors, Play(a)
  PROVE  \A s \in Rooms : Settles(s)
<1> USE DEF NULL, WAITING, QIANGZHUANG, XIAZHU, XUANPAI, JIESUAN
<1> DEFINE r == player[a].room
<1>1. r \in Rooms /\ Outcome(r, player)
  BY PlayOutcome
<1>2. CASE XuanpaiNone(a) \/ XuanpaiTip(a) \/ Xuanpai(a)
  BY <1>1, <1>2, ChosenIsOwn, ChooseSettles, SettledElsewhere
<1>3. CASE /\ ~(XuanpaiNone(a) \/ XuanpaiTip(a) \/ Xuanpai(a))
  <2>1. \/ room' = room
        \/ room[r].state = QIANGZHUANG /\ \E ps : LeaveQiangzhuang(r, room[r], ps)
        \/ \E ps : CloseBetting(r, room[r], ps)
        \/ \E ps : Fails(r, room[r], ps)
    BY <1>3 DEF Play, Qiangzhuang, Xiazhu, XiazhuFails, XuanpaiFails, Asked, Wait
  <2> HIDE DEF r
  <2>2. CASE room' = room \/ \E ps : Fails(r, room[r], ps)
    BY <1>1, <2>2, RoomSet, NotSettled, SettledElsewhere DEF Fails
  <2>3. CASE \/ room[r].state = QIANGZHUANG /\ \E ps : LeaveQiangzhuang(r, room[r], ps)
             \/ \E ps : CloseBetting(r, room[r], ps)
    <3>1. room'[r].state # JIESUAN
      BY <1>1, <2>3, StateAfter
    <3>2. QED
      BY <1>1, <3>1, NotSettled, SettledElsewhere
  <2>4. QED
    BY <2>1, <2>2, <2>3
<1>4. QED
  BY <1>2, <1>3

\* Whoever comes in changes no state.
LEMMA EnterSettles ==
  ASSUME IInv, NEW a \in Actors, NEW type, Enter(a, type)
  PROVE  \A s \in Rooms : Settles(s)
<1>1. \A s \in Rooms : room'[s].state = room[s].state
  BY DEF Enter, IInv, TypeOK, Room
<1>2. QED
  BY <1>1, NotSettled

\* A settlement balances: the master's victory costs the others what it brings
\* him, and another player's victory brings him his own stake besides.
THEOREM ScoresBalanceCorrect == Spec => ScoresBalance
<1>1. ASSUME IInv, AllRanked, [Next]_vars PROVE [\A r \in Rooms : Settles(r)]_vars
  <2>1. ASSUME Update PROVE \A r \in Rooms : Settles(r)
    BY <1>1, <2>1, UpdateRoomSettles DEF Update
  <2>2. ASSUME NEW a \in Actors, NEW type \in Types, Enter(a, type)
        PROVE  \A r \in Rooms : Settles(r)
    BY <1>1, <2>2, EnterSettles
  <2>3. ASSUME NEW a \in Actors, Exit(a) PROVE \A r \in Rooms : Settles(r)
    BY <1>1, <2>3, ExitSettles
  <2>4. ASSUME NEW a \in Actors, Play(a) PROVE \A r \in Rooms : Settles(r)
    BY <1>1, <2>4, PlaySettles
  <2>5. QED
    BY <1>1, <2>1, <2>2, <2>3, <2>4 DEF Next
<1>2. QED
  BY <1>1, InvariantHolds, InitRanked, NextRanked, PTL DEF Spec, ScoresBalance, Settles

=============================================================================
