---------------------------- MODULE LoginProofs -----------------------------
(* Proofs about Login, for any sessions, accounts and uids. *)
EXTENDS Login, FiniteSetTheorems, SequenceTheorems, TLAPS

\* What may be on the way: who is asked for, or saved, has a uid, and only the
\* actors of closed sessions are saved.
GoodRequest ==
  {m \in Message : /\ m.action \in {"GET", "SET"} => m.uid \in Uids
                   /\ m.action = "SET" => session[m.sid] = "closed"}

GoodReply ==
  {m \in Message : /\ m.action \in {"GET", "SET"} => m.uid \in Uids
                   /\ m.action = "LOGIN" /\ m.errno = 0 => m.uid \in Uids
                   /\ m.action = "SET" => session[m.sid] = "closed"}

\* Until a session is closed its newest actor is the one filed under it.
NewestFiled ==
  \A n \in DOMAIN actors :
    session[actors[n].sid] # "closed" =>
      /\ actor_session[actors[n].sid] # Nil
      /\ n <= actor_session[actors[n].sid]

IInv ==
  /\ TypeOK
  /\ requests \in Seq(GoodRequest)
  /\ replies \in Seq(GoodReply)
  /\ NewestFiled
  /\ SeatsFreed

-----------------------------------------------------------------------------
(* Queues *)

\* What a queue of S becomes by taking, adding or losing messages is one of S.
LEMMA QueueTail ==
  ASSUME NEW S, NEW q \in Seq(S), q # <<>>
  PROVE  Head(q) \in S /\ Tail(q) \in Seq(S)
BY HeadTailProperties

LEMMA QueueAppend ==
  ASSUME NEW S, NEW q \in Seq(S), NEW m \in S
  PROVE  Append(q, m) \in Seq(S)
BY AppendProperties

LEMMA QueuePrefix ==
  ASSUME NEW S, NEW q \in Seq(S), NEW n \in 0..Len(q)
  PROVE  SubSeq(q, 1, n) \in Seq(S)
<1>1. Len(q) \in Nat /\ \A i \in 1..n : i \in 1..Len(q)
  BY LenProperties
<1>2. \A i \in 1..n : q[i] \in S
  BY <1>1, ElementOfSeq
<1>3. QED
  BY <1>1, <1>2, SubSeqProperties

-----------------------------------------------------------------------------
(* Sessions *)

Table == [sid : Sids, uid : Uids]

\* An entry of actor_mgr or actor_session that is set is the number of an actor.
LEMMA Filed ==
  ASSUME TypeOK
  PROVE  /\ actors \in Seq(Table) /\ DOMAIN actors = 1..Len(actors) /\ Len(actors) \in Nat
         /\ \A n \in DOMAIN actors : actors[n] \in Table
         /\ Nil \notin DOMAIN actors
<1>1. actors \in Seq(Table)
  BY DEF TypeOK, Table
<1>2. DOMAIN actors = 1..Len(actors) /\ Len(actors) \in Nat
  BY <1>1, LenProperties
<1>3. \A n \in DOMAIN actors : actors[n] \in Table
  BY <1>1, <1>2, ElementOfSeq
<1>4. Nil \notin DOMAIN actors
  BY <1>2, UidsAssumption
<1>5. QED
  BY <1>1, <1>2, <1>3, <1>4

\* While closed sessions stay closed, a good message stays good.
LEMMA GoodStays ==
  ASSUME \A s \in Sids : session[s] = "closed" => session'[s] = "closed"
  PROVE  /\ \A q \in Seq(GoodRequest) : q \in Seq(GoodRequest')
         /\ \A q \in Seq(GoodReply) : q \in Seq(GoodReply')
<1>1. GoodRequest \subseteq GoodRequest' /\ GoodReply \subseteq GoodReply'
  BY DEF GoodRequest, GoodReply, Message
<1>2. QED
  BY <1>1, SeqMonotonic

\* A queue of good messages is a queue of messages.
LEMMA GoodIsMessage ==
  /\ \A q \in Seq(GoodRequest) : q \in Seq(Message)
  /\ \A q \in Seq(GoodReply) : q \in Seq(Message)
<1>1. GoodRequest \subseteq Message /\ GoodReply \subseteq Message
  BY DEF GoodRequest, GoodReply
<1>2. QED
  BY <1>1, SeqMonotonic

\* What is posted joins the requests or is dropped.
LEMMA PostedIsGood ==
  ASSUME TypeOK, requests \in Seq(GoodRequest), replies \in Seq(GoodReply),
         \A s \in Sids : session[s] = "closed" => session'[s] = "closed",
         NEW m \in GoodRequest', Post(m)
  PROVE  /\ requests' \in Seq(GoodRequest') /\ replies' \in Seq(GoodReply')
         /\ is_connect' \in BOOLEAN
<1>1. requests \in Seq(GoodRequest') /\ replies \in Seq(GoodReply')
  BY GoodStays
<1>2. QED
  BY <1>1, QueueAppend DEF Post, TypeOK

-----------------------------------------------------------------------------
(* The actors of a step that makes no actor and destroys none *)

\* Nobody takes a seat but the actor of an open session, and no session closes.
LEMMA SeatedStep ==
  ASSUME IInv, UNCHANGED <<actors, actor_mgr, actor_session>>,
         \A s \in Sids : session'[s] = "closed" <=> session[s] = "closed",
         seated' \subseteq DOMAIN actors,
         \A n \in seated' : n \in seated \/ session[actors[n].sid] # "closed"
  PROVE  NewestFiled' /\ SeatsFreed'
<1>1. \A n \in DOMAIN actors : actors[n].sid \in Sids
  BY Filed DEF IInv, Table
<1>2. NewestFiled'
  BY <1>1 DEF IInv, NewestFiled
<1>3. SeatsFreed'
  BY <1>1 DEF IInv, SeatsFreed
<1>4. QED
  BY <1>2, <1>3

\* The session of an actor closes and he leaves his seat; those of his session
\* who keep theirs are older than he.
LEMMA CloseStep ==
  ASSUME IInv, NEW s \in Sids, Close(s), seated' = seated \ {actor_session[s]}
  PROVE  NewestFiled' /\ SeatsFreed' /\ seated' \subseteq DOMAIN actors'
<1>1. /\ UNCHANGED <<actors, actor_mgr, actor_session>>
      /\ session' = [session EXCEPT ![s] = "closed"]
  BY DEF Close
<1>2. session \in [Sids -> {"new", "open", "closed", "gone"}]
      /\ seated \subseteq DOMAIN actors
  BY DEF IInv, TypeOK
<1>3. \A n \in DOMAIN actors : actors[n].sid \in Sids
  BY Filed DEF IInv, Table
<1>4. NewestFiled'
  <2> SUFFICES ASSUME NEW n \in DOMAIN actors, session'[actors[n].sid] # "closed"
               PROVE  actor_session[actors[n].sid] # Nil /\ n <= actor_session[actors[n].sid]
    BY <1>1 DEF NewestFiled
  <2>1. session[actors[n].sid] # "closed"
    BY <1>1, <1>2, <1>3
  <2>2. QED
    BY <2>1 DEF IInv, NewestFiled
<1>5. SeatsFreed'
  <2> SUFFICES ASSUME NEW n \in seated, n # actor_session[s],
                      session'[actors[n].sid] = "closed"
               PROVE  \E m \in (n + 1)..Len(actors) : actors[m].sid = actors[n].sid
    BY <1>1 DEF SeatsFreed
  <2>1. CASE actors[n].sid = s
    <3>1. /\ n \in DOMAIN actors /\ session[s] # "closed"
          /\ actor_session[s] \in DOMAIN actors \cup {Nil}
      BY <1>2 DEF Close, IInv, TypeOK
    <3>2. actor_session[s] # Nil /\ n <= actor_session[s]
      BY <2>1, <3>1 DEF IInv, NewestFiled
    <3>3. actors[actor_session[s]].sid = s
      BY <3>2 DEF IInv, TypeOK
    <3>4. actor_session[s] \in (n + 1)..Len(actors)
      BY <3>1, <3>2, Filed DEF IInv
    <3>5. QED
      BY <2>1, <3>3, <3>4
  <2>2. CASE actors[n].sid # s
    <3>1. session[actors[n].sid] = "closed"
      BY <1>1, <1>2, <1>3, <2>2
    <3>2. QED
      BY <3>1 DEF IInv, SeatsFreed
  <2>3. QED
    BY <2>1, <2>2
<1>6. QED
  BY <1>1, <1>2, <1>4, <1>5

-----------------------------------------------------------------------------
(* The handlers *)

\* The parts of IInv that a step must still show when the actors are the same.
LEMMA SameActors ==
  ASSUME IInv, UNCHANGED <<actors, actor_mgr, actor_session>>,
         session' \in [Sids -> {"new", "open", "closed", "gone"}],
         sent' \in [Sids -> 0..MaxLogins],
         answer' \in [Sids -> {Nil, 0, 1, 2, 4}],
         temp_session' \in [Sids -> {Nil, "recent", "old"}],
         seated' \subseteq DOMAIN actors,
         is_connect' \in BOOLEAN,
         requests' \in Seq(GoodRequest'), replies' \in Seq(GoodReply'),
         NewestFiled', SeatsFreed'
  PROVE  IInv'
<1>1. requests' \in Seq(Message) /\ replies' \in Seq(Message)
  <2>1. GoodRequest' \subseteq Message /\ GoodReply' \subseteq Message
    BY DEF GoodRequest, GoodReply
  <2>2. QED
    BY <2>1, SeqMonotonic
<1>2. TypeOK'
  BY <1>1 DEF IInv, TypeOK
<1>3. QED
  BY <1>2 DEF IInv

\* What gatesrv passes on about a session that stays.
LEMMA StayKeepsIInv ==
  ASSUME IInv, NEW s \in Sids,
         on_session_open(s) \/ Vanish(s) \/ Enter(s) \/ Exit(s) \/ TenSeconds(s)
  PROVE  IInv'
<1>1. /\ TypeOK
      /\ UNCHANGED <<sent, answer, actors, actor_mgr, actor_session, link>>
  BY DEF IInv, on_session_open, Vanish, Enter, Exit, TenSeconds, client, game, link
<1>2. /\ session' \in [Sids -> {"new", "open", "closed", "gone"}]
      /\ \A t \in Sids : session'[t] = "closed" <=> session[t] = "closed"
      /\ temp_session' \in [Sids -> {Nil, "recent", "old"}]
  BY <1>1 DEF TypeOK, on_session_open, Vanish, Enter, Exit, TenSeconds, client, game
<1>3. /\ seated' \subseteq DOMAIN actors
      /\ \A n \in seated' : n \in seated \/ session[actors[n].sid] # "closed"
  BY <1>1 DEF TypeOK, on_session_open, Vanish, Enter, Exit, TenSeconds, client, game
<1>4. NewestFiled' /\ SeatsFreed'
  BY <1>1, <1>2, <1>3, SeatedStep
<1>5. requests' \in Seq(GoodRequest') /\ replies' \in Seq(GoodReply')
  BY <1>1, <1>2, GoodStays DEF IInv, link
<1>6. QED
  BY <1>1, <1>2, <1>3, <1>4, <1>5, SameActors DEF TypeOK, link

\* A login message.
LEMMA LoginKeepsIInv ==
  ASSUME IInv, NEW s \in Sids, msg_login(s)
  PROVE  IInv'
<1>1. TypeOK /\ UNCHANGED <<session, game>>
  BY DEF IInv, msg_login
<1>2. sent' \in [Sids -> 0..MaxLogins]
  BY <1>1, LoginsAssumption DEF TypeOK, msg_login
<1>3. answer' \in [Sids -> {Nil, 0, 1, 2, 4}]
  BY <1>1 DEF TypeOK, msg_login, Send
<1>4. Msg("LOGIN", s, 0, Nil) \in GoodRequest'
  BY DEF Msg, GoodRequest, Message
<1>5. requests' \in Seq(GoodRequest') /\ replies' \in Seq(GoodReply') /\ is_connect' \in BOOLEAN
  BY <1>1, <1>4, PostedIsGood DEF msg_login, IInv
<1>6. NewestFiled' /\ SeatsFreed'
  BY <1>1, SeatedStep DEF game, TypeOK
<1>7. QED
  BY <1>1, <1>2, <1>3, <1>5, <1>6, SameActors DEF TypeOK, game

\* A close frame, whatever becomes of the actor.
LEMMA CloseKeepsIInv ==
  ASSUME IInv, NEW s \in Sids,
         on_session_close(s) \/ on_session_close_Nobody(s) \/ on_session_close_Fails(s)
  PROVE  IInv'
<1>1. /\ TypeOK
      /\ Close(s)
      /\ session' = [session EXCEPT ![s] = "closed"]
      /\ UNCHANGED <<sent, answer, temp_session, actors, actor_mgr, actor_session>>
  BY DEF IInv, on_session_close, on_session_close_Nobody, on_session_close_Fails, Close
<1>2. seated' = seated \ {actor_session[s]}
  <2>1. Nil \notin seated
    BY <1>1, Filed DEF TypeOK
  <2>2. QED
    BY <2>1 DEF on_session_close, on_session_close_Nobody, on_session_close_Fails
<1>3. NewestFiled' /\ SeatsFreed' /\ seated' \subseteq DOMAIN actors
  BY <1>1, <1>2, CloseStep
<1>4. /\ session' \in [Sids -> {"new", "open", "closed", "gone"}]
      /\ session'[s] = "closed"
      /\ \A t \in Sids : session[t] = "closed" => session'[t] = "closed"
  BY <1>1 DEF TypeOK
<1>5. requests' \in Seq(GoodRequest') /\ replies' \in Seq(GoodReply') /\ is_connect' \in BOOLEAN
  <2>1. CASE on_session_close(s)
    <3>1. actors[actor_session[s]].uid \in Uids
      BY <1>1, <2>1, Filed DEF TypeOK, on_session_close, Table
    <3>2. Msg("SET", s, 0, actors[actor_session[s]].uid) \in GoodRequest'
      BY <1>4, <3>1 DEF Msg, GoodRequest, Message
    <3>3. QED
      BY <1>1, <1>4, <2>1, <3>2, PostedIsGood DEF on_session_close, IInv
  <2>2. CASE on_session_close_Nobody(s) \/ on_session_close_Fails(s)
    BY <1>1, <1>4, <2>2, GoodStays DEF on_session_close_Nobody, on_session_close_Fails, link, IInv, TypeOK
  <2>3. QED
    BY <2>1, <2>2
<1>6. QED
  BY <1>1, <1>3, <1>4, <1>5, SameActors DEF TypeOK

\* A step that leaves sessions, clients and actors alone needs good queues only.
LEMMA LinkStep ==
  ASSUME IInv, UNCHANGED <<client, game>>, is_connect' \in BOOLEAN,
         requests' \in Seq(GoodRequest), replies' \in Seq(GoodReply)
  PROVE  IInv'
<1>1. TypeOK /\ UNCHANGED <<session, sent, answer, temp_session, actors, actor_mgr, actor_session, seated>>
  BY DEF IInv, client, game
<1>2. GoodRequest' = GoodRequest /\ GoodReply' = GoodReply
  BY <1>1 DEF GoodRequest, GoodReply
<1>3. NewestFiled' /\ SeatsFreed'
  BY <1>1, SeatedStep DEF TypeOK
<1>4. QED
  BY <1>1, <1>2, <1>3, SameActors DEF TypeOK

\* dbsrv handles a request.
LEMMA DbKeepsIInv ==
  ASSUME IInv, Db
  PROVE  IInv'
<1> DEFINE msg == Head(requests)
<1>1. /\ TypeOK /\ requests \in Seq(GoodRequest) /\ replies \in Seq(GoodReply)
      /\ requests # <<>>
  BY DEF IInv, Db, DbLOGIN, DbGET, DbSET, Asked
<1>2. msg \in GoodRequest /\ Tail(requests) \in Seq(GoodRequest)
  BY <1>1, QueueTail
<1>3. ASSUME NEW errno, NEW uid, Reply(errno, uid),
             Msg(msg.action, msg.sid, errno, uid) \in GoodReply
      PROVE  IInv'
  <2>1. requests' = Tail(requests) /\ UNCHANGED <<is_connect, client, game>>
    BY <1>3 DEF Reply
  <2>2. replies' \in Seq(GoodReply)
    BY <1>1, <1>3, QueueAppend DEF Reply
  <2>3. QED
    BY <1>1, <1>2, <2>1, <2>2, LinkStep DEF TypeOK
<1> HIDE DEF msg
<1>4. CASE DbLOGIN
  <2>1. msg.action = "LOGIN"
    BY <1>4 DEF DbLOGIN, Asked, msg
  <2>2. ASSUME NEW errno \in Errors, Reply(errno, Nil) PROVE IInv'
    <3>1. Msg(msg.action, msg.sid, errno, Nil) \in GoodReply
      BY <1>2, <2>1, <2>2 DEF Msg, GoodRequest, GoodReply, Message, Errors
    <3>2. QED
      BY <1>3, <2>2, <3>1
  <2>3. ASSUME NEW uid \in Uids, Reply(0, uid) PROVE IInv'
    <3>1. Msg(msg.action, msg.sid, 0, uid) \in GoodReply
      BY <1>2, <2>1, <2>3 DEF Msg, GoodRequest, GoodReply, Message
    <3>2. QED
      BY <1>3, <2>3, <3>1
  <2>4. QED
    BY <1>4, <2>2, <2>3 DEF DbLOGIN
<1>5. CASE DbGET
  <2>1. msg.action = "GET"
    BY <1>5 DEF DbGET, Asked, msg
  <2>2. Reply(0, msg.uid)
    BY <1>5 DEF DbGET, msg
  <2>3. Msg(msg.action, msg.sid, 0, msg.uid) \in GoodReply
    BY <1>2, <2>1 DEF Msg, GoodRequest, GoodReply, Message
  <2>4. QED
    BY <1>3, <2>2, <2>3
<1>6. CASE DbSET
  <2>1. msg.action = "SET"
    BY <1>6 DEF DbSET, Asked, msg
  <2>2. Reply(0, msg.uid)
    BY <1>6 DEF DbSET, msg
  <2>3. Msg(msg.action, msg.sid, 0, msg.uid) \in GoodReply
    BY <1>2, <2>1 DEF Msg, GoodRequest, GoodReply, Message
  <2>4. QED
    BY <1>3, <2>2, <2>3
<1>7. QED
  BY <1>4, <1>5, <1>6 DEF Db

\* The link breaks or comes back.
LEMMA LinkKeepsIInv ==
  ASSUME IInv, LinkDown \/ LinkUp
  PROVE  IInv'
<1>1. requests \in Seq(GoodRequest) /\ replies \in Seq(GoodReply)
  BY DEF IInv
<1>2. CASE LinkDown
  <2>1. PICK n \in 0..Len(requests) : requests' = SubSeq(requests, 1, n)
    BY <1>2 DEF LinkDown
  <2>2. requests' \in Seq(GoodRequest)
    BY <1>1, <2>1, QueuePrefix
  <2>3. replies' \in Seq(GoodReply)
    BY <1>2, EmptySeq DEF LinkDown
  <2>4. QED
    BY <1>2, <2>2, <2>3, LinkStep DEF LinkDown
<1>3. CASE LinkUp
  BY <1>1, <1>3, LinkStep DEF LinkUp
<1>4. QED
  BY <1>2, <1>3

\* The first reply of gamesrv's queue and what is left of it.
LEMMA FirstReply ==
  ASSUME IInv, replies # <<>>
  PROVE  /\ Head(replies) \in GoodReply
         /\ Tail(replies) \in Seq(GoodReply)
         /\ Head(replies).sid \in Sids
BY QueueTail DEF IInv, GoodReply, Message

\* Login.LOGIN of gamesrv.
LEMMA LOGINKeepsIInv ==
  ASSUME IInv, LOGIN
  PROVE  IInv'
<1> DEFINE msg == Head(replies)
<1>1. /\ TypeOK
      /\ msg \in GoodReply /\ msg.sid \in Sids /\ msg.action = "LOGIN"
      /\ Tail(replies) \in Seq(GoodReply) /\ replies' = Tail(replies)
      /\ UNCHANGED <<session, sent, actors, actor_mgr, actor_session, seated, is_connect>>
  BY FirstReply DEF LOGIN, Replied, IInv
<1>2. GoodRequest' = GoodRequest /\ GoodReply' = GoodReply
  BY <1>1 DEF GoodRequest, GoodReply
<1>3. requests \in Seq(GoodRequest)
  BY DEF IInv
<1> HIDE DEF msg
<1>4. /\ answer' \in [Sids -> {Nil, 0, 1, 2, 4}]
      /\ temp_session' \in [Sids -> {Nil, "recent", "old"}]
      /\ requests' \in Seq(GoodRequest)
  <2>1. CASE msg.errno # 0 /\ Send(msg.sid, msg.errno) /\ UNCHANGED <<temp_session, requests>>
    <3>1. msg.errno \in {1, 2}
      BY <1>1, <2>1 DEF GoodReply, Message, Errors
    <3>2. QED
      BY <1>1, <1>3, <2>1, <3>1 DEF TypeOK, Send
  <2>2. CASE Send(msg.sid, 4) /\ UNCHANGED <<temp_session, requests>>
    BY <1>1, <1>3, <2>2 DEF TypeOK, Send
  <2>3. CASE UNCHANGED <<answer, temp_session, requests>>
    BY <1>1, <1>3, <2>3 DEF TypeOK
  <2>4. CASE /\ msg.errno = 0
             /\ temp_session' = [temp_session EXCEPT ![msg.sid] = "recent"]
             /\ requests' =
                  IF is_connect THEN Append(requests, Msg("GET", msg.sid, 0, msg.uid))
                  ELSE requests
             /\ UNCHANGED answer
    <3>1. Msg("GET", msg.sid, 0, msg.uid) \in GoodRequest
      BY <1>1, <2>4 DEF Msg, GoodRequest, GoodReply, Message
    <3>2. requests' \in Seq(GoodRequest)
      BY <1>3, <2>4, <3>1, QueueAppend
    <3>3. QED
      BY <1>1, <2>4, <3>2 DEF TypeOK
  <2>5. QED
    BY <2>1, <2>2, <2>3, <2>4 DEF LOGIN, msg
<1>5. NewestFiled' /\ SeatsFreed'
  BY <1>1, SeatedStep DEF TypeOK
<1>6. QED
  BY <1>1, <1>2, <1>4, <1>5, SameActors DEF TypeOK

\* Login.GET of gamesrv: the new actor is the newest of his session.
LEMMA GETKeepsIInv ==
  ASSUME IInv, GET
  PROVE  IInv'
<1> DEFINE msg == Head(replies)
           new == [sid |-> msg.sid, uid |-> msg.uid]
           n == Len(actors) + 1
<1>1. /\ TypeOK
      /\ msg \in GoodReply /\ msg.sid \in Sids /\ msg.uid \in Uids
      /\ Tail(replies) \in Seq(GoodReply) /\ replies' = Tail(replies)
      /\ UNCHANGED <<session, sent, seated, is_connect, requests>>
  BY FirstReply DEF GET, Replied, IInv, GoodReply
<1>2. /\ temp_session' = [temp_session EXCEPT ![msg.sid] = Nil]
      /\ actors' = Append(actors, new)
      /\ actor_mgr' = [actor_mgr EXCEPT ![msg.uid] = n]
      /\ actor_session' = [actor_session EXCEPT ![msg.sid] = n]
      /\ answer' = [answer EXCEPT ![msg.sid] = 0]
  BY DEF GET, create_actor, Send
<1>3. GoodRequest' = GoodRequest /\ GoodReply' = GoodReply
  BY <1>1 DEF GoodRequest, GoodReply
<1>4. new \in Table /\ new.sid = msg.sid /\ new.uid = msg.uid
  BY <1>1 DEF Table, GoodReply, Message
<1>5. /\ actors \in Seq(Table) /\ DOMAIN actors = 1..Len(actors) /\ Len(actors) \in Nat
      /\ \A m \in DOMAIN actors : actors[m] \in Table
      /\ Nil \notin DOMAIN actors
  BY <1>1, Filed
<1> HIDE DEF new, msg
<1>6. /\ actors' \in Seq(Table) /\ Len(actors') = n
      /\ \A m \in DOMAIN actors : actors'[m] = actors[m]
      /\ actors'[n] = new
  BY <1>2, <1>4, <1>5, AppendProperties
<1>7. DOMAIN actors' = DOMAIN actors \cup {n} /\ n \notin DOMAIN actors /\ n # Nil
  <2>1. DOMAIN actors' = 1..n
    BY <1>6, LenProperties
  <2>2. QED
    BY <2>1, <1>5, UidsAssumption
<1>8. \A m \in DOMAIN actors' : m <= n
  BY <1>5, <1>7
<1> HIDE DEF n
<1>9. NewestFiled'
  <2> SUFFICES ASSUME NEW m \in DOMAIN actors', session[actors'[m].sid] # "closed"
               PROVE  /\ actor_session'[actors'[m].sid] # Nil
                      /\ m <= actor_session'[actors'[m].sid]
    BY <1>1 DEF NewestFiled
  <2>1. CASE actors'[m].sid = msg.sid
    BY <2>1, <1>1, <1>2, <1>7, <1>8 DEF TypeOK
  <2>2. CASE actors'[m].sid # msg.sid
    <3>1. m \in DOMAIN actors /\ actors'[m] = actors[m] /\ actors[m].sid \in Sids
      BY <2>2, <1>4, <1>5, <1>6, <1>7 DEF Table
    <3>2. actor_session'[actors[m].sid] = actor_session[actors[m].sid]
      BY <2>2, <3>1, <1>1, <1>2 DEF TypeOK
    <3>3. QED
      BY <3>1, <3>2 DEF IInv, NewestFiled
  <2>3. QED
    BY <2>1, <2>2
<1>10. SeatsFreed'
  <2> SUFFICES ASSUME NEW k \in seated, session[actors'[k].sid] = "closed"
               PROVE  \E m \in (k + 1)..Len(actors') : actors'[m].sid = actors'[k].sid
    BY <1>1 DEF SeatsFreed
  <2>1. k \in DOMAIN actors /\ actors'[k] = actors[k]
    BY <1>1, <1>6 DEF TypeOK
  <2>2. PICK m \in (k + 1)..Len(actors) : actors[m].sid = actors[k].sid
    BY <2>1 DEF IInv, SeatsFreed
  <2>3. m \in DOMAIN actors /\ m \in (k + 1)..Len(actors')
    BY <2>1, <2>2, <1>5, <1>6 DEF n
  <2>4. QED
    BY <2>1, <2>2, <2>3, <1>6
<1>11. TypeOK'
  <2>1. actors' \in Seq([sid : Sids, uid : Uids])
    BY <1>6 DEF Table
  <2>2. /\ actor_mgr' \in [Uids -> DOMAIN actors' \cup {Nil}]
        /\ actor_session' \in [Sids -> DOMAIN actors' \cup {Nil}]
        /\ seated' \subseteq DOMAIN actors'
    BY <1>1, <1>2, <1>7 DEF TypeOK
  <2>3. \A u \in Uids : actor_mgr'[u] # Nil => actors'[actor_mgr'[u]].uid = u
    <3> SUFFICES ASSUME NEW u \in Uids, actor_mgr'[u] # Nil
                 PROVE  actors'[actor_mgr'[u]].uid = u
      OBVIOUS
    <3>1. CASE u = msg.uid
      BY <3>1, <1>1, <1>2, <1>4, <1>6 DEF TypeOK
    <3>2. CASE u # msg.uid
      <4>1. actor_mgr'[u] = actor_mgr[u] /\ actor_mgr[u] \in DOMAIN actors
        BY <3>2, <1>1, <1>2 DEF TypeOK
      <4>2. QED
        BY <4>1, <1>1, <1>6, SMTT(60) DEF TypeOK
    <3>3. QED
      BY <3>1, <3>2
  <2>4. \A s \in Sids : actor_session'[s] # Nil => actors'[actor_session'[s]].sid = s
    <3> SUFFICES ASSUME NEW s \in Sids, actor_session'[s] # Nil
                 PROVE  actors'[actor_session'[s]].sid = s
      OBVIOUS
    <3>1. CASE s = msg.sid
      BY <3>1, <1>1, <1>2, <1>4, <1>6 DEF TypeOK
    <3>2. CASE s # msg.sid
      <4>1. actor_session'[s] = actor_session[s] /\ actor_session[s] \in DOMAIN actors
        BY <3>2, <1>1, <1>2 DEF TypeOK
      <4>2. QED
        BY <4>1, <1>1, <1>6 DEF TypeOK
    <3>3. QED
      BY <3>1, <3>2
  <2>5. /\ session' \in [Sids -> {"new", "open", "closed", "gone"}]
        /\ sent' \in [Sids -> 0..MaxLogins]
        /\ answer' \in [Sids -> {Nil, 0, 1, 2, 4}]
        /\ temp_session' \in [Sids -> {Nil, "recent", "old"}]
        /\ is_connect' \in BOOLEAN
        /\ requests' \in Seq(Message)
    BY <1>1, <1>2 DEF TypeOK
  <2>6. replies' \in Seq(Message)
    BY <1>1, GoodIsMessage
  <2>7. QED
    BY <2>1, <2>2, <2>3, <2>4, <2>5, <2>6 DEF TypeOK
<1>12. requests' \in Seq(GoodRequest') /\ replies' \in Seq(GoodReply')
  BY <1>1, <1>3 DEF IInv
<1>13. QED
  BY <1>9, <1>10, <1>11, <1>12 DEF IInv

\* Login.SET of gamesrv: it is about a closed session.
LEMMA SETKeepsIInv ==
  ASSUME IInv, SET
  PROVE  IInv'
<1> DEFINE msg == Head(replies)
<1>1. /\ TypeOK
      /\ msg \in GoodReply /\ msg.sid \in Sids /\ msg.uid \in Uids
      /\ session[msg.sid] = "closed"
      /\ Tail(replies) \in Seq(GoodReply) /\ replies' = Tail(replies)
      /\ UNCHANGED <<client, temp_session, actors, seated, is_connect, requests>>
  BY FirstReply DEF SET, Replied, IInv, GoodReply
<1>2. /\ actor_session' = [actor_session EXCEPT ![msg.sid] = Nil]
      /\ actor_mgr' = [actor_mgr EXCEPT
           ![msg.uid] = IF Leaves(msg.sid, msg.uid) THEN Nil ELSE @]
  BY DEF SET
<1>3. GoodRequest' = GoodRequest /\ GoodReply' = GoodReply
  BY <1>1 DEF GoodRequest, GoodReply, client
<1>4. \A m \in DOMAIN actors : actors[m].sid \in Sids
  BY <1>1, Filed DEF Table
<1> HIDE DEF msg
<1>5. NewestFiled'
  <2> SUFFICES ASSUME NEW m \in DOMAIN actors, session[actors[m].sid] # "closed"
               PROVE  /\ actor_session'[actors[m].sid] # Nil
                      /\ m <= actor_session'[actors[m].sid]
    BY <1>1 DEF NewestFiled, client
  <2>1. actors[m].sid # msg.sid
    BY <1>1
  <2>2. actor_session'[actors[m].sid] = actor_session[actors[m].sid]
    BY <2>1, <1>1, <1>2, <1>4 DEF TypeOK
  <2>3. QED
    BY <2>2 DEF IInv, NewestFiled
<1>6. SeatsFreed'
  BY <1>1 DEF IInv, SeatsFreed, client
<1>7. TypeOK'
  <2>1. /\ actor_mgr' \in [Uids -> DOMAIN actors \cup {Nil}]
        /\ actor_session' \in [Sids -> DOMAIN actors \cup {Nil}]
    BY <1>1, <1>2 DEF TypeOK
  <2>2. \A u \in Uids : actor_mgr'[u] # Nil => actor_mgr'[u] = actor_mgr[u]
    BY <1>1, <1>2 DEF TypeOK
  <2>3. \A s \in Sids : actor_session'[s] # Nil => actor_session'[s] = actor_session[s]
    BY <1>1, <1>2 DEF TypeOK
  <2>4. replies' \in Seq(Message)
    BY <1>1, GoodIsMessage
  <2>5. QED
    BY <1>1, <2>1, <2>2, <2>3, <2>4 DEF TypeOK, client
<1>8. QED
  BY <1>1, <1>3, <1>5, <1>6, <1>7 DEF IInv

-----------------------------------------------------------------------------
(* The theorems *)

\* Nobody is connected at first.
LEMMA InitIInv == Init => IInv
<1> SUFFICES ASSUME Init PROVE IInv
  OBVIOUS
<1>1. actors = <<>> /\ DOMAIN actors = {}
  BY DEF Init
<1>2. /\ actors \in Seq([sid : Sids, uid : Uids])
      /\ requests \in Seq(Message) /\ replies \in Seq(Message)
      /\ requests \in Seq(GoodRequest) /\ replies \in Seq(GoodReply)
  BY EmptySeq DEF Init
<1>3. TypeOK
  BY <1>1, <1>2, LoginsAssumption DEF Init, TypeOK
<1>4. NewestFiled /\ SeatsFreed
  BY <1>1 DEF Init, NewestFiled, SeatsFreed
<1>5. QED
  BY <1>2, <1>3, <1>4 DEF IInv

\* Every handler keeps the invariant.
LEMMA NextKeepsIInv == IInv /\ [Next]_vars => IInv'
<1> SUFFICES ASSUME IInv, [Next]_vars PROVE IInv'
  OBVIOUS
<1>1. CASE UNCHANGED vars
  BY <1>1, LinkStep DEF vars, link, IInv, TypeOK
<1>2. ASSUME NEW s \in Sids, Client(s) \/ on_session_close_Fails(s) \/ Vanish(s) \/ TenSeconds(s)
      PROVE  IInv'
  BY <1>2, StayKeepsIInv, LoginKeepsIInv, CloseKeepsIInv DEF Client
<1>3. CASE Db
  BY <1>3, DbKeepsIInv
<1>4. CASE Game
  BY <1>4, LOGINKeepsIInv, GETKeepsIInv, SETKeepsIInv DEF Game
<1>5. CASE LinkDown \/ LinkUp
  BY <1>5, LinkKeepsIInv
<1>6. QED
  BY <1>1, <1>2, <1>3, <1>4, <1>5 DEF Next

\* The inductive invariant of logins and logouts.
THEOREM LoginInvariantHolds == Spec => []IInv
BY InitIInv, NextKeepsIInv, PTL DEF Spec

\* Every variable keeps its type; every actor is filed under his own uid and
\* session.
THEOREM LoginTypeCorrect == Spec => []TypeOK
<1>1. IInv => TypeOK
  BY DEF IInv
<1>2. QED
  BY <1>1, LoginInvariantHolds, PTL

\* No seat outlives the close of its session, unless a second login of that
\* session replaced its actor.
THEOREM SeatsFreedCorrect == Spec => []SeatsFreed
<1>1. IInv => SeatsFreed
  BY DEF IInv
<1>2. QED
  BY <1>1, LoginInvariantHolds, PTL

\* Nobody but his own closed session takes an actor away.
THEOREM OnlyOwnCloseCorrect == Spec => OnlyOwnClose
<1> DEFINE Kept ==
      /\ \A u \in Uids : actor_mgr[u] # Nil /\ actor_mgr'[u] = Nil =>
           session[actors[actor_mgr[u]].sid] = "closed"
      /\ \A s \in Sids : actor_session[s] # Nil /\ actor_session'[s] = Nil =>
           session[s] = "closed"
<1>1. IInv /\ [Next]_vars => Kept
  <2> SUFFICES ASSUME IInv, [Next]_vars PROVE Kept
    OBVIOUS
  <2>1. TypeOK
    BY DEF IInv
  <2>2. CASE UNCHANGED <<actor_mgr, actor_session>>
    BY <2>2
  <2>3. CASE GET
    <3> DEFINE n == Len(actors) + 1
    <3>1. /\ actor_mgr' = [actor_mgr EXCEPT ![Head(replies).uid] = n]
          /\ actor_session' = [actor_session EXCEPT ![Head(replies).sid] = n]
      BY <2>3 DEF GET, create_actor
    <3>2. n # Nil
      BY <2>1, Filed, UidsAssumption
    <3> HIDE DEF n
    <3>3. QED
      BY <2>1, <3>1, <3>2 DEF TypeOK
  <2>4. CASE SET
    <3> DEFINE msg == Head(replies)
    <3>1. msg.sid \in Sids /\ session[msg.sid] = "closed"
      BY <2>4, FirstReply DEF SET, Replied, GoodReply
    <3>2. /\ actor_session' = [actor_session EXCEPT ![msg.sid] = Nil]
          /\ actor_mgr' = [actor_mgr EXCEPT
               ![msg.uid] = IF Leaves(msg.sid, msg.uid) THEN Nil ELSE @]
      BY <2>4 DEF SET
    <3> HIDE DEF msg
    <3>3. QED
      BY <2>1, <3>1, <3>2 DEF TypeOK, Leaves
  <2>5. [\E s \in Sids : Client(s) \/ on_session_close_Fails(s) \/ Vanish(s) \/ TenSeconds(s)]_vars
        \/ Db \/ LOGIN \/ LinkDown \/ LinkUp
        => UNCHANGED <<actor_mgr, actor_session>>
    BY DEF Client, on_session_open, msg_login, Enter, Exit, Close, on_session_close,
           on_session_close_Nobody, on_session_close_Fails, Vanish, TenSeconds,
           Db, DbLOGIN, DbGET, DbSET, Reply, LOGIN, LinkDown, LinkUp, vars, game
  <2>6. QED
    BY <2>2, <2>3, <2>4, <2>5 DEF Next, Game
<1>2. QED
  BY <1>1, LoginInvariantHolds, PTL DEF Spec, OnlyOwnClose

-----------------------------------------------------------------------------
(* The two premises: answers that come within ten seconds or never         *)
(* (PatientSpec), and clients that wait for their answers over a link that *)
(* holds (OrderlySpec).                                                    *)

\* Where the messages of session s with an action of A are in a queue.
Of(A, s, q) == {i \in DOMAIN q : q[i].action \in A /\ q[i].sid = s}

\* The two queues have none of them.
Idle(A, s, p, q) == Of(A, s, p) = {} /\ Of(A, s, q) = {}

\* They have one of them at most.
Sole(A, s, p, q) ==
  /\ \A i, j \in Of(A, s, p) : i = j
  /\ \A i, j \in Of(A, s, q) : i = j
  /\ Of(A, s, p) = {} \/ Of(A, s, q) = {}

\* The messages of a queue.
Queued(q) == {q[i] : i \in DOMAIN q}

-----------------------------------------------------------------------------
(* Queues *)

\* Taking the first message moves the others up.
LEMMA TailOf ==
  ASSUME NEW q \in Seq(Message), q # <<>>, NEW A, NEW s
  PROVE  /\ \A i \in Of(A, s, Tail(q)) : i \in Nat \ {0} /\ i + 1 \in Of(A, s, q)
         /\ Head(q).action \in A /\ Head(q).sid = s <=> 1 \in Of(A, s, q)
         /\ Head(q) \in Queued(q) /\ Queued(Tail(q)) \subseteq Queued(q)
<1>1. /\ Head(q) = q[1] /\ Len(Tail(q)) = Len(q) - 1 /\ Len(q) \in Nat \ {0}
      /\ \A i \in 1..Len(Tail(q)) : Tail(q)[i] = q[i + 1]
      /\ DOMAIN q = 1..Len(q) /\ DOMAIN Tail(q) = 1..Len(Tail(q))
  BY HeadTailProperties, LenProperties, EmptySeq
<1>2. \A i \in DOMAIN Tail(q) : i \in Nat \ {0} /\ i + 1 \in DOMAIN q /\ Tail(q)[i] = q[i + 1]
  BY <1>1
<1>3. 1 \in DOMAIN q
  BY <1>1
<1>4. QED
  BY <1>1, <1>2, <1>3 DEF Of, Queued

\* A message that is added is the last.
LEMMA AppendOf ==
  ASSUME NEW q \in Seq(Message), NEW m \in Message, NEW A, NEW s
  PROVE  /\ Of(A, s, Append(q, m)) =
              Of(A, s, q) \cup IF m.action \in A /\ m.sid = s THEN {Len(q) + 1} ELSE {}
         /\ Queued(Append(q, m)) = Queued(q) \cup {m}
<1> DEFINE r == Append(q, m)
<1>1. /\ DOMAIN q = 1..Len(q) /\ Len(q) \in Nat
      /\ DOMAIN r = 1..(Len(q) + 1)
      /\ \A i \in DOMAIN q : r[i] = q[i]
      /\ r[Len(q) + 1] = m
  BY AppendProperties, LenProperties
<1>2. DOMAIN r = DOMAIN q \cup {Len(q) + 1}
  BY <1>1
<1> HIDE DEF r
<1>3. /\ Of(A, s, r) = Of(A, s, q) \cup IF m.action \in A /\ m.sid = s THEN {Len(q) + 1} ELSE {}
      /\ Queued(r) = Queued(q) \cup {m}
  BY <1>1, <1>2 DEF Of, Queued
<1>4. QED
  BY <1>3 DEF r

\* What is left of a queue that is cut off.
LEMMA PrefixOf ==
  ASSUME NEW q \in Seq(Message), NEW n \in 0..Len(q), NEW A, NEW s
  PROVE  Of(A, s, SubSeq(q, 1, n)) \subseteq Of(A, s, q)
<1> DEFINE r == SubSeq(q, 1, n)
<1>1. Len(q) \in Nat /\ DOMAIN q = 1..Len(q) /\ \A i \in 1..n : q[i] \in Message
  BY LenProperties, ElementOfSeq
<1>2. r \in Seq(Message) /\ Len(r) = n /\ \A i \in 1..n : r[i] = q[i]
  BY <1>1, SubSeqProperties
<1>3. DOMAIN r = 1..n
  BY <1>2, LenProperties
<1>4. \A i \in DOMAIN r : i \in DOMAIN q /\ r[i] = q[i]
  BY <1>1, <1>2, <1>3
<1> HIDE DEF r
<1>5. Of(A, s, r) \subseteq Of(A, s, q)
  BY <1>4 DEF Of
<1>6. QED
  BY <1>5 DEF r

\* A message that is taken was the only one.
LEMMA TakeSole ==
  ASSUME NEW q \in Seq(Message), q # <<>>, NEW p, NEW A, NEW s, Sole(A, s, p, q)
  PROVE  /\ Sole(A, s, p, Tail(q))
         /\ Idle(A, s, p, q) => Idle(A, s, p, Tail(q))
         /\ Head(q).action \in A /\ Head(q).sid = s => Idle(A, s, p, Tail(q))
<1>1. /\ \A i \in Of(A, s, Tail(q)) : i \in Nat \ {0} /\ i + 1 \in Of(A, s, q)
      /\ Head(q).action \in A /\ Head(q).sid = s <=> 1 \in Of(A, s, q)
  BY TailOf
<1>2. \A i, j \in Of(A, s, Tail(q)) : i = j
  <2> SUFFICES ASSUME NEW i \in Of(A, s, Tail(q)), NEW j \in Of(A, s, Tail(q)) PROVE i = j
    OBVIOUS
  <2>1. i + 1 = j + 1
    BY <1>1 DEF Sole
  <2>2. QED
    BY <2>1, <1>1
<1>3. Of(A, s, q) = {} => Of(A, s, Tail(q)) = {}
  BY <1>1
<1>4. 1 \in Of(A, s, q) => Of(A, s, Tail(q)) = {} /\ Of(A, s, p) = {}
  <2>1. ASSUME 1 \in Of(A, s, q), NEW i \in Of(A, s, Tail(q)) PROVE FALSE
    <3>1. i + 1 = 1 /\ i \in Nat \ {0}
      BY <1>1, <2>1 DEF Sole
    <3>2. QED
      BY <3>1
  <2>2. QED
    BY <2>1 DEF Sole
<1>5. QED
  BY <1>1, <1>2, <1>3, <1>4 DEF Sole, Idle

\* A message may be added where there is none.
LEMMA AddSole ==
  ASSUME NEW q \in Seq(Message), NEW m \in Message, NEW p, NEW A, NEW s, Sole(A, s, p, q),
         m.action \in A /\ m.sid = s => Idle(A, s, p, q)
  PROVE  /\ Sole(A, s, p, Append(q, m))
         /\ ~(m.action \in A /\ m.sid = s) /\ Idle(A, s, p, q) => Idle(A, s, p, Append(q, m))
BY AppendOf DEF Sole, Idle

\* The queues may change places.
LEMMA SwapSole ==
  ASSUME NEW p, NEW q, NEW A, NEW s
  PROVE  (Sole(A, s, p, q) <=> Sole(A, s, q, p)) /\ (Idle(A, s, p, q) <=> Idle(A, s, q, p))
BY DEF Sole, Idle

\* A message that is answered moves to the other queue.
LEMMA MoveSole ==
  ASSUME NEW p \in Seq(Message), p # <<>>, NEW q \in Seq(Message), NEW m \in Message,
         m.action = Head(p).action, m.sid = Head(p).sid,
         NEW A, NEW s, Sole(A, s, p, q)
  PROVE  /\ Sole(A, s, Tail(p), Append(q, m))
         /\ Idle(A, s, p, q) => Idle(A, s, Tail(p), Append(q, m))
<1>1. /\ Sole(A, s, Tail(p), q)
      /\ Idle(A, s, p, q) => Idle(A, s, Tail(p), q)
      /\ m.action \in A /\ m.sid = s => Idle(A, s, Tail(p), q)
  BY TakeSole, SwapSole
<1>2. Idle(A, s, p, q) => ~(m.action \in A /\ m.sid = s)
  BY TailOf DEF Idle
<1>3. QED
  BY <1>1, <1>2, AddSole

-----------------------------------------------------------------------------
(* One GET *)

G == {"GET"}

\* A session that has a GET on the way is barred from asking again.
Barred ==
  \A s \in Sids :
    /\ Sole(G, s, requests, replies)
    /\ temp_session[s] # "recent" => Idle(G, s, requests, replies)

\* A step that leaves the queues alone and bars whom it barred before.
LEMMA SameQueues ==
  ASSUME Barred, UNCHANGED <<requests, replies>>,
         \A s \in Sids : temp_session'[s] = temp_session[s] \/ Idle(G, s, requests, replies)
  PROVE  Barred'
BY DEF Barred

\* What a session or the timer does.
LEMMA ClientKeepsBarred ==
  ASSUME IInv, Barred, NEW s \in Sids,
         \/ Client(s) \/ on_session_close_Fails(s) \/ Vanish(s)
         \/ Gets(s, requests) = {} /\ Gets(s, replies) = {} /\ TenSeconds(s)
  PROVE  Barred'
<1>1. requests \in Seq(Message) /\ TypeOK
  BY DEF IInv, TypeOK
<1>2. ASSUME NEW m \in Message, m.action # "GET", Post(m), UNCHANGED temp_session
      PROVE  Barred'
  <2>1. UNCHANGED replies /\ requests' \in {requests, Append(requests, m)}
    BY <1>2 DEF Post
  <2>2. ASSUME NEW t \in Sids
        PROVE  /\ Sole(G, t, requests, replies)'
               /\ temp_session'[t] # "recent" => Idle(G, t, requests, replies)'
    <3>1. CASE requests' = requests
      BY <3>1, <2>1, <1>2 DEF Barred
    <3>2. CASE requests' = Append(requests, m)
      <4>1. Sole(G, t, replies, requests) /\ m.action \notin G
        BY <1>2, SwapSole DEF Barred, G
      <4>2. /\ Sole(G, t, replies, Append(requests, m))
            /\ Idle(G, t, replies, requests) => Idle(G, t, replies, Append(requests, m))
        BY <1>1, <4>1, AddSole
      <4>3. QED
        BY <4>2, <3>2, <2>1, <1>2, SwapSole DEF Barred
    <3>3. QED
      BY <2>1, <3>1, <3>2
  <2>3. QED
    BY <2>2 DEF Barred
<1>3. CASE msg_login(s)
  <2>1. Msg("LOGIN", s, 0, Nil) \in Message /\ Msg("LOGIN", s, 0, Nil).action # "GET"
    BY DEF Msg, Message
  <2>2. QED
    BY <1>2, <1>3, <2>1 DEF msg_login, game
<1>4. CASE on_session_close(s)
  <2>1. actors[actor_session[s]].uid \in Uids
    BY <1>1, <1>4, Filed DEF TypeOK, on_session_close, Table
  <2>2. /\ Msg("SET", s, 0, actors[actor_session[s]].uid) \in Message
        /\ Msg("SET", s, 0, actors[actor_session[s]].uid).action # "GET"
    BY <2>1 DEF Msg, Message
  <2>3. QED
    BY <1>2, <1>4, <2>2 DEF on_session_close, Close
<1>5. CASE Gets(s, requests) = {} /\ Gets(s, replies) = {} /\ TenSeconds(s)
  <2>1. Idle(G, s, requests, replies)
    BY <1>5 DEF Gets, Idle, Of, G
  <2>2. /\ UNCHANGED <<requests, replies>>
        /\ \A t \in Sids : t # s => temp_session'[t] = temp_session[t]
    BY <1>1, <1>5 DEF TenSeconds, link, TypeOK
  <2>3. QED
    BY <2>1, <2>2, SameQueues
<1>6. CASE \/ on_session_open(s) \/ Enter(s) \/ Exit(s) \/ on_session_close_Nobody(s)
           \/ on_session_close_Fails(s) \/ Vanish(s)
  <2>1. UNCHANGED <<requests, replies, temp_session>>
    BY <1>6 DEF on_session_open, Enter, Exit, Close, on_session_close_Nobody,
                on_session_close_Fails, Vanish, link, game
  <2>2. QED
    BY <2>1, SameQueues
<1>7. QED
  BY <1>3, <1>4, <1>5, <1>6 DEF Client

\* dbsrv moves a message from one queue to the other, or loses the answer.
LEMMA DbMoves ==
  ASSUME IInv, Db
  PROVE  /\ requests \in Seq(Message) /\ requests # <<>> /\ replies \in Seq(Message)
         /\ requests' = Tail(requests)
         /\ UNCHANGED <<is_connect, client, game>>
         /\ \/ ~is_connect /\ replies' = replies
            \/ \E m \in Message :
                 /\ m.action = Head(requests).action /\ m.sid = Head(requests).sid
                 /\ m.action = "SET" => m.uid = Head(requests).uid
                 /\ replies' = Append(replies, m)
<1> DEFINE msg == Head(requests)
<1>1. requests \in Seq(GoodRequest) /\ requests # <<>> /\ replies \in Seq(Message) /\ requests \in Seq(Message)
  BY DEF IInv, TypeOK, Db, DbLOGIN, DbGET, DbSET, Asked
<1>2. msg \in Message /\ (msg.action \in {"GET", "SET"} => msg.uid \in Uids)
  BY <1>1, QueueTail DEF GoodRequest
<1>3. PICK errno \in {0} \cup Errors, uid \in Uids \cup {Nil} :
        Reply(errno, uid) /\ (msg.action = "SET" => uid = msg.uid)
  <2>1. CASE DbLOGIN
    BY <2>1 DEF DbLOGIN, Asked
  <2>2. CASE DbGET
    BY <2>2, <1>2 DEF DbGET, Asked
  <2>3. CASE DbSET
    BY <2>3, <1>2 DEF DbSET, Asked
  <2>4. QED
    BY <2>1, <2>2, <2>3 DEF Db
<1>4. Msg(msg.action, msg.sid, errno, uid) \in Message
  BY <1>2 DEF Msg, Message
<1>5. QED
  BY <1>1, <1>3, <1>4 DEF Reply, Msg

\* dbsrv bars nobody and frees nobody.
LEMMA DbKeepsBarred ==
  ASSUME IInv, Barred, Db
  PROVE  Barred'
<1>1. /\ requests \in Seq(Message) /\ requests # <<>> /\ replies \in Seq(Message)
      /\ requests' = Tail(requests) /\ UNCHANGED temp_session
  BY DbMoves DEF game
<1>2. CASE replies' = replies
  <2>1. \A s \in Sids : /\ Sole(G, s, Tail(requests), replies)
                        /\ Idle(G, s, requests, replies) => Idle(G, s, Tail(requests), replies)
    BY <1>1, TakeSole, SwapSole DEF Barred
  <2>2. QED
    BY <1>1, <1>2, <2>1 DEF Barred
<1>3. ASSUME NEW m \in Message, m.action = Head(requests).action, m.sid = Head(requests).sid,
             replies' = Append(replies, m)
      PROVE  Barred'
  <2>1. \A s \in Sids :
          /\ Sole(G, s, Tail(requests), Append(replies, m))
          /\ Idle(G, s, requests, replies) => Idle(G, s, Tail(requests), Append(replies, m))
    BY <1>1, <1>3, MoveSole DEF Barred
  <2>2. QED
    BY <1>1, <1>3, <2>1 DEF Barred
<1>4. QED
  BY <1>2, <1>3, DbMoves

\* The first reply is taken.
LEMMA ReplyTaken ==
  ASSUME IInv, replies # <<>>
  PROVE  /\ replies \in Seq(Message) /\ requests \in Seq(Message)
         /\ Head(replies) \in Message
         /\ \A A, s : Sole(A, s, requests, replies) =>
              /\ Sole(A, s, requests, Tail(replies))
              /\ Idle(A, s, requests, replies) => Idle(A, s, requests, Tail(replies))
              /\ Head(replies).action \in A /\ Head(replies).sid = s =>
                   Idle(A, s, requests, Tail(replies))
<1>1. replies \in Seq(Message) /\ requests \in Seq(Message)
  BY DEF IInv, TypeOK
<1>2. QED
  BY <1>1, TakeSole, QueueTail

\* gamesrv asks for whom it had not barred, and its first answer frees him.
LEMMA GameKeepsBarred ==
  ASSUME IInv, Barred, Game
  PROVE  Barred'
<1> DEFINE msg == Head(replies)
<1>1. replies # <<>> /\ replies' = Tail(replies)
  BY DEF Game, LOGIN, GET, SET, Replied
<1>2. /\ replies \in Seq(Message) /\ requests \in Seq(Message) /\ Tail(replies) \in Seq(Message)
      /\ msg \in Message /\ msg.sid \in Sids
  BY <1>1, ReplyTaken, QueueTail DEF Message
<1>3. \A s \in Sids :
        /\ Sole(G, s, requests, replies')
        /\ Idle(G, s, requests, replies) => Idle(G, s, requests, replies')
        /\ msg.action = "GET" /\ msg.sid = s => Idle(G, s, requests, replies')
  BY <1>1, ReplyTaken DEF Barred, G
<1>4. temp_session \in [Sids -> {Nil, "recent", "old"}]
  BY DEF IInv, TypeOK
<1> HIDE DEF msg
<1>5. CASE UNCHANGED <<temp_session, requests>>
  BY <1>3, <1>5 DEF Barred
<1>6. CASE GET
  <2>1. /\ temp_session' = [temp_session EXCEPT ![msg.sid] = Nil]
        /\ UNCHANGED requests /\ msg.action = "GET"
    BY <1>6 DEF GET, Replied, msg
  <2>2. \A s \in Sids : temp_session'[s] = temp_session[s] \/ msg.sid = s
    BY <2>1, <1>2, <1>4
  <2>3. QED
    BY <2>1, <2>2, <1>3 DEF Barred
<1>7. CASE /\ msg.errno = 0 /\ msg.uid \in Uids
           /\ MayGet(msg.sid)
           /\ temp_session' = [temp_session EXCEPT ![msg.sid] = "recent"]
           /\ requests' =
                IF is_connect THEN Append(requests, Msg("GET", msg.sid, 0, msg.uid))
                ELSE requests
  <2> DEFINE m == Msg("GET", msg.sid, 0, msg.uid)
  <2>1. m \in Message /\ m.action \in G /\ m.sid = msg.sid
    BY <1>2, <1>7 DEF Msg, Message, G
  <2>2. Idle(G, msg.sid, requests, replies')
    BY <1>2, <1>3, <1>7 DEF Barred, MayGet
  <2>3. temp_session'[msg.sid] = "recent" /\ \A s \in Sids \ {msg.sid} : temp_session'[s] = temp_session[s]
    BY <1>2, <1>4, <1>7
  <2> HIDE DEF m
  <2>4. ASSUME NEW s \in Sids
        PROVE  /\ Sole(G, s, replies', Append(requests, m))
               /\ s # msg.sid /\ Idle(G, s, requests, replies') => Idle(G, s, replies', Append(requests, m))
    <3>1. /\ Sole(G, s, replies', requests)
          /\ m.action \in G /\ m.sid = s => Idle(G, s, replies', requests)
          /\ Idle(G, s, requests, replies') => Idle(G, s, replies', requests)
      BY <1>3, <2>1, <2>2, SwapSole
    <3>2. QED
      BY <1>2, <2>1, <3>1, AddSole
  <2>5. CASE requests' = Append(requests, m)
    <3>1. \A s \in Sids :
            /\ Sole(G, s, requests', replies')
            /\ s # msg.sid /\ Idle(G, s, requests, replies') => Idle(G, s, requests', replies')
      BY <2>4, <2>5, SwapSole
    <3>2. QED
      BY <3>1, <2>3, <1>3 DEF Barred
  <2>6. CASE requests' = requests
    BY <2>3, <2>6, <1>3 DEF Barred
  <2>7. QED
    BY <1>7, <2>5, <2>6 DEF m
<1>8. LOGIN => UNCHANGED <<temp_session, requests>> \/ (msg.errno = 0 /\ msg.uid \in Uids /\ MayGet(msg.sid)
           /\ temp_session' = [temp_session EXCEPT ![msg.sid] = "recent"]
           /\ requests' =
                IF is_connect THEN Append(requests, Msg("GET", msg.sid, 0, msg.uid))
                ELSE requests)
  BY FirstReply DEF LOGIN, Replied, GoodReply, msg
<1>9. SET => UNCHANGED <<temp_session, requests>>
  BY DEF SET
<1>10. QED
  BY <1>5, <1>6, <1>7, <1>8, <1>9 DEF Game

\* A link that breaks loses messages and makes none.
LEMMA LinkKeepsBarred ==
  ASSUME IInv, Barred, LinkDown \/ LinkUp
  PROVE  Barred'
<1>1. UNCHANGED temp_session
  BY DEF LinkDown, LinkUp, game
<1>2. CASE LinkDown
  <2>1. requests \in Seq(Message) /\ replies' = <<>>
    BY <1>2 DEF IInv, TypeOK, LinkDown
  <2>2. PICK n \in 0..Len(requests) : requests' = SubSeq(requests, 1, n)
    BY <1>2 DEF LinkDown
  <2>3. \A s : Of(G, s, requests') \subseteq Of(G, s, requests) /\ Of(G, s, replies') = {}
    BY <2>1, <2>2, PrefixOf DEF Of
  <2>4. QED
    BY <1>1, <2>3 DEF Barred, Sole, Idle
<1>3. CASE LinkUp
  BY <1>1, <1>3, SameQueues DEF LinkUp
<1>4. QED
  BY <1>2, <1>3

\* At most one place is at most one message.
LEMMA SoleIsOne ==
  ASSUME NEW s \in Sids, Sole(G, s, requests, replies)
  PROVE  Cardinality(Gets(s, requests)) + Cardinality(Gets(s, replies)) <= 1
<1>1. Gets(s, requests) = Of(G, s, requests) /\ Gets(s, replies) = Of(G, s, replies)
  BY DEF Gets, Of, G
<1>2. ASSUME NEW S, \A i, j \in S : i = j
      PROVE  Cardinality(S) \in {0, 1} /\ (S = {} => Cardinality(S) = 0)
  <2>1. S = {} \/ \E x : S = {x}
    BY <1>2
  <2>2. QED
    BY <2>1, FS_EmptySet, FS_Singleton
<1>3. /\ Cardinality(Of(G, s, requests)) \in {0, 1} /\ Cardinality(Of(G, s, replies)) \in {0, 1}
      /\ Cardinality(Of(G, s, requests)) = 0 \/ Cardinality(Of(G, s, replies)) = 0
  BY <1>2 DEF Sole
<1>4. QED
  BY <1>1, <1>3

\* Answers that come within ten seconds or never: a session has one GET on the
\* way at most, whatever is lost and however often it logs in.
THEOREM OneGetCorrect == PatientSpec => []OneGet
<1>1. Init => IInv /\ Barred
  <2>1. Init => requests = <<>> /\ replies = <<>>
    BY DEF Init
  <2>2. \A s : Sole(G, s, <<>>, <<>>) /\ Idle(G, s, <<>>, <<>>)
    BY DEF Sole, Idle, Of
  <2>3. QED
    BY <2>1, <2>2, InitIInv DEF Barred
<1>2. IInv /\ Barred /\ [PatientNext]_vars => IInv' /\ Barred'
  <2> SUFFICES ASSUME IInv, Barred, [PatientNext]_vars PROVE IInv' /\ Barred'
    OBVIOUS
  <2>1. [Next]_vars
    BY DEF PatientNext, Next
  <2>2. IInv'
    BY <2>1, NextKeepsIInv
  <2>3. CASE UNCHANGED vars
    <3>1. UNCHANGED <<requests, replies, temp_session>>
      BY <2>3 DEF vars, game, link
    <3>2. QED
      BY <2>2, <3>1, SameQueues
  <2>4. CASE PatientNext
    <3>1. ASSUME NEW s \in Sids,
                 \/ Client(s) \/ on_session_close_Fails(s) \/ Vanish(s)
                 \/ Gets(s, requests) = {} /\ Gets(s, replies) = {} /\ TenSeconds(s)
          PROVE  Barred'
      BY <3>1, ClientKeepsBarred
    <3>2. QED
      BY <2>2, <2>4, <3>1, DbKeepsBarred, GameKeepsBarred, LinkKeepsBarred DEF PatientNext
  <2>5. QED
    BY <2>3, <2>4
<1>3. Barred => OneGet
  BY SoleIsOne DEF Barred, OneGet
<1>4. QED
  BY <1>1, <1>2, <1>3, PTL DEF PatientSpec

-----------------------------------------------------------------------------
(* No ghosts *)

All == {"LOGIN", "GET", "SET"}

\* What the messages on the way say of their sessions: a login is waited for by
\* a client that is there and has no actor; a save is for the actor that is
\* still filed under his closed session.
Due(m) ==
  \/ /\ m.action \in {"LOGIN", "GET"}
     /\ session[m.sid] = "open" /\ Waiting(m.sid) /\ actor_session[m.sid] = Nil
  \/ /\ m.action = "SET"
     /\ session[m.sid] = "closed" /\ actor_session[m.sid] # Nil
     /\ m.uid = actors[actor_session[m.sid]].uid

\* Each session has one message on the way at most, and it is due.
Orderly ==
  /\ is_connect
  /\ \A s \in Sids : Sole(All, s, requests, replies)
  /\ \A m \in Queued(requests) \cup Queued(replies) : Due(m)
  /\ NoGhosts

\* A session of which nothing is on the way.
LEMMA QuietSession ==
  ASSUME IInv, Orderly, NEW s \in Sids,
         session[s] # "closed", ~(session[s] = "open" /\ Waiting(s))
  PROVE  /\ Idle(All, s, requests, replies)
         /\ \A m \in Queued(requests) \cup Queued(replies) : m.sid # s
BY DEF Orderly, Due, Queued, Idle, Of

\* Everything on the way stays due where only session s changes, of which
\* nothing is on the way.
LEMMA OthersStayDue ==
  ASSUME NEW s \in Sids, NEW Q,
         \A m \in Q : m \in Message /\ m.sid # s /\ Due(m),
         TypeOK,
         \A t \in Sids \ {s} : /\ session'[t] = session[t] /\ sent'[t] = sent[t]
                              /\ answer'[t] = answer[t]
                              /\ actor_session'[t] = actor_session[t],
         \A n \in DOMAIN actors : actors'[n] = actors[n]
  PROVE  \A m \in Q : Due(m)'
<1> SUFFICES ASSUME NEW m \in Q PROVE Due(m)'
  OBVIOUS
<1>1. m \in Message /\ m.sid \in Sids \ {s} /\ Due(m)
  BY DEF Message
<1>2. actor_session[m.sid] # Nil => actor_session[m.sid] \in DOMAIN actors
  BY <1>1 DEF TypeOK
<1>3. QED
  BY <1>1, <1>2 DEF Due, Waiting

\* The messages of the queues.
LEMMA QueuedMessages ==
  ASSUME TypeOK
  PROVE  /\ requests \in Seq(Message) /\ replies \in Seq(Message)
         /\ \A m \in Queued(requests) \cup Queued(replies) : m \in Message
<1>1. requests \in Seq(Message) /\ replies \in Seq(Message)
  BY DEF TypeOK
<1>2. \A q \in Seq(Message) : \A i \in DOMAIN q : q[i] \in Message
  BY LenProperties, ElementOfSeq
<1>3. QED
  BY <1>1, <1>2 DEF Queued

\* A message is posted for a session of which nothing is on the way.
LEMMA PostKeepsOrder ==
  ASSUME IInv, Orderly, NEW s \in Sids, NEW m \in Message, m.sid = s, Post(m),
         Idle(All, s, requests, replies),
         \A n \in Queued(requests) \cup Queued(replies) : Due(n)',
         Due(m)'
  PROVE  /\ is_connect'
         /\ \A t \in Sids : Sole(All, t, requests', replies')
         /\ \A n \in Queued(requests') \cup Queued(replies') : Due(n)'
<1>1. requests' = Append(requests, m) /\ replies' = replies /\ is_connect'
  BY DEF Post, Orderly
<1>2. requests \in Seq(Message)
  BY QueuedMessages DEF IInv
<1>3. \A t \in Sids : Sole(All, t, requests', replies')
  <2> SUFFICES ASSUME NEW t \in Sids PROVE Sole(All, t, requests', replies')
    OBVIOUS
  <2>1. /\ Sole(All, t, replies, requests)
        /\ m.action \in All /\ m.sid = t => Idle(All, t, replies, requests)
    BY SwapSole DEF Orderly
  <2>2. Sole(All, t, replies, Append(requests, m))
    BY <1>2, <2>1, AddSole
  <2>3. QED
    BY <1>1, <2>2, SwapSole
<1>4. Queued(requests') = Queued(requests) \cup {m}
  BY <1>1, <1>2, AppendOf
<1>5. QED
  BY <1>1, <1>3, <1>4

\* What an orderly client does.
LEMMA ClientKeepsOrder ==
  ASSUME IInv, Orderly, NEW s \in Sids, ~Waiting(s), Client(s)
  PROVE  Orderly'
<1>1. TypeOK /\ UNCHANGED <<actors, actor_mgr, actor_session>>
  BY DEF IInv, Client, on_session_open, msg_login, Enter, Exit, on_session_close,
         on_session_close_Nobody, Close, game
<1>2. /\ NoGhosts'
      /\ requests \in Seq(Message) /\ replies \in Seq(Message)
      /\ \A m \in Queued(requests) \cup Queued(replies) : m \in Message /\ Due(m)
  BY <1>1, QueuedMessages DEF Orderly, NoGhosts
<1>3. CASE Enter(s) \/ Exit(s)
  <2>1. UNCHANGED <<client, actors, actor_mgr, actor_session, link>>
    BY <1>3 DEF Enter, Exit
  <2>2. \A m : Due(m) => Due(m)'
    BY <2>1 DEF Due, Waiting, client
  <2>3. QED
    BY <1>2, <2>1, <2>2 DEF Orderly, link
<1>4. ASSUME session[s] \in {"new", "open"},
             \A t \in Sids \ {s} : /\ session'[t] = session[t] /\ sent'[t] = sent[t]
                                  /\ answer'[t] = answer[t]
      PROVE  /\ Idle(All, s, requests, replies)
             /\ \A m \in Queued(requests) \cup Queued(replies) : Due(m)'
  <2>1. /\ Idle(All, s, requests, replies)
        /\ \A m \in Queued(requests) \cup Queued(replies) : m.sid # s
    BY <1>4, QuietSession
  <2>2. QED
    BY <1>1, <1>2, <1>4, <2>1, OthersStayDue
<1>5. CASE on_session_open(s) \/ on_session_close_Nobody(s)
  <2>1. /\ session[s] \in {"new", "open"} /\ UNCHANGED <<sent, answer, link>>
        /\ \A t \in Sids \ {s} : session'[t] = session[t]
    BY <1>1, <1>5 DEF on_session_open, on_session_close_Nobody, Close, TypeOK
  <2>2. \A m \in Queued(requests) \cup Queued(replies) : Due(m)'
    BY <1>4, <2>1
  <2>3. QED
    BY <1>2, <2>1, <2>2 DEF Orderly, link
<1>6. CASE msg_login(s)
  <2> DEFINE m == Msg("LOGIN", s, 0, Nil)
  <2>1. /\ session[s] = "open" /\ actor_session[s] = Nil /\ session' = session
        /\ \A t \in Sids \ {s} : sent'[t] = sent[t] /\ answer'[t] = answer[t]
        /\ sent'[s] = sent[s] + 1 /\ answer'[s] = Nil
        /\ Post(m)
    BY <1>1, <1>6 DEF msg_login, Send, TypeOK, Orderly
  <2>2. m \in Message /\ m.sid = s /\ m.action = "LOGIN"
    BY DEF Msg, Message
  <2> HIDE DEF m
  <2>3. sent'[s] > 0
    BY <1>1, <2>1, LoginsAssumption DEF TypeOK
  <2>4. Due(m)'
    BY <1>1, <2>1, <2>2, <2>3 DEF Due, Waiting
  <2>5. /\ Idle(All, s, requests, replies)
        /\ \A n \in Queued(requests) \cup Queued(replies) : Due(n)'
    BY <1>4, <2>1
  <2>6. QED
    BY <1>2, <2>1, <2>2, <2>4, <2>5, PostKeepsOrder DEF Orderly
<1>7. CASE on_session_close(s)
  <2>0. PICK m : m = Msg("SET", s, 0, actors[actor_session[s]].uid)
    OBVIOUS
  <2>1. /\ session[s] = "open" /\ actor_session[s] # Nil /\ UNCHANGED <<sent, answer>>
        /\ \A t \in Sids \ {s} : session'[t] = session[t]
        /\ session'[s] = "closed"
        /\ Post(m)
    BY <1>1, <1>7, <2>0 DEF on_session_close, Close, TypeOK
  <2>2. actors[actor_session[s]].uid \in Uids
    BY <1>1, <2>1, Filed DEF TypeOK, Table
  <2>3. /\ m \in Message /\ m.sid = s /\ m.action = "SET"
        /\ m.uid = actors[actor_session[s]].uid
    BY <2>0, <2>2 DEF Msg, Message
  <2>4. Due(m)'
    BY <1>1, <2>1, <2>3 DEF Due
  <2>5. /\ Idle(All, s, requests, replies)
        /\ \A n \in Queued(requests) \cup Queued(replies) : Due(n)'
    BY <1>4, <2>1
  <2>6. QED
    BY <1>2, <2>1, <2>3, <2>4, <2>5, PostKeepsOrder DEF Orderly
<1>8. QED
  BY <1>3, <1>5, <1>6, <1>7 DEF Client

\* dbsrv answers: the answer is as due as the request was.
LEMMA DbKeepsOrder ==
  ASSUME IInv, Orderly, Db
  PROVE  Orderly'
<1>1. /\ requests \in Seq(Message) /\ requests # <<>> /\ replies \in Seq(Message)
      /\ requests' = Tail(requests)
      /\ UNCHANGED <<is_connect, client, game>>
  BY DbMoves
<1>2. PICK m \in Message : /\ m.action = Head(requests).action
                           /\ m.sid = Head(requests).sid
                           /\ m.action = "SET" => m.uid = Head(requests).uid
                           /\ replies' = Append(replies, m)
  BY DbMoves DEF Orderly
<1>3. \A s \in Sids : Sole(All, s, requests', replies')
  BY <1>1, <1>2, MoveSole DEF Orderly
<1>4. /\ Head(requests) \in Queued(requests)
      /\ Queued(requests') \subseteq Queued(requests)
      /\ Queued(replies') = Queued(replies) \cup {m}
  BY <1>1, <1>2, TailOf, AppendOf
<1>5. Due(m)
  BY <1>2, <1>4 DEF Orderly, Due
<1>6. \A n : Due(n) => Due(n)'
  BY <1>1 DEF Due, Waiting, client, game
<1>7. \A n \in Queued(requests') \cup Queued(replies') : Due(n)'
  BY <1>4, <1>5, <1>6 DEF Orderly
<1>8. NoGhosts' /\ is_connect'
  BY <1>1 DEF Orderly, NoGhosts, game
<1>9. QED
  BY <1>3, <1>7, <1>8 DEF Orderly

\* A reply is taken: the session it is for has nothing else on the way.
LEMMA ReplyIsLast ==
  ASSUME IInv, Orderly, replies # <<>>
  PROVE  LET msg == Head(replies)
         IN  /\ msg \in GoodReply /\ msg \in Message /\ msg.sid \in Sids /\ Due(msg)
             /\ \A s \in Sids : Sole(All, s, requests, Tail(replies))
             /\ Idle(All, msg.sid, requests, Tail(replies))
             /\ \A m \in Queued(requests) \cup Queued(Tail(replies)) :
                  m \in Message /\ m.sid # msg.sid /\ Due(m)
<1> DEFINE msg == Head(replies)
<1>1. /\ replies \in Seq(Message) /\ requests \in Seq(Message)
      /\ \A m \in Queued(requests) \cup Queued(replies) : m \in Message
  BY QueuedMessages DEF IInv
<1>2. msg \in GoodReply /\ msg \in Message /\ msg.sid \in Sids /\ msg.action \in All
  BY FirstReply DEF GoodReply, Message, All
<1>3. /\ msg \in Queued(replies) /\ Queued(Tail(replies)) \subseteq Queued(replies)
  BY <1>1, TailOf
<1>4. /\ \A s \in Sids : Sole(All, s, requests, Tail(replies))
      /\ Idle(All, msg.sid, requests, Tail(replies))
  BY <1>1, <1>2, TakeSole DEF Orderly
<1> HIDE DEF msg
<1>5. \A m \in Queued(requests) \cup Queued(Tail(replies)) : m.action \in All /\ m.sid # msg.sid
  <2> SUFFICES ASSUME NEW m \in Queued(requests) \cup Queued(Tail(replies))
               PROVE  m.action \in All /\ m.sid # msg.sid
    OBVIOUS
  <2>1. m.action \in All
    BY <1>1, <1>3 DEF Message, All
  <2>2. QED
    BY <2>1, <1>4 DEF Idle, Of, Queued
<1>6. QED
  BY <1>1, <1>2, <1>3, <1>4, <1>5 DEF Orderly, msg

\* gamesrv handles a reply.
LEMMA GameKeepsOrder ==
  ASSUME IInv, Orderly, Game
  PROVE  Orderly'
<1>1. TypeOK /\ replies # <<>> /\ replies' = Tail(replies) /\ is_connect' = is_connect
      /\ UNCHANGED <<session, sent>>
  BY DEF IInv, Game, LOGIN, GET, SET, Replied, client
<1>2. PICK msg : msg = Head(replies)
  OBVIOUS
<1>3. /\ msg \in GoodReply /\ msg \in Message /\ msg.sid \in Sids /\ Due(msg)
      /\ \A s \in Sids : Sole(All, s, requests, replies')
      /\ Idle(All, msg.sid, requests, replies')
      /\ \A m \in Queued(requests) \cup Queued(replies') :
           m \in Message /\ m.sid # msg.sid /\ Due(m)
  BY <1>1, <1>2, ReplyIsLast
<1>4. /\ actors \in Seq(Table) /\ DOMAIN actors = 1..Len(actors) /\ Len(actors) \in Nat
      /\ \A n \in DOMAIN actors : actors[n] \in Table
      /\ Nil \notin DOMAIN actors
  BY <1>1, Filed
<1>5. ASSUME \A t \in Sids \ {msg.sid} : /\ answer'[t] = answer[t]
                                        /\ actor_session'[t] = actor_session[t],
             \A n \in DOMAIN actors : actors'[n] = actors[n]
      PROVE  \A m \in Queued(requests) \cup Queued(replies') : Due(m)'
  BY <1>1, <1>3, <1>5, OthersStayDue
<1>6. CASE LOGIN
  <2>1. msg.action = "LOGIN" /\ UNCHANGED <<actors, actor_mgr, actor_session>>
    BY <1>2, <1>6 DEF LOGIN, Replied
  <2>2. NoGhosts'
    BY <2>1 DEF Orderly, NoGhosts
  <2>3. \A t \in Sids \ {msg.sid} : answer'[t] = answer[t]
    BY <1>1, <1>2, <1>3, <1>6 DEF LOGIN, Send, TypeOK
  <2>4. \A m \in Queued(requests) \cup Queued(replies') : Due(m)'
    BY <1>5, <2>1, <2>3
  <2>5. CASE UNCHANGED requests
    BY <1>1, <1>3, <2>2, <2>4, <2>5 DEF Orderly
  <2>6. CASE /\ msg.errno = 0 /\ requests' = Append(requests, Msg("GET", msg.sid, 0, msg.uid))
             /\ UNCHANGED answer
    <3> DEFINE m == Msg("GET", msg.sid, 0, msg.uid)
    <3>1. m \in Message /\ m.sid = msg.sid /\ m.action = "GET"
      BY <1>3, <2>1, <2>6 DEF Msg, Message, GoodReply
    <3> HIDE DEF m
    <3>2. Due(m)'
      BY <1>1, <1>3, <2>1, <2>6, <3>1 DEF Due, Waiting
    <3>3. requests \in Seq(Message)
      BY <1>1 DEF TypeOK
    <3>4. \A s \in Sids : Sole(All, s, requests', replies')
      <4> SUFFICES ASSUME NEW s \in Sids PROVE Sole(All, s, requests', replies')
        OBVIOUS
      <4>1. /\ Sole(All, s, replies', requests)
            /\ m.action \in All /\ m.sid = s => Idle(All, s, replies', requests)
        BY <1>3, <3>1, SwapSole
      <4>2. Sole(All, s, replies', Append(requests, m))
        BY <3>1, <3>3, <4>1, AddSole
      <4>3. QED
        BY <2>6, <4>2, SwapSole DEF m
    <3>5. Queued(requests') = Queued(requests) \cup {m}
      BY <2>6, <3>1, <3>3, AppendOf DEF m
    <3>6. QED
      BY <1>1, <2>2, <2>4, <3>2, <3>4, <3>5 DEF Orderly
  <2>7. QED
    BY <1>2, <1>6, <2>5, <2>6 DEF LOGIN, Orderly
<1>7. CASE GET
  <2> DEFINE n == Len(actors) + 1
             new == [sid |-> msg.sid, uid |-> msg.uid]
  <2>1. /\ msg.action = "GET" /\ requests' = requests
        /\ actors' = Append(actors, new)
        /\ actor_mgr' = [actor_mgr EXCEPT ![msg.uid] = n]
        /\ actor_session' = [actor_session EXCEPT ![msg.sid] = n]
        /\ answer' = [answer EXCEPT ![msg.sid] = 0]
    BY <1>2, <1>7 DEF GET, Replied, create_actor, Send
  <2>2. msg.uid \in Uids /\ new \in Table /\ actor_session[msg.sid] = Nil
    BY <1>3, <2>1 DEF GoodReply, Table, Due
  <2>3. /\ \A k \in DOMAIN actors : actors'[k] = actors[k]
        /\ actors'[n] = new /\ new.sid = msg.sid
    BY <1>4, <2>1, <2>2, AppendProperties
  <2> HIDE DEF n, new
  <2>4. \A t \in Sids \ {msg.sid} :
          answer'[t] = answer[t] /\ actor_session'[t] = actor_session[t]
    BY <1>1, <1>3, <2>1 DEF TypeOK
  <2>5. \A m \in Queued(requests') \cup Queued(replies') : Due(m)'
    BY <1>5, <2>1, <2>3, <2>4
  <2>6. NoGhosts'
    <3> SUFFICES ASSUME NEW u \in Uids, actor_mgr'[u] # Nil
                 PROVE  actor_session'[actors'[actor_mgr'[u]].sid] = actor_mgr'[u]
      BY DEF NoGhosts
    <3>1. CASE u = msg.uid
      BY <1>1, <1>3, <2>1, <2>2, <2>3, <3>1, ZenonT(60) DEF TypeOK
    <3>2. CASE u # msg.uid
      <4>1. actor_mgr'[u] = actor_mgr[u] /\ actor_mgr[u] # Nil /\ actor_mgr[u] \in DOMAIN actors
        BY <1>1, <2>1, <3>2 DEF TypeOK
      <4>2. actor_session[actors[actor_mgr[u]].sid] = actor_mgr[u]
        BY <4>1 DEF Orderly, NoGhosts
      <4>3. actors[actor_mgr[u]].sid \in Sids \ {msg.sid}
        BY <1>4, <2>2, <4>1, <4>2 DEF Table
      <4>4. QED
        BY <2>3, <2>4, <4>1, <4>2, <4>3
    <3>3. QED
      BY <3>1, <3>2
  <2>7. QED
    BY <1>1, <1>3, <2>1, <2>5, <2>6 DEF Orderly
<1>8. CASE SET
  <2>1. /\ msg.action = "SET" /\ UNCHANGED <<answer, actors, requests>>
        /\ actor_session' = [actor_session EXCEPT ![msg.sid] = Nil]
        /\ actor_mgr' = [actor_mgr EXCEPT
             ![msg.uid] = IF Leaves(msg.sid, msg.uid) THEN Nil ELSE @]
    BY <1>2, <1>8 DEF SET, Replied, client
  <2>2. /\ msg.uid \in Uids
        /\ actor_session[msg.sid] # Nil /\ msg.uid = actors[actor_session[msg.sid]].uid
    BY <1>3, <2>1 DEF GoodReply, Due
  <2>3. \A t \in Sids \ {msg.sid} : actor_session'[t] = actor_session[t]
    BY <1>1, <2>1 DEF TypeOK
  <2>4. \A m \in Queued(requests') \cup Queued(replies') : Due(m)'
    BY <1>5, <2>1, <2>3
  <2>5. NoGhosts'
    <3> SUFFICES ASSUME NEW u \in Uids, actor_mgr'[u] # Nil
                 PROVE  actor_session'[actors[actor_mgr'[u]].sid] = actor_mgr'[u]
      BY <2>1 DEF NoGhosts
    <3>1. /\ actor_mgr'[u] = actor_mgr[u] /\ actor_mgr[u] # Nil
          /\ u = msg.uid => ~Leaves(msg.sid, msg.uid)
      BY <1>1, <2>1, <2>2 DEF TypeOK
    <3>2. /\ actors[actor_mgr[u]].uid = u
          /\ actor_session[actors[actor_mgr[u]].sid] = actor_mgr[u]
          /\ actors[actor_mgr[u]].sid \in Sids
      BY <1>1, <1>4, <3>1 DEF Orderly, NoGhosts, TypeOK, Table
    <3>3. actors[actor_mgr[u]].sid # msg.sid
      BY <2>2, <3>1, <3>2 DEF Leaves
    <3>4. QED
      BY <2>3, <3>1, <3>2, <3>3
  <2>6. QED
    BY <1>1, <1>3, <2>1, <2>4, <2>5 DEF Orderly
<1>9. QED
  BY <1>6, <1>7, <1>8 DEF Game

\* Clients that wait for their answers, over a link that holds: every actor can
\* be reached through his session.
THEOREM NoGhostsCorrect == OrderlySpec => []NoGhosts
<1>1. Init => IInv /\ Orderly
  <2> SUFFICES ASSUME Init PROVE IInv /\ Orderly
    OBVIOUS
  <2>1. requests = <<>> /\ replies = <<>> /\ is_connect /\ \A u \in Uids : actor_mgr[u] = Nil
    BY DEF Init
  <2>2. \A s : Sole(All, s, <<>>, <<>>) /\ Queued(<<>>) = {}
    BY DEF Sole, Of, Queued
  <2>3. QED
    BY <2>1, <2>2, InitIInv DEF Orderly, NoGhosts
<1>2. IInv /\ Orderly /\ [OrderlyNext]_vars => IInv' /\ Orderly'
  <2> SUFFICES ASSUME IInv, Orderly, [OrderlyNext]_vars PROVE IInv' /\ Orderly'
    OBVIOUS
  <2>1. [Next]_vars
    BY DEF OrderlyNext, Next
  <2>2. IInv'
    BY <2>1, NextKeepsIInv
  <2>3. CASE UNCHANGED vars
    <3>1. UNCHANGED <<client, game, link>>
      BY <2>3 DEF vars
    <3>2. Orderly'
      BY <3>1 DEF Orderly, NoGhosts, Due, Waiting, client, game, link
    <3>3. QED
      BY <2>2, <3>2
  <2>4. CASE OrderlyNext
    <3>1. ASSUME NEW s \in Sids, ~Waiting(s), Client(s) PROVE Orderly'
      BY <3>1, ClientKeepsOrder
    <3>2. QED
      BY <2>2, <2>4, <3>1, DbKeepsOrder, GameKeepsOrder DEF OrderlyNext
  <2>5. QED
    BY <2>3, <2>4
<1>3. Orderly => NoGhosts
  BY DEF Orderly
<1>4. QED
  BY <1>1, <1>2, <1>3, PTL DEF OrderlySpec

=============================================================================
