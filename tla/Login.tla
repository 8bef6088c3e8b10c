------------------------------- MODULE Login --------------------------------
(***************************************************************************)
(* Login, actors and logout: the handlers of gamesrv in data/login,        *)
(* data/actor and data/gatesrv, and those of dbsrv in data/login.          *)
(*                                                                         *)
(* A session is a websocket connection, numbered by gatesrv.  gatesrv      *)
(* passes its opening, its messages and its close frame to gamesrv over    *)
(* one connection, in order; gamesrv handles each in one step.  A login    *)
(* asks dbsrv twice, LOGIN for the uid and GET for the data; a logout      *)
(* saves with SET and destroys the actor when the answer comes.            *)
(*                                                                         *)
(* What is abstracted: of an actor's place in the rooms only whether he    *)
(* has a seat (module Douniu); his data; of time whether the ten seconds   *)
(* of temp_session have passed; a client sends nothing after its close     *)
(* frame.                                                                  *)
(***************************************************************************)
EXTENDS Integers, Sequences, FiniteSets, SequencesExt

CONSTANTS
  Sids,       \* the sessions
  Account,    \* the openid with which each session logs in
  Uids,       \* what math.random may draw for a uid (dbsrv LOGIN)
  MaxLogins,  \* bound: the login messages of one session
  Nil         \* Lua's nil

Errors == {1, 2}  \* LOGIN: no such account, wrong signature

Message ==
  [action : {"LOGIN", "GET", "SET"}, sid : Sids, errno : {0} \cup Errors,
   uid : Uids \cup {Nil}]

ASSUME UidsAssumption == Uids \subseteq Nat /\ Nil \notin Nat

ASSUME LoginsAssumption == MaxLogins \in Nat

VARIABLES
  session,        \* what gamesrv may know of each session
  sent,           \* how often each session has sent a login message
  answer,         \* errno of the last LOGIN_R sent since its last login message
  temp_session,   \* Login.temp_session: how long ago GET was posted
  actors,         \* the actors that create_actor has made, in their order
  actor_mgr,      \* Actor.actor_mgr: the actor of each uid
  actor_session,  \* Actor.actor_session: the actor of each session
  seated,         \* the actors that sit in a room
  is_connect,     \* Dbclient.is_connect_
  requests,       \* on the way from gamesrv to dbsrv
  replies         \* on the way from dbsrv to gamesrv

client == <<session, sent, answer>>
game   == <<temp_session, actors, actor_mgr, actor_session, seated>>
link   == <<is_connect, requests, replies>>
vars   == <<client, game, link>>

Msg(action, sid, errno, uid) ==
  [action |-> action, sid |-> sid, errno |-> errno, uid |-> uid]

\* Dbclient.post: what is posted while the link is down is gone.
Post(msg) ==
  /\ requests' = IF is_connect THEN Append(requests, msg) ELSE requests
  /\ UNCHANGED <<is_connect, replies>>

Send(sid, errno) == answer' = [answer EXCEPT ![sid] = errno]

-----------------------------------------------------------------------------
(* What gatesrv passes on *)

on_session_open(s) ==
  /\ session[s] = "new"
  /\ session' = [session EXCEPT ![s] = "open"]
  /\ UNCHANGED <<sent, answer, game, link>>

\* dispatch_msg of a session without an actor: whatever it sends is a login.
msg_login(s) ==
  /\ session[s] = "open"
  /\ actor_session[s] = Nil
  /\ sent[s] < MaxLogins
  /\ sent' = [sent EXCEPT ![s] = @ + 1]
  /\ Send(s, IF is_connect THEN Nil ELSE 4)
  /\ Post(Msg("LOGIN", s, 0, Nil))
  /\ UNCHANGED <<session, game>>

\* dispatch_msg of an actor, of which only the seat is kept.
Enter(s) ==
  /\ session[s] = "open"
  /\ actor_session[s] # Nil
  /\ seated' = seated \cup {actor_session[s]}
  /\ UNCHANGED <<client, temp_session, actors, actor_mgr, actor_session, link>>

Exit(s) ==
  /\ session[s] = "open"
  /\ actor_session[s] \in seated
  /\ seated' = seated \ {actor_session[s]}
  /\ UNCHANGED <<client, temp_session, actors, actor_mgr, actor_session, link>>

Close(s) ==
  /\ session[s] = "open"
  /\ session' = [session EXCEPT ![s] = "closed"]
  /\ UNCHANGED <<sent, answer, temp_session, actors, actor_mgr, actor_session>>

\* Mutant: the actor is saved and stays in his room.
on_session_close_Seated(s) ==
  /\ Close(s)
  /\ actor_session[s] # Nil
  /\ Post(Msg("SET", s, 0, actors[actor_session[s]].uid))
  /\ UNCHANGED seated

\* Mutant: nothing is saved.
on_session_close_Unsaved(s) ==
  /\ Close(s)
  /\ actor_session[s] # Nil
  /\ seated' = seated \ {actor_session[s]}
  /\ UNCHANGED link

\* The actor leaves his room and is saved.
on_session_close(s) ==
  /\ Close(s)
  /\ actor_session[s] # Nil
  /\ seated' = seated \ {actor_session[s]}
  /\ Post(Msg("SET", s, 0, actors[actor_session[s]].uid))

\* There is no actor yet, or there never was.
on_session_close_Nobody(s) ==
  /\ Close(s)
  /\ actor_session[s] = Nil
  /\ UNCHANGED <<seated, link>>

\* exit_room ends with an error after it has freed the seat (Douniu!Exit).
on_session_close_Fails(s) ==
  /\ Close(s)
  /\ actor_session[s] \in seated
  /\ seated' = seated \ {actor_session[s]}
  /\ UNCHANGED link

\* The connection ends without a close frame, or gatesrv has no link to gamesrv
\* when the frame comes: gamesrv is not told.
Vanish(s) ==
  /\ session[s] = "open"
  /\ session' = [session EXCEPT ![s] = "gone"]
  /\ UNCHANGED <<sent, answer, game, link>>

-----------------------------------------------------------------------------
(* dbsrv: a request is read, handled and answered in one step.  A reply is
   lost when the connection is not there. *)

Asked(action) == requests # <<>> /\ Head(requests).action = action

Reply(errno, uid) ==
  LET msg == Head(requests)
  IN  /\ requests' = Tail(requests)
      /\ replies' = IF is_connect
                    THEN Append(replies, Msg(msg.action, msg.sid, errno, uid))
                    ELSE replies
      /\ UNCHANGED <<is_connect, client, game>>

DbLOGIN ==
  /\ Asked("LOGIN")
  /\ \/ \E errno \in Errors : Reply(errno, Nil)
     \/ \E uid \in Uids : Reply(0, uid)

\* Mutant: no answer without a row.
DbGETSilent ==
  /\ Asked("GET")
  /\ \/ Reply(0, Head(requests).uid)
     \/ /\ requests' = Tail(requests)
        /\ UNCHANGED <<is_connect, replies, client, game>>

\* Whether the rows are there or not.
DbGET ==
  /\ Asked("GET")
  /\ Reply(0, Head(requests).uid)

DbSET ==
  /\ Asked("SET")
  /\ Reply(0, Head(requests).uid)

-----------------------------------------------------------------------------
(* gamesrv: the replies *)

Replied(action) == replies # <<>> /\ Head(replies).action = action

\* Mutant: a session may ask again while its data is on the way.
MayGetAlways(s) == TRUE

MayGet(s) == temp_session[s] # "recent"

LOGIN ==
  /\ Replied("LOGIN")
  /\ replies' = Tail(replies)
  /\ UNCHANGED <<session, sent, actors, actor_mgr, actor_session, seated, is_connect>>
  /\ LET msg == Head(replies)
     IN  \/ /\ msg.errno # 0
            /\ Send(msg.sid, msg.errno)
            /\ UNCHANGED <<temp_session, requests>>
         \/ /\ msg.errno = 0
            /\ actor_mgr[msg.uid] # Nil
            /\ Send(msg.sid, 4)
            /\ UNCHANGED <<temp_session, requests>>
         \/ /\ msg.errno = 0
            /\ actor_mgr[msg.uid] = Nil
            /\ ~MayGet(msg.sid)
            /\ UNCHANGED <<answer, temp_session, requests>>
         \/ /\ msg.errno = 0
            /\ actor_mgr[msg.uid] = Nil
            /\ MayGet(msg.sid)
            /\ temp_session' = [temp_session EXCEPT ![msg.sid] = "recent"]
            /\ requests' =
                 IF is_connect THEN Append(requests, Msg("GET", msg.sid, 0, msg.uid))
                 ELSE requests
            /\ UNCHANGED answer

\* Mutants: the actor is not filed under his session; he is filed under the
\* number of the actor before him.
create_actor_Unregistered(sid, uid) ==
  /\ actors' = Append(actors, [sid |-> sid, uid |-> uid])
  /\ actor_mgr' = [actor_mgr EXCEPT ![uid] = Len(actors) + 1]
  /\ UNCHANGED actor_session

create_actor_Last(sid, uid) ==
  /\ actors' = Append(actors, [sid |-> sid, uid |-> uid])
  /\ actor_mgr' = [actor_mgr EXCEPT ![uid] = Len(actors)]
  /\ actor_session' = [actor_session EXCEPT ![sid] = Len(actors)]

create_actor(sid, uid) ==
  /\ actors' = Append(actors, [sid |-> sid, uid |-> uid])
  /\ actor_mgr' = [actor_mgr EXCEPT ![uid] = Len(actors) + 1]
  /\ actor_session' = [actor_session EXCEPT ![sid] = Len(actors) + 1]

\* Whatever became of the session, there is an actor now.
GET ==
  /\ Replied("GET")
  /\ replies' = Tail(replies)
  /\ LET msg == Head(replies)
     IN  /\ temp_session' = [temp_session EXCEPT ![msg.sid] = Nil]
         /\ create_actor(msg.sid, msg.uid)
         /\ Send(msg.sid, 0)
  /\ UNCHANGED <<session, sent, seated, is_connect, requests>>

\* Mutant: the session of the actor is not compared.
LeavesAnyway(sid, uid) == actor_mgr[uid] # Nil

\* destory_actor: the actor of the uid goes if he is still that session's.
Leaves(sid, uid) == actor_mgr[uid] # Nil /\ actors[actor_mgr[uid]].sid = sid

\* SET and destory_actor; without an actor of that uid it ends with an error
\* after its first assignment.
SET ==
  /\ Replied("SET")
  /\ replies' = Tail(replies)
  /\ LET msg == Head(replies)
     IN  /\ actor_session' = [actor_session EXCEPT ![msg.sid] = Nil]
         /\ actor_mgr' = [actor_mgr EXCEPT
              ![msg.uid] = IF Leaves(msg.sid, msg.uid) THEN Nil ELSE @]
  /\ UNCHANGED <<client, temp_session, actors, seated, is_connect, requests>>

-----------------------------------------------------------------------------
(* Time and the link to dbsrv *)

\* os.time() - temp_session[sid] reaches 10.
TenSeconds(s) ==
  /\ temp_session[s] = "recent"
  /\ temp_session' = [temp_session EXCEPT ![s] = "old"]
  /\ UNCHANGED <<client, actors, actor_mgr, actor_session, seated, link>>

\* The connection breaks.  Replies on the way are lost; dbsrv has received some
\* of the requests and will handle them.
LinkDown ==
  /\ is_connect
  /\ is_connect' = FALSE
  /\ replies' = <<>>
  /\ \E n \in 0..Len(requests) : requests' = SubSeq(requests, 1, n)
  /\ UNCHANGED <<client, game>>

\* Dbclient.update connects again.
LinkUp ==
  /\ ~is_connect
  /\ is_connect' = TRUE
  /\ UNCHANGED <<requests, replies, client, game>>

-----------------------------------------------------------------------------

Init ==
  /\ session = [s \in Sids |-> "new"]
  /\ sent = [s \in Sids |-> 0]
  /\ answer = [s \in Sids |-> Nil]
  /\ temp_session = [s \in Sids |-> Nil]
  /\ actors = <<>>
  /\ actor_mgr = [u \in Uids |-> Nil]
  /\ actor_session = [s \in Sids |-> Nil]
  /\ seated = {}
  /\ is_connect = TRUE
  /\ requests = <<>>
  /\ replies = <<>>

Client(s) ==
  \/ on_session_open(s)
  \/ msg_login(s)
  \/ Enter(s)
  \/ Exit(s)
  \/ on_session_close(s)
  \/ on_session_close_Nobody(s)

Db == DbLOGIN \/ DbGET \/ DbSET

Game == LOGIN \/ GET \/ SET

Next ==
  \/ \E s \in Sids : Client(s) \/ on_session_close_Fails(s) \/ Vanish(s) \/ TenSeconds(s)
  \/ Db
  \/ Game
  \/ LinkDown
  \/ LinkUp

Spec == Init /\ [][Next]_vars

-----------------------------------------------------------------------------
(* The ten seconds of temp_session as they are meant: an answer that has not
   come by then will not come. *)

Gets(s, queue) ==
  {i \in DOMAIN queue : queue[i].action = "GET" /\ queue[i].sid = s}

PatientNext ==
  \/ \E s \in Sids : Client(s) \/ on_session_close_Fails(s) \/ Vanish(s)
  \/ \E s \in Sids : /\ Gets(s, requests) = {} /\ Gets(s, replies) = {}
                     /\ TenSeconds(s)
  \/ Db
  \/ Game
  \/ LinkDown
  \/ LinkUp

PatientSpec == Init /\ [][PatientNext]_vars

(* Clients that wait for the answer to a login before they do anything else, a
   link that holds, and rooms that can be left. *)

Waiting(s) == sent[s] > 0 /\ answer[s] = Nil

OrderlyNext ==
  \/ \E s \in Sids : ~Waiting(s) /\ Client(s)
  \/ Db
  \/ Game

\* Both processes read what has arrived (aeProcessEvents).
OrderlySpec == Init /\ [][OrderlyNext]_vars /\ WF_vars(Db) /\ WF_vars(Game)

-----------------------------------------------------------------------------
(* Properties *)

\* Every variable has its type, and every actor is filed under his own uid and
\* his own session.
TypeOK ==
  /\ session \in [Sids -> {"new", "open", "closed", "gone"}]
  /\ sent \in [Sids -> 0..MaxLogins]
  /\ answer \in [Sids -> {Nil, 0, 1, 2, 4}]
  /\ temp_session \in [Sids -> {Nil, "recent", "old"}]
  /\ actors \in Seq([sid : Sids, uid : Uids])
  /\ actor_mgr \in [Uids -> DOMAIN actors \cup {Nil}]
  /\ actor_session \in [Sids -> DOMAIN actors \cup {Nil}]
  /\ \A u \in Uids : actor_mgr[u] # Nil => actors[actor_mgr[u]].uid = u
  /\ \A s \in Sids : actor_session[s] # Nil => actors[actor_session[s]].sid = s
  /\ seated \subseteq DOMAIN actors
  /\ is_connect \in BOOLEAN
  /\ requests \in Seq(Message)
  /\ replies \in Seq(Message)

\* A seat outlives the close of its session only if a second login of that
\* session has put another actor in its place (gatesrv/main.lua 37-46): neither
\* a lost SET nor an error in exit_room nor a late GET leaves a seat behind.
SeatsFreed ==
  \A n \in seated :
    session[actors[n].sid] = "closed" =>
      \E m \in (n + 1)..Len(actors) : actors[m].sid = actors[n].sid

\* Nobody but his own session takes an actor away: he leaves actor_mgr, other
\* than for a new actor of his uid, and his session only after its close; and a
\* reply that comes late or twice does not harm another session's actor
\* (actormgr.lua 6-13).
OnlyOwnClose ==
  [][/\ \A u \in Uids : actor_mgr[u] # Nil /\ actor_mgr'[u] = Nil =>
          session[actors[actor_mgr[u]].sid] = "closed"
     /\ \A s \in Sids : actor_session[s] # Nil /\ actor_session'[s] = Nil =>
          session[s] = "closed"]_vars

\* A session has one GET on the way at most, also after logins sent twice, lost
\* requests and retries, provided that an answer comes within ten seconds or
\* not at all (login/main.lua 48-56).
OneGet ==
  \A s \in Sids :
    Cardinality(Gets(s, requests)) + Cardinality(Gets(s, replies)) <= 1

\* With orderly clients every actor in actor_mgr can be reached through his
\* session: there are no ghosts.
NoGhosts ==
  \A u \in Uids : actor_mgr[u] # Nil =>
    actor_session[actors[actor_mgr[u]].sid] = actor_mgr[u]

\* With orderly clients a closed session is forgotten in the end.
Forgotten ==
  \A s \in Sids :
    session[s] = "closed" ~>
      /\ actor_session[s] = Nil
      /\ \A u \in Uids : actor_mgr[u] # Nil => actors[actor_mgr[u]].sid # s

\* With orderly clients and a link that holds every login is answered.
LoginAnswered == \A s \in Sids : Waiting(s) ~> ~Waiting(s)

-----------------------------------------------------------------------------
(* What a comment of the source says and the code does not do *)

\* login.proto 22: a duplicate login of an account is refused.
OneActorPerAccount ==
  \A s, t \in Sids :
    /\ s # t /\ Account[s] = Account[t]
    /\ session[s] = "open" /\ session[t] = "open"
    => actor_session[s] = Nil \/ actor_session[t] = Nil

=============================================================================
