------------------------------- MODULE Table --------------------------------
(***************************************************************************)
(* What the rooms of Douniu promise, without hands, choices, countdowns or *)
(* errors: who sits where, and which state may follow which.               *)
(***************************************************************************)
EXTENDS Integers, FiniteSets

CONSTANTS Actors, Rooms, MaxActor

VARIABLES
  state,   \* the state of each room, 1..6
  seated   \* the actors in each room

vars == <<state, seated>>

Init ==
  /\ state = [r \in Rooms |-> 1]
  /\ seated = [r \in Rooms |-> {}]

\* An actor sits in one room, and a room does not overflow.  Coming in never
\* moves a room on.
Join(r, a) ==
  /\ \A s \in Rooms : a \notin seated[s]
  /\ Cardinality(seated[r]) < MaxActor
  /\ seated' = [seated EXCEPT ![r] = @ \cup {a}]
  /\ UNCHANGED state

\* The last but one to leave a running round ends it: it is settled, or it
\* stays in XUANPAI.  Otherwise a room with fewer than two returns to NULL.
Leave(r, a) ==
  /\ a \in seated[r]
  /\ seated' = [seated EXCEPT ![r] = @ \ {a}]
  /\ \/ /\ Cardinality(seated[r]) > 2
        /\ UNCHANGED state
     \/ /\ Cardinality(seated[r]) = 2 /\ state[r] \in 3..5
        /\ \E s \in {5, 6} : state' = [state EXCEPT ![r] = s]
     \/ /\ Cardinality(seated[r]) = 2 => state[r] \notin 3..5
        /\ Cardinality(seated[r]) <= 2
        /\ state' = [state EXCEPT ![r] = 1]

\* A round starts with two actors or more and goes through its states in order.
Begin(r) ==
  /\ Cardinality(seated[r]) >= 2
  /\ state[r] \in {1, 6}
  /\ state' = [state EXCEPT ![r] = 2]
  /\ UNCHANGED seated

Proceed(r) ==
  /\ Cardinality(seated[r]) >= 2
  /\ state[r] \in 2..5
  /\ state' = [state EXCEPT ![r] = @ + 1]
  /\ UNCHANGED seated

Close(r) ==
  /\ Cardinality(seated[r]) < 2
  /\ state[r] = 6
  /\ state' = [state EXCEPT ![r] = 1]
  /\ UNCHANGED seated

Next ==
  \E r \in Rooms :
    \/ \E a \in Actors : Join(r, a) \/ Leave(r, a)
    \/ Begin(r)
    \/ Proceed(r)
    \/ Close(r)

Spec == Init /\ [][Next]_vars
=============================================================================
