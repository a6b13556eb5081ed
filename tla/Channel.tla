------------------------------ MODULE Channel ------------------------------
(***************************************************************************)
(* What the message channels of the device and of the client promise: a    *)
(* connection is made for one session, the greeting the class sends (if it *)
(* has one) goes first and once, and what waits to be sent was put there   *)
(* for this session. What waits when a connection ends is lost. Only       *)
(* messages of the unlocked kinds come when they like, for any session.    *)
(*                                                                         *)
(* An abstract specification: it stands for no code. ClientStream and      *)
(* DeviceInstance implement it.                                            *)
(***************************************************************************)
EXTENDS Sequences

CONSTANTS
  Sessions,  \* session numbers the servers hand out
  Kinds,     \* the kinds of messages
  Greeting,  \* the kinds that greet: at most one, put once on each connection
  Unlocked   \* the kinds that threads put without holding the connection

VARIABLES
  up,        \* there is a connection, logged in
  greeted,   \* its greeting has been put
  session,   \* the session number of the last login
  out        \* the messages that wait to be sent

vars == <<up, greeted, session, out>>

Message == [kind : Kinds, sess : Sessions]

Init ==
  /\ up = FALSE
  /\ greeted = FALSE
  /\ session \in Sessions
  /\ out = <<>>

\* The server answers a request for a session number.
NewSession ==
  /\ ~up
  /\ session' \in Sessions
  /\ UNCHANGED <<up, greeted, out>>

Establish ==
  /\ ~up
  /\ up' = TRUE
  /\ greeted' = (Greeting = {})
  /\ UNCHANGED <<session, out>>

Greet ==
  /\ up /\ ~greeted
  /\ greeted' = TRUE
  /\ \E kind \in Greeting : out' = Append(out, [kind |-> kind, sess |-> session])
  /\ UNCHANGED <<up, session>>

Put ==
  /\ up /\ greeted
  /\ \E kind \in Kinds \ (Greeting \cup Unlocked) : out' = Append(out, [kind |-> kind, sess |-> session])
  /\ UNCHANGED <<up, greeted, session>>

\* The thread tested the connection some time ago, and noted the session it
\* found then.
PutUnlocked ==
  /\ \E kind \in Unlocked, s \in Sessions : out' = Append(out, [kind |-> kind, sess |-> s])
  /\ UNCHANGED <<up, greeted, session>>

Send ==
  /\ out # <<>>
  /\ out' = Tail(out)
  /\ UNCHANGED <<up, greeted, session>>

Close ==
  /\ up' = FALSE
  /\ greeted' = FALSE
  /\ out' = <<>>
  /\ UNCHANGED session

Next == NewSession \/ Establish \/ Greet \/ Put \/ PutUnlocked \/ Send \/ Close

Spec == Init /\ [][Next]_vars

=============================================================================
