----------------------------- MODULE Conference -----------------------------
(***************************************************************************)
(* What the text conferencing server promises, without its threads, locks  *)
(* and lists: clients log in and out, and between the two they are members *)
(* of sessions.  A session is open from its creation to the departure of   *)
(* its last member and never opens again, one step changes the membership  *)
(* of one client in one session, and whoever logs out is a member of       *)
(* nothing.                                                                *)
(***************************************************************************)
CONSTANTS
  Clients,   (* the clients of one behaviour *)
  Numbers    (* the session numbers          *)

VARIABLES
  online,    (* the clients logged in            *)
  session,   (* the state of each session        *)
  members    (* the members of each session      *)

vars == <<online, session, members>>

Init ==
  /\ online = {}
  /\ session = [n \in Numbers |-> "unused"]
  /\ members = [n \in Numbers |-> {}]

LogIn(c) ==
  /\ c \notin online
  /\ online' = online \cup {c}
  /\ UNCHANGED <<session, members>>

Create(n) ==
  /\ session[n] = "unused"
  /\ session' = [session EXCEPT ![n] = "open"]
  /\ UNCHANGED <<online, members>>

Join(c, n) ==
  /\ c \in online \ members[n]
  /\ session[n] = "open"
  /\ members' = [members EXCEPT ![n] = @ \cup {c}]
  /\ UNCHANGED <<online, session>>

Leave(c, n) ==
  /\ c \in members[n]
  /\ members' = [members EXCEPT ![n] = @ \ {c}]
  /\ session' = IF members[n] = {c} THEN [session EXCEPT ![n] = "closed"] ELSE session
  /\ UNCHANGED online

LogOut(c) ==
  /\ c \in online
  /\ \A n \in Numbers : c \notin members[n]
  /\ online' = online \ {c}
  /\ UNCHANGED <<session, members>>

Next ==
  \/ \E c \in Clients : LogIn(c) \/ LogOut(c)
  \/ \E n \in Numbers : Create(n)
  \/ \E c \in Clients, n \in Numbers : Join(c, n) \/ Leave(c, n)

Spec == Init /\ [][Next]_vars
=============================================================================
