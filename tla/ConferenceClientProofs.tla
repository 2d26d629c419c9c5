----------------------- MODULE ConferenceClientProofs -----------------------
(***************************************************************************)
(* Proofs about the conference client, for every length of insessions, any *)
(* lines and any number of them, and every interleaving of its threads.    *)
(***************************************************************************)
EXTENDS ConferenceClient, FiniteSetTheorems, WellFoundedInduction, TLAPS

\* The identifiers of invitations and sessions are not 0, which invit_session
\* is before any is stored.
Genuine(p) == p.type \in Grants \cup {"INVIT"} => p.id # 0

(***************************************************************************)
(* The invitation, whoever types what and when.  The announcement holds    *)
(* the mutex from before invit is set until the session is stored; main()  *)
(* answers with the mutex held.                                            *)
(***************************************************************************)
InvitInv ==
  /\ main = "answer" => invit
  /\ invit => invit_mutex = "receive" \/ invit_session # 0
  /\ invit_mutex = "main" => main = "send"
  /\ receive = "print" => invit_mutex = "receive"
  /\ receive \in {"lock", "print"} => rcvd.id # 0
  /\ main \in {"dispatch", "answer"} => buf = typed \/ buf \in Packets
  /\ AnswersAnInvitation

\* No packet that grants or invites and no entry of insessions is about 0.
GenuineInv ==
  /\ \A i \in DOMAIN toClient : Genuine(toClient[i])
  /\ buf \in Packets => Genuine(buf)
  /\ Genuine(rcvd)
  /\ receive = "store" => rcvd.type \in Grants \cup {"JN_NAK"}
  /\ \A i \in Slots : insessions[i] # 0

BaseInv == TypeOK /\ InvitInv /\ GenuineInv

FromServer == Replies \cup {"MESSAGE", "INVIT"}
Asks == {"JOIN", "NEW_SESS"}

\* receive() has a reply in hand.
Handling == receive \in {"parse", "store"} /\ rcvd.type \in Replies

Answered == Handling \/ \E i \in DOMAIN toClient : toClient[i].type \in Replies

\* The session an acknowledgement that has not taken effect yet is about.
Granted(id) ==
  \/ \E i \in DOMAIN toClient : toClient[i].type \in Grants /\ toClient[i].id = id
  \/ Handling /\ rcvd.type \in Grants /\ rcvd.id = id

\* A session was asked for and has not been stored or refused.
Asking ==
  \/ main = "send" /\ packet.type \in Asks
  \/ \E i \in DOMAIN toServer : toServer[i].type \in Asks
  \/ \E id \in Int : Granted(id)

(***************************************************************************)
(* A user who waits.  At most one request or reply is on its way, a        *)
(* request behind all that was sent before it, and main() is at its prompt *)
(* meanwhile.  What main() sends is the packet it built or, where recv()   *)
(* came in between, one that the server takes for nothing.                 *)
(***************************************************************************)
PipeInv ==
  /\ main # "prompt" => ~Awaiting
  /\ Answered => toServer = <<>>
  /\ \A i \in DOMAIN toServer : toServer[i].type \in Requests => i = Len(toServer)
  /\ \A i, j \in DOMAIN toClient :
       toClient[i].type \in Replies /\ toClient[j].type \in Replies => i = j
  /\ Handling => \A i \in DOMAIN toClient : toClient[i].type \notin Replies
  /\ \A i \in DOMAIN toClient : toClient[i].type \in FromServer
  /\ receive = "parse" /\ buf \in Packets /\ buf.type \in Replies => buf = rcvd
  /\ main = "send" => (buf = packet \/ buf.type \in FromServer) /\ packet.type \notin Replies

(***************************************************************************)
(* Then session_count leaves room for what was asked for, what is listed   *)
(* or granted is in the server's list, and listed once; what was left is   *)
(* not listed by the time the server hears of it.                          *)
(***************************************************************************)
ListInv ==
  /\ StaysBelowLimit
  /\ Asking => session_count < MAX_SESSION
  /\ \A id \in member \cup Existing : id < sessionCnt
  /\ ListedIsMember
  /\ \A i, j \in Slots : insessions[i] = insessions[j] => i = j \/ insessions[i] = INVALID_SESSION
  /\ \A id \in Int : Granted(id) => id \in member \ Listed
  /\ \A i \in DOMAIN toServer :
       /\ toServer[i].type = "LEAVE_SESS" => toServer[i].id \notin Listed
       /\ toServer[i].type = "EXIT" => Listed = {}
  /\ main = "send" /\ packet.type = "LEAVE_SESS" =>
       idx \in Slots /\ insessions[idx] = packet.id
  /\ EngagedIsListed

WaitInv == PipeInv /\ ListInv

-----------------------------------------------------------------------------
(***************************************************************************)
(* A set of natural numbers has a least element: the initial segments they *)
(* end are finite sets, and strict inclusion is well-founded on those.     *)
(***************************************************************************)
LEMMA StrictSubset ==
  ASSUME NEW a \in SUBSET Nat, NEW b \in SUBSET Nat, a \subseteq b, a # b
  PROVE  <<a, b>> \in StrictSubsetOrdering(Nat)
  BY DEF StrictSubsetOrdering

LEMMA LeastNatural ==
  ASSUME NEW S \in SUBSET Nat, S # {}
  PROVE  \E x \in S : \A y \in S : x <= y
<1> DEFINE R == StrictSubsetOrdering(Nat)
           T == {0 .. n : n \in S}
<1>1. IsWellFoundedOn(R, FiniteSubsetsOf(Nat))
  BY FS_StrictSubsetOrderingWellFounded
<1>2. T \subseteq FiniteSubsetsOf(Nat) /\ T # {}
  <2>1. \A n \in S : 0 .. n \in SUBSET Nat /\ IsFiniteSet(0 .. n)
    BY FS_Interval
  <2> QED
    BY <2>1 DEF FiniteSubsetsOf
<1>3. \E x \in T : \A y \in T : ~(<<y, x>> \in R)
  <2> HIDE DEF R, T
  <2> QED
    BY <1>1, <1>2, WFMin
<1>4. PICK x \in S : \A y \in S : ~(<<0 .. y, 0 .. x>> \in R)
  BY <1>3
<1>5. ASSUME NEW y \in S, y < x PROVE FALSE
  <2>1. 0 .. y \subseteq 0 .. x /\ x \notin 0 .. y /\ x \in 0 .. x
    BY <1>5
  <2>2. 0 .. y # 0 .. x
    BY <2>1
  <2>3. <<0 .. y, 0 .. x>> \in StrictSubsetOrdering(Nat)
    BY <2>1, <2>2, StrictSubset
  <2> QED
    BY <1>4, <2>3
<1> QED
  BY <1>5

-----------------------------------------------------------------------------
(***************************************************************************)
(* Packets and lines.                                                      *)
(***************************************************************************)
LEMMA PacketIsNoLine == ASSUME NEW p \in Packets PROVE ~IsLine(p)
  BY DEF IsLine, Packets

LEMMA LineIsLine ==
  ASSUME NEW l \in Lines
  PROVE  IsLine(l) /\ l.id \in Int \cup {NoId} /\ l \notin Packets
  BY ClientAssumption DEF IsLine, Packets

LEMMA MsgIsPacket ==
  ASSUME NEW type \in Types, NEW id \in Int
  PROVE  Msg(type, id) \in Packets /\ Msg(type, id).type = type /\ Msg(type, id).id = id
  BY DEF Msg, Packets

\* A packet appended to a connection.
LEMMA Appended ==
  ASSUME NEW s \in Seq(Packets), NEW p \in Packets
  PROVE  /\ Append(s, p) \in Seq(Packets) /\ Len(Append(s, p)) = Len(s) + 1
         /\ \A i \in DOMAIN Append(s, p) :
              \/ i \in DOMAIN s /\ Append(s, p)[i] = s[i]
              \/ i = Len(s) + 1 /\ Append(s, p)[i] = p
  OBVIOUS

LEMMA Taken ==
  ASSUME NEW s \in Seq(Packets), s # <<>>
  PROVE  /\ Head(s) \in Packets /\ Head(s) = s[1] /\ 1 \in DOMAIN s
         /\ Tail(s) \in Seq(Packets) /\ Len(Tail(s)) = Len(s) - 1
         /\ \A i \in DOMAIN Tail(s) : i + 1 \in DOMAIN s /\ Tail(s)[i] = s[i + 1]
  OBVIOUS

\* What send() hands on.
LEMMA PassedIs ==
  ASSUME TypeOK, main = "send"
  PROVE  /\ Passed \in Seq(Packets)
         /\ \/ Passed = <<>>
            \/ Passed = <<buf>>
            \/ Passed = <<buf, packet>> /\ packet.type = "EXIT" /\ buf # packet
  BY DEF Passed, TypeOK

\* A packet main() builds: its fields, and that the rest of Build fits.
LEMMA Built ==
  ASSUME BaseInv, NEW type \in Types, NEW id \in Int, Build(Msg(type, id)),
         main \in {"dispatch", "answer"},
         Genuine(Msg(type, id)),
         invit_session' = invit_session,
         invit' <=> invit, invit' \in BOOLEAN,
         \/ invit_mutex' = invit_mutex /\ invit_mutex # "main"
         \/ invit_mutex' = "main" /\ invit_mutex = "free",
         type = "JOIN" /\ typed.cmd = "y" => id # 0
  PROVE  BaseInv'
<1> DEFINE p == Msg(type, id)
<1>1. p \in Packets /\ p.type = type /\ p.id = id
  BY MsgIsPacket
<1>2. /\ packet' = p /\ buf' = p /\ main' = "send" /\ main # "send"
      /\ UNCHANGED <<status, receive, typed, rcvd, online, sessions, server, net, bounds>>
  BY DEF Build
<1> HIDE DEF p
<1>3. TypeOK'
  BY <1>1, <1>2 DEF BaseInv, TypeOK, sessions, server, net
<1>4. InvitInv'
  BY <1>1, <1>2 DEF BaseInv, InvitInv, TypeOK, AnswersAnInvitation
<1>5. GenuineInv'
  BY <1>1, <1>2 DEF BaseInv, GenuineInv, Genuine, net, sessions, p
<1> QED
  BY <1>3, <1>4, <1>5 DEF BaseInv

\* Nothing is sent, and the places keep what they hold.
LEMMA Returned ==
  ASSUME BaseInv, main \in {"dispatch", "answer"}, Done, status' \in {status, "ended"},
         UNCHANGED <<buf, rcvd, insessions, session_count, server, net, invit_session>>,
         insession' \in Int, online' \in BOOLEAN,
         receive' = receive \/ receive' = "recv",
         invit' => invit, invit' \in BOOLEAN, invit_mutex' = invit_mutex
  PROVE  BaseInv'
<1>1. main' = "prompt" /\ typed' = Nothing /\ packet' = Nothing
  BY DEF Done
<1>2. Nothing \in Packets /\ Nothing.type = "" 
  BY DEF Nothing, Msg, Packets, Types
<1>3. TypeOK'
  BY <1>1, <1>2 DEF BaseInv, TypeOK, server, net
<1>4. InvitInv'
  BY <1>1, <1>2 DEF BaseInv, InvitInv, TypeOK, AnswersAnInvitation
<1>5. /\ UNCHANGED <<toClient, buf, rcvd, insessions>>
      /\ receive' = "store" => receive = "store"
  BY DEF net
<1>6. GenuineInv'
  BY <1>5 DEF BaseInv, GenuineInv, Genuine
<1> QED
  BY <1>3, <1>4, <1>6 DEF BaseInv

-----------------------------------------------------------------------------
(***************************************************************************)
(* The invariants above, step by step.                                     *)
(***************************************************************************)
LEMMA BaseMain ==
  ASSUME BaseInv, Main
  PROVE  BaseInv'
<1>1. ASSUME NEW l \in Lines, ReadLine(l) PROVE BaseInv'
  <2>1. TypeOK'
    BY <1>1 DEF ReadLine, BaseInv, TypeOK, sessions, invitation, server, net
  <2>2. InvitInv'
    BY <1>1 DEF ReadLine, BaseInv, InvitInv, TypeOK, invitation, AnswersAnInvitation
  <2>3. GenuineInv'
    BY <1>1, LineIsLine DEF ReadLine, BaseInv, GenuineInv, Genuine, net, sessions
  <2> QED
    BY <2>1, <2>2, <2>3 DEF BaseInv
<1>2. ASSUME Refuse, main \in {"dispatch", "answer"} PROVE BaseInv'
  <2>1. /\ insession' \in Int /\ online' \in BOOLEAN /\ receive' = receive /\ status' = status
        /\ (invit' => invit) /\ invit' \in BOOLEAN /\ invit_mutex' = invit_mutex /\ Done
        /\ UNCHANGED <<buf, rcvd, insessions, session_count, server, net, invit_session>>
    BY <1>2 DEF Refuse, BaseInv, TypeOK, sessions, invitation
  <2> QED
    BY <1>2, <2>1, Returned
\* A packet built by a command: the mutex is not involved.
<1>3. ASSUME NEW type \in Types, NEW id \in Int, Build(Msg(type, id)), UNCHANGED invitation,
             main = "dispatch", type \notin Grants,
             type = "INVIT" => id # 0, type = "JOIN" => typed.cmd # "y"
      PROVE  BaseInv'
  <2>1. Genuine(Msg(type, id))
    BY <1>3, MsgIsPacket DEF Genuine
  <2>2. /\ invit_session' = invit_session /\ (invit' <=> invit) /\ invit' \in BOOLEAN
        /\ invit_mutex' = invit_mutex /\ invit_mutex # "main"
    BY <1>3 DEF invitation, BaseInv, InvitInv, TypeOK
  <2> QED
    BY <1>3, <2>1, <2>2, Built
<1>4. ASSUME main = "dispatch", IsLine(buf)
      PROVE  buf \in Lines /\ typed = buf /\ Cmd = buf.cmd
  BY <1>4, PacketIsNoLine DEF BaseInv, InvitInv, TypeOK, Cmd
<1>5. ASSUME NEW c, Dispatched(c), c # "text"
      PROVE  main = "dispatch" /\ buf \in Lines /\ typed = buf /\ buf.cmd = c
  BY <1>4, <1>5 DEF Dispatched, Cmd
<1>6. CASE Login
  <2>1. /\ insession' \in Int /\ online' \in BOOLEAN /\ (receive' = receive \/ receive' = "recv")
        /\ status' = status /\ (invit' => invit) /\ invit' \in BOOLEAN /\ invit_mutex' = invit_mutex /\ Done
        /\ UNCHANGED <<buf, rcvd, insessions, session_count, server, net, invit_session>>
    BY <1>6 DEF Login, BaseInv, TypeOK, sessions, invitation
  <2>2. main = "dispatch"
    BY <1>6 DEF Login, Dispatched
  <2> QED
    BY <2>1, <2>2, Returned
<1>7. CASE Logout
  <2>1. main = "dispatch"
    BY <1>7 DEF Logout, Dispatched
  <2>2. "EXIT" \in Types /\ "EXIT" \notin Grants /\ 0 \in Int
    BY DEF Types, Grants
  <2> QED
    BY <1>2, <1>3, <1>7, <2>1, <2>2 DEF Logout
<1>8. CASE Quit
  <2>1. main = "dispatch"
    BY <1>8 DEF Quit, Dispatched
  <2>2. "EXIT" \in Types /\ "EXIT" \notin Grants /\ 0 \in Int
    BY DEF Types, Grants
  <2>3. CASE online
    BY <1>3, <1>8, <2>1, <2>2, <2>3 DEF Quit
  <2>4. CASE ~online
    <3>1. /\ insession' \in Int /\ online' \in BOOLEAN /\ receive' = receive /\ status' = "ended"
          /\ (invit' => invit) /\ invit' \in BOOLEAN /\ invit_mutex' = invit_mutex /\ Done
          /\ UNCHANGED <<buf, rcvd, insessions, session_count, server, net, invit_session>>
      BY <1>8, <2>4 DEF Quit, BaseInv, TypeOK, sessions, invitation
    <3> QED
      BY <2>1, <3>1, Returned
  <2> QED
    BY <2>3, <2>4
<1>9. CASE Joinsession
  <2>1. main = "dispatch" /\ buf \in Lines /\ typed = buf /\ buf.cmd = "/joinsession"
    BY <1>5, <1>9 DEF Joinsession
  <2>2. "JOIN" \in Types /\ "JOIN" \notin Grants /\ (buf.id # NoId => buf.id \in Int)
    BY <2>1, LineIsLine DEF Types, Grants
  <2> QED
    BY <1>2, <1>3, <1>9, <2>1, <2>2 DEF Joinsession
<1>10. CASE Createsession
  <2>1. main = "dispatch" /\ "NEW_SESS" \in Types /\ "NEW_SESS" \notin Grants /\ 0 \in Int
    BY <1>10 DEF Createsession, Dispatched, Types, Grants
  <2> QED
    BY <1>2, <1>3, <1>10, <2>1 DEF Createsession
<1>11. CASE Leavesession
  <2>1. main = "dispatch" /\ "LEAVE_SESS" \in Types /\ "LEAVE_SESS" \notin Grants
    BY <1>11 DEF Leavesession, Dispatched, Types, Grants
  <2>2. \A i \in Slots : insessions[i] \in Int
    BY DEF BaseInv, TypeOK
  <2> QED
    BY <1>2, <1>3, <1>11, <2>1, <2>2 DEF Leavesession
<1>12. CASE List
  <2>1. main = "dispatch" /\ "QUERY" \in Types /\ "QUERY" \notin Grants /\ 0 \in Int
    BY <1>12 DEF List, Dispatched, Types, Grants
  <2> QED
    BY <1>2, <1>3, <1>12, <2>1 DEF List
<1>13. CASE Invite
  <2>1. main = "dispatch" /\ "INVIT" \in Types /\ "INVIT" \notin Grants
    BY <1>13 DEF Invite, Dispatched, Types, Grants
  <2>2. \A i \in Slots : insessions[i] \in Int /\ insessions[i] # 0
    BY DEF BaseInv, TypeOK, GenuineInv
  <2>3. CASE buf.id = NoId
    <3>1. /\ status' = "undefined"
          /\ UNCHANGED <<main, receive, buf, typed, packet, rcvd, online, insessions, insession,
                         session_count, invit, invit_session, invit_mutex, server, net>>
      BY <1>13, <2>3 DEF Invite, local, sessions, invitation
    <3>2. TypeOK'
      BY <3>1 DEF BaseInv, TypeOK, server, net
    <3>3. InvitInv'
      BY <3>1 DEF BaseInv, InvitInv, AnswersAnInvitation
    <3>4. GenuineInv'
      BY <3>1 DEF BaseInv, GenuineInv, Genuine, net
    <3> QED
      BY <3>2, <3>3, <3>4 DEF BaseInv
  <2>4. CASE buf.id # NoId /\ \E i \in Slots : insessions[i] = buf.id
    BY <1>3, <1>13, <2>1, <2>2, <2>4 DEF Invite
  <2>5. CASE ~(buf.id = NoId) /\ ~(buf.id # NoId /\ \E i \in Slots : insessions[i] = buf.id)
    BY <1>2, <1>13, <2>1, <2>5 DEF Invite
  <2> QED
    BY <2>3, <2>4, <2>5
<1>14. CASE SendText
  <2>1. /\ main = "dispatch" /\ "MESSAGE" \in Types /\ "MESSAGE" \notin Grants
        /\ insession \in Int
    BY <1>14 DEF SendText, Dispatched, Types, Grants, BaseInv, TypeOK
  <2> QED
    BY <1>2, <1>3, <1>14, <2>1 DEF SendText
<1>15. CASE Switchsession
  <2>1. main = "dispatch" /\ buf \in Lines
    BY <1>5, <1>15 DEF Switchsession
  <2>2. insession' \in Int
    BY <1>15, <2>1, LineIsLine DEF Switchsession, BaseInv, TypeOK, INVALID_SESSION
  <2>3. /\ online' \in BOOLEAN /\ receive' = receive /\ status' = status
        /\ (invit' => invit) /\ invit' \in BOOLEAN /\ invit_mutex' = invit_mutex /\ Done
        /\ UNCHANGED <<buf, rcvd, insessions, session_count, server, net, invit_session>>
    BY <1>15 DEF Switchsession, BaseInv, TypeOK, invitation
  <2> QED
    BY <2>1, <2>2, <2>3, Returned
<1>16. CASE Invited
  <2>1. TypeOK'
    BY <1>16 DEF Invited, BaseInv, TypeOK, local, sessions, invitation, server, net
  <2>2. InvitInv'
    BY <1>16 DEF Invited, BaseInv, InvitInv, local, invitation, AnswersAnInvitation
  <2>3. GenuineInv'
    BY <1>16 DEF Invited, BaseInv, GenuineInv, Genuine, local, sessions, net
  <2> QED
    BY <2>1, <2>2, <2>3 DEF BaseInv
<1>17. CASE Answer
  <2>1. /\ main = "answer" /\ invit_mutex = "free" /\ invit_session # 0 /\ invit_session \in Int
        /\ buf \in Packets \/ (buf \in Lines /\ typed = buf)
    BY <1>17 DEF Answer, BaseInv, InvitInv, TypeOK
  <2>2. ASSUME NEW id \in Named
        PROVE  id \in Int /\ (typed.cmd = "y" => id # 0)
    BY <2>1, <2>2, PacketIsNoLine, LineIsLine DEF Named, Cmd
  <2>3. ASSUME NEW id \in Named, Build(Msg("JOIN", id)), invit_mutex' = "main",
               UNCHANGED <<invit, invit_session>>
        PROVE  BaseInv'
    <3>1. "JOIN" \in Types /\ Genuine(Msg("JOIN", id)) /\ id \in Int
      BY <2>2, MsgIsPacket DEF Types, Genuine, Grants
    <3>2. (invit' <=> invit) /\ invit' \in BOOLEAN /\ invit_session' = invit_session
      BY <2>3 DEF BaseInv, TypeOK
    <3> QED
      BY <2>1, <2>2, <2>3, <3>1, <3>2, Built
  <2>4. CASE online /\ session_count < MAX_SESSION /\ Named # {}
    BY <1>17, <2>3, <2>4 DEF Answer
  <2>5. CASE ~(online /\ session_count < MAX_SESSION /\ Named # {})
    <3>1. /\ insession' \in Int /\ online' \in BOOLEAN /\ receive' = receive /\ status' = status
          /\ ~invit' /\ invit' \in BOOLEAN /\ invit_mutex' = invit_mutex /\ Done
          /\ UNCHANGED <<buf, rcvd, insessions, session_count, server, net, invit_session>>
      BY <1>17, <2>5 DEF Answer, BaseInv, TypeOK, sessions
    <3> QED
      BY <2>1, <3>1, Returned
  <2> QED
    BY <2>4, <2>5
<1>18. CASE Send
  <2>1. /\ main = "send" /\ main' = "prompt" /\ toServer' = toServer \o Passed
        /\ typed' = Nothing /\ packet' = Nothing
        /\ UNCHANGED <<buf, rcvd, invit_session, server>>
    BY <1>18 DEF Send, Done
  <2>2. Nothing \in Packets
    BY DEF Nothing, Msg, Packets, Types
  <2>3. /\ insessions' \in [Slots -> Int] /\ insession' \in Int /\ session_count' \in Int
        /\ \A i \in Slots : insessions'[i] # 0
        /\ online' \in BOOLEAN /\ receive' \in {receive, "none"} /\ status' \in {status, "ended"}
        /\ toClient' \in {toClient, <<>>}
    <3>1. CASE packet.type = "LEAVE_SESS"
      BY <1>18, <3>1 DEF Send, StrikeOff, BaseInv, TypeOK, GenuineInv, INVALID_SESSION
    <3>2. CASE packet.type = "EXIT"
      <4>1. Disconnect
        BY <1>18, <3>2 DEF Send
      <4>2. insessions' \in [Slots -> Int] /\ \A i \in Slots : insessions'[i] # 0
        BY <4>1 DEF Disconnect, NoSessions, INVALID_SESSION
      <4>3. insession' \in Int /\ session_count' \in Int /\ online' \in BOOLEAN
        <5>1. insession' = -1 /\ session_count' = 0
          BY <4>1 DEF Disconnect, INVALID_SESSION
        <5>2. online' \in BOOLEAN
          BY <4>1, Zenon DEF Disconnect
        <5> QED
          BY <5>1, <5>2
      <4> QED
        BY <4>1, <4>2, <4>3 DEF Disconnect
    <3>3. CASE packet.type \notin {"LEAVE_SESS", "EXIT"}
      BY <1>18, <3>3 DEF Send, sessions, BaseInv, TypeOK, GenuineInv
    <3> QED
      BY <3>1, <3>2, <3>3
  <2>4. \/ invit_mutex = "main" /\ invit' = FALSE /\ invit_mutex' = "free"
        \/ invit_mutex # "main" /\ invit' = invit /\ invit_mutex' = invit_mutex
    BY <1>18 DEF Send
  <2>9. invit' \in BOOLEAN /\ (invit' => invit /\ invit_mutex' = invit_mutex)
    <3>1. invit \in BOOLEAN
      BY DEF BaseInv, TypeOK
    <3>2. ASSUME invit' = FALSE PROVE invit' \in BOOLEAN /\ ~invit'
      BY <3>2, Zenon
    <3>3. ASSUME invit' = invit PROVE invit' \in BOOLEAN /\ (invit' => invit)
      BY <3>1, <3>3, Zenon
    <3>4. CASE invit_mutex = "main"
      BY <2>4, <3>2, <3>4
    <3>5. CASE invit_mutex # "main"
      BY <2>4, <3>3, <3>5
    <3> QED
      BY <3>4, <3>5
  <2>5. toServer' \in Seq(Packets)
    BY <2>1, PassedIs DEF BaseInv, TypeOK
  <2>10. invit_mutex' \in {"free", "main", "receive"}
    BY <2>4 DEF BaseInv, TypeOK
  <2>6. TypeOK'
    <3>1. toClient' \in Seq(Packets)
      <4>1. <<>> \in Seq(Packets)
        OBVIOUS
      <4> QED
        BY <2>3, <4>1 DEF BaseInv, TypeOK
    <3>2. status' \in {"running", "ended", "exited", "undefined"}
          /\ receive' \in {"none", "recv", "parse", "store", "lock", "print"}
      BY <2>3 DEF BaseInv, TypeOK
    <3> QED
      BY <2>1, <2>2, <2>3, <2>5, <2>9, <2>10, <3>1, <3>2 DEF BaseInv, TypeOK, server
  <2>7. InvitInv'
    BY <2>1, <2>3, <2>4, <2>9 DEF BaseInv, InvitInv, AnswersAnInvitation
  <2>8. GenuineInv'
    BY <2>1, <2>3 DEF BaseInv, GenuineInv, Genuine
  <2> QED
    BY <2>6, <2>7, <2>8 DEF BaseInv
<1> QED
  BY <1>1, <1>6, <1>7, <1>8, <1>9, <1>10, <1>11, <1>12, <1>13, <1>14, <1>15, <1>16, <1>17, <1>18
     DEF Main

LEMMA BaseReceive ==
  ASSUME BaseInv, Receive
  PROVE  BaseInv'
<1>1. CASE Recv
  <2> DEFINE p == Head(toClient)
  <2>1. /\ p \in Packets /\ Genuine(p) /\ Tail(toClient) \in Seq(Packets)
        /\ \A i \in DOMAIN Tail(toClient) : Genuine(Tail(toClient)[i])
    BY <1>1, Taken DEF Recv, BaseInv, TypeOK, GenuineInv
  <2>2. /\ buf' = p /\ rcvd' = p /\ toClient' = Tail(toClient) /\ receive' = "parse"
        /\ UNCHANGED <<status, main, typed, packet, online, sessions, invitation, server, toServer>>
    BY <1>1 DEF Recv
  <2> HIDE DEF p
  <2>3. TypeOK'
    BY <2>1, <2>2 DEF BaseInv, TypeOK, sessions, invitation, server
  <2>4. InvitInv'
    BY <2>1, <2>2 DEF BaseInv, InvitInv, invitation, AnswersAnInvitation
  <2>5. GenuineInv'
    BY <2>1, <2>2 DEF BaseInv, GenuineInv, Genuine, sessions
  <2> QED
    BY <2>3, <2>4, <2>5 DEF BaseInv
<1>2. CASE Parse
  <2>1. Nothing \in Packets /\ Genuine(Nothing)
    BY DEF Nothing, Msg, Packets, Types, Genuine, Grants
  <2>2. IsLine(buf) \/ buf \in Packets
    BY LineIsLine DEF BaseInv, TypeOK
  <2>3. /\ rcvd' = IF IsLine(buf) THEN Nothing ELSE buf
        /\ status' \in {status, "exited"}
        /\ \/ receive' \in {"none", "recv"}
           \/ receive' = "lock" /\ ~IsLine(buf) /\ buf.type = "INVIT"
           \/ receive' = "store" /\ ~IsLine(buf) /\ buf.type \in Grants \cup {"JN_NAK"}
        /\ UNCHANGED <<main, buf, typed, packet, online, sessions, invitation, server, net>>
    BY <1>2 DEF Parse
  <2>4. rcvd' \in Packets /\ Genuine(rcvd')
    BY <2>1, <2>2, <2>3 DEF BaseInv, GenuineInv
  <2>5. TypeOK'
    BY <2>3, <2>4 DEF BaseInv, TypeOK, sessions, invitation, server, net
  <2>6. InvitInv'
    BY <2>2, <2>3 DEF BaseInv, InvitInv, invitation, AnswersAnInvitation, GenuineInv, Genuine
  <2>7. GenuineInv'
    BY <2>3, <2>4 DEF BaseInv, GenuineInv, Genuine, sessions, net
  <2> QED
    BY <2>5, <2>6, <2>7 DEF BaseInv
<1>3. CASE Store
  <2>1. /\ rcvd \in Packets /\ Genuine(rcvd) /\ rcvd.id \in Int
        /\ insessions \in [Slots -> Int] /\ \A i \in Slots : insessions[i] # 0
        /\ session_count \in Int
    BY DEF BaseInv, TypeOK, GenuineInv, Packets
  <2>2. /\ insessions' \in [Slots -> Int] /\ insession' \in Int /\ session_count' \in Int
        /\ \A i \in Slots : insessions'[i] # 0
        /\ status' \in {status, "undefined"}
    <3>1. CASE rcvd.type \in Grants
      <4>1. Joined(rcvd.id) /\ rcvd.id # 0
        BY <1>3, <2>1, <3>1 DEF Store, Genuine
      <4> QED
        BY <2>1, <4>1 DEF Joined
    <3>2. CASE rcvd.type \notin Grants
      BY <1>3, <2>1, <3>2 DEF Store, INVALID_SESSION
    <3> QED
      BY <3>1, <3>2
  <2>3. /\ receive' \in {"none", "recv"}
        /\ UNCHANGED <<main, buf, typed, packet, rcvd, online, invitation, server, net>>
    BY <1>3 DEF Store, local
  <2>4. TypeOK'
    BY <2>2, <2>3 DEF BaseInv, TypeOK, invitation, server, net
  <2>5. InvitInv'
    BY <2>3 DEF BaseInv, InvitInv, invitation, AnswersAnInvitation
  <2>6. GenuineInv'
    BY <2>2, <2>3 DEF BaseInv, GenuineInv, Genuine, net
  <2> QED
    BY <2>4, <2>5, <2>6 DEF BaseInv
<1>4. ASSUME LockInvit \/ UnlockInvit \/ EndLocked PROVE BaseInv'
  <2>1. /\ UNCHANGED <<status, main, buf, typed, packet, rcvd, online, sessions, server, net>>
        /\ receive' \in {"print", "recv", "none"}
    BY <1>4 DEF LockInvit, UnlockInvit, EndLocked, local
  <2>2. rcvd.id \in Int /\ invit \in BOOLEAN
    BY DEF BaseInv, TypeOK, Packets
  <2>3. CASE LockInvit
    <3>1. /\ receive = "lock" /\ invit_mutex' = "receive" /\ invit' /\ invit' \in BOOLEAN
          /\ receive' = "print" /\ invit_session' = invit_session
      BY <2>3, Zenon DEF LockInvit
    <3>2. TypeOK'
      BY <2>1, <3>1 DEF BaseInv, TypeOK, sessions, server, net
    <3>3. InvitInv'
      BY <2>1, <2>3, <3>1 DEF BaseInv, InvitInv, AnswersAnInvitation, LockInvit
    <3>4. GenuineInv'
      BY <2>1, <3>1 DEF BaseInv, GenuineInv, Genuine, sessions, net
    <3> QED
      BY <3>2, <3>3, <3>4 DEF BaseInv
  <2>4. CASE UnlockInvit \/ EndLocked
    <3>1. /\ receive = "print" /\ receive' \in {"recv", "none"} /\ invit' = invit
          /\ \/ invit_mutex' = "free" /\ invit_session' = rcvd.id
             \/ invit_mutex' = invit_mutex /\ invit_session' = invit_session
      BY <2>4 DEF UnlockInvit, EndLocked, invitation
    <3>2. TypeOK'
      BY <2>1, <2>2, <3>1 DEF BaseInv, TypeOK, sessions, server, net
    <3>3. InvitInv'
      BY <2>1, <2>2, <3>1 DEF BaseInv, InvitInv, AnswersAnInvitation
    <3>4. GenuineInv'
      BY <2>1, <3>1 DEF BaseInv, GenuineInv, Genuine, sessions, net
    <3> QED
      BY <3>2, <3>3, <3>4 DEF BaseInv
  <2> QED
    BY <1>4, <2>3, <2>4
<1> QED
  BY <1>1, <1>2, <1>3, <1>4 DEF Receive

\* The server's steps and the packets of others: the connection to the client
\* grows by at most a packet.
LEMMA BaseArrival ==
  ASSUME BaseInv,
         UNCHANGED <<status, main, receive, buf, typed, packet, rcvd, online, sessions, invitation>>,
         toServer' \in Seq(Packets),
         member' \subseteq Nat, sessJoined' \in Seq(Nat), sessionCnt' \in Nat \ {0},
         NEW p \in Packets, Genuine(p), toClient' = toClient \/ Reply(p)
  PROVE  BaseInv'
<1>1. /\ toClient' \in Seq(Packets)
      /\ \A i \in DOMAIN toClient' : Genuine(toClient'[i])
  <2>1. toClient \in Seq(Packets) /\ \A i \in DOMAIN toClient : Genuine(toClient[i])
    BY DEF BaseInv, TypeOK, GenuineInv
  <2>2. toClient' = toClient \/ toClient' = Append(toClient, p)
    BY DEF Reply
  <2>3. CASE toClient' = toClient
    BY <2>1, <2>3
  <2>4. CASE toClient' = Append(toClient, p)
    BY <2>1, <2>4, Appended
  <2> QED
    BY <2>2, <2>3, <2>4
<1>2. TypeOK'
  BY <1>1 DEF BaseInv, TypeOK, sessions, invitation
<1>3. InvitInv'
  BY DEF BaseInv, InvitInv, invitation, AnswersAnInvitation
<1>4. GenuineInv'
  BY <1>1 DEF BaseInv, GenuineInv, Genuine, sessions
<1> QED
  BY <1>2, <1>3, <1>4 DEF BaseInv

LEMMA BaseServe ==
  ASSUME BaseInv, Serve
  PROVE  BaseInv'
<1> DEFINE p == Head(toServer)
<1>1. /\ p \in Packets /\ p.id \in Int /\ toServer' \in Seq(Packets)
      /\ UNCHANGED <<status, main, receive, buf, typed, packet, rcvd, online, sessions, invitation>>
  <2>1. p \in Packets /\ Tail(toServer) \in Seq(Packets)
    BY Taken DEF Serve, BaseInv, TypeOK
  <2> QED
    BY <2>1 DEF Serve, local, Packets
<1>2. member \subseteq Nat /\ sessJoined \in Seq(Nat) /\ sessionCnt \in Nat \ {0}
  BY DEF BaseInv, TypeOK
<1>3. \E q \in Packets :
        /\ Genuine(q) /\ (toClient' = toClient \/ Reply(q))
        /\ member' \subseteq Nat /\ sessJoined' \in Seq(Nat) /\ sessionCnt' \in Nat \ {0}
  <2> DEFINE Fine(q) == q \in Packets /\ Genuine(q)
             Kept == member' \subseteq Nat /\ sessJoined' \in Seq(Nat) /\ sessionCnt' \in Nat \ {0}
  <2>1. ASSUME NEW type \in Types, NEW id \in Int, type \notin Grants \cup {"INVIT"} \/ id # 0
        PROVE  Fine(Msg(type, id))
    BY <2>1, MsgIsPacket DEF Genuine
  <2>2. UNCHANGED server => Kept
    BY <1>2 DEF server
  <2>3. {"JN_ACK", "JN_NAK", "NS_ACK", "QU_ACK"} \subseteq Types
        /\ "JN_NAK" \notin Grants \cup {"INVIT"} /\ "QU_ACK" \notin Grants \cup {"INVIT"} /\ 0 \in Int
    BY DEF Types, Grants
  <2>4. \A n \in Nat : <<n>> \o sessJoined \in Seq(Nat)
    BY <1>2
  <2>5. <<>> \in Seq(Nat)
    OBVIOUS
  <2> HIDE DEF p, Fine, Kept
  <2>6. ASSUME p.type = "JOIN", p.id \in Existing \ member
        PROVE  Fine(Msg("JN_ACK", p.id)) /\ Reply(Msg("JN_ACK", p.id)) /\ Kept
    <3>1. p.id \in Nat \ {0}
      BY <2>6, ClientAssumption
    <3>2. /\ Reply(Msg("JN_ACK", p.id)) /\ sessJoined' = <<p.id>> \o sessJoined
          /\ member' = member \cup {p.id} /\ sessionCnt' = sessionCnt
      BY <2>6 DEF Serve, ServeJoin, p
    <3> QED
      BY <1>1, <1>2, <2>1, <2>3, <2>4, <3>1, <3>2 DEF Kept
  <2>7. ASSUME p.type = "JOIN", p.id \notin Existing \ member
        PROVE  Fine(Msg("JN_NAK", p.id)) /\ Reply(Msg("JN_NAK", p.id)) /\ Kept
    BY <1>1, <2>1, <2>2, <2>3, <2>7 DEF Serve, ServeJoin, p
  <2>8. ASSUME p.type = "NEW_SESS"
        PROVE  Fine(Msg("NS_ACK", sessionCnt)) /\ Reply(Msg("NS_ACK", sessionCnt)) /\ Kept
    <3>1. /\ Reply(Msg("NS_ACK", sessionCnt)) /\ sessJoined' = <<sessionCnt>> \o sessJoined
          /\ member' = member \cup {sessionCnt} /\ sessionCnt' = sessionCnt + 1
      BY <2>8 DEF Serve, ServeNew, p
    <3> QED
      BY <1>2, <2>1, <2>3, <2>4, <3>1 DEF Kept
  <2>9. ASSUME p.type \in {"LEAVE_SESS", "EXIT"}
        PROVE  toClient' = toClient /\ Kept
    <3>1. toClient' = toClient /\ sessJoined' = <<>> /\ member' \subseteq member /\ sessionCnt' = sessionCnt
      BY <2>9 DEF Serve, ServeLeave, ServeExit, p
    <3> QED
      BY <1>2, <2>5, <3>1 DEF Kept
  <2>10. ASSUME p.type = "QUERY"
         PROVE  Fine(Msg("QU_ACK", 0)) /\ Reply(Msg("QU_ACK", 0)) /\ Kept
    BY <2>1, <2>2, <2>3, <2>10 DEF Serve, p
  <2>11. ASSUME p.type \notin {"JOIN", "NEW_SESS", "LEAVE_SESS", "EXIT", "QUERY"}
         PROVE  toClient' = toClient /\ Kept
    BY <2>2, <2>11 DEF Serve, p
  <2>12. Fine(Msg("QU_ACK", 0))
    BY <2>1, <2>3
  <2> QED
    BY <2>6, <2>7, <2>8, <2>9, <2>10, <2>11, <2>12 DEF Fine, Kept
<1> HIDE DEF p
<1> QED
  BY <1>1, <1>3, BaseArrival

LEMMA OthersSend ==
  ASSUME NEW p \in FromOthers
  PROVE  p \in Packets /\ Genuine(p) /\ p.type \in {"MESSAGE", "INVIT"}
<1>1. {"MESSAGE", "INVIT"} \subseteq Types /\ "MESSAGE" \notin Grants \cup {"INVIT"} /\ 0 \in Int
  BY DEF Types, Grants
<1>2. \A id \in Existing : id \in Int /\ id # 0
  BY ClientAssumption
<1>3. CASE p = Msg("MESSAGE", 0)
  BY <1>1, <1>3, MsgIsPacket DEF Genuine
<1>4. ASSUME NEW id \in Existing, p = Msg("INVIT", id)
      PROVE  p \in Packets /\ Genuine(p) /\ p.type \in {"MESSAGE", "INVIT"}
  BY <1>1, <1>2, <1>4, MsgIsPacket DEF Genuine
<1> QED
  BY <1>3, <1>4 DEF FromOthers

LEMMA BaseOthers ==
  ASSUME BaseInv, NEW p \in FromOthers, OtherUser(p)
  PROVE  BaseInv'
<1>1. /\ UNCHANGED <<status, main, receive, buf, typed, packet, rcvd, online, sessions, invitation>>
      /\ UNCHANGED <<server, toServer>> /\ Reply(p)
  BY DEF OtherUser, local
<1>2. /\ toServer' \in Seq(Packets)
      /\ member' \subseteq Nat /\ sessJoined' \in Seq(Nat) /\ sessionCnt' \in Nat \ {0}
  BY <1>1 DEF BaseInv, TypeOK, server
<1> QED
  BY <1>1, <1>2, OthersSend, BaseArrival

LEMMA BaseInit == Init => BaseInv
<1> SUFFICES ASSUME Init PROVE BaseInv
  OBVIOUS
<1>1. Nothing \in Packets /\ Genuine(Nothing) /\ Nothing.type = ""
  BY DEF Nothing, Msg, Packets, Types, Genuine, Grants
<1>2. <<>> \in Seq(Packets) /\ <<>> \in Seq(Nat) /\ DOMAIN <<>> = {}
  OBVIOUS
<1>3. NoSessions \in [Slots -> Int] /\ \A i \in Slots : NoSessions[i] # 0
  BY DEF NoSessions, INVALID_SESSION
<1>4. online \in BOOLEAN /\ invit \in BOOLEAN /\ ~invit
  BY Zenon DEF Init
<1>5. TypeOK
  <2>1. /\ status = "running" /\ main = "prompt" /\ receive = "none" /\ invit_mutex = "free"
        /\ buf = Nothing /\ typed = Nothing /\ packet = Nothing /\ rcvd = Nothing
        /\ insessions = NoSessions /\ insession = -1 /\ session_count = 0 /\ invit_session = 0
    BY DEF Init, INVALID_SESSION
  <2>2. /\ toServer = <<>> /\ toClient = <<>> /\ sessJoined = <<>> /\ member = {}
        /\ sessionCnt = FirstNew
    BY DEF Init
  <2>3. sessionCnt \in Nat \ {0} /\ member \subseteq Nat
    BY <2>2, ClientAssumption
  <2>4. toServer \in Seq(Packets) /\ toClient \in Seq(Packets) /\ sessJoined \in Seq(Nat)
    BY <1>2, <2>2
  <2>5. insessions \in [Slots -> Int] /\ insession \in Int /\ session_count \in Int
        /\ invit_session \in Int
    BY <1>3, <2>1
  <2>6. buf \in Packets /\ typed \in {Nothing} /\ packet \in Packets /\ rcvd \in Packets
    BY <1>1, <2>1
  <2> QED
    BY <1>4, <2>1, <2>3, <2>4, <2>5, <2>6 DEF TypeOK
<1>6. InvitInv
  BY <1>4 DEF Init, InvitInv, AnswersAnInvitation
<1>7. GenuineInv
  BY <1>1, <1>2, <1>3 DEF Init, GenuineInv
<1> QED
  BY <1>5, <1>6, <1>7 DEF BaseInv

LEMMA BaseStutter ==
  ASSUME BaseInv, UNCHANGED vars
  PROVE  BaseInv'
<1> USE DEF vars, local, sessions, invitation, server, net, bounds
<1>1. TypeOK'
  BY DEF BaseInv, TypeOK
<1>2. InvitInv'
  BY DEF BaseInv, InvitInv, AnswersAnInvitation
<1>3. GenuineInv'
  BY DEF BaseInv, GenuineInv, Genuine
<1> QED
  BY <1>1, <1>2, <1>3 DEF BaseInv

\* Types, invitations and identifiers are in order in every state.
THEOREM Base == Spec => []BaseInv
<1>1. BaseInv /\ [Next]_vars => BaseInv'
  <2> SUFFICES ASSUME BaseInv, [Next]_vars PROVE BaseInv'
    OBVIOUS
  <2>1. CASE Main
    BY <2>1, BaseMain
  <2>2. CASE Receive
    BY <2>2, BaseReceive
  <2>3. CASE Serve
    BY <2>3, BaseServe
  <2>4. ASSUME NEW p \in FromOthers, OtherUser(p) PROVE BaseInv'
    BY <2>4, BaseOthers
  <2>5. CASE UNCHANGED vars
    BY <2>5, BaseStutter
  <2> QED
    BY <2>1, <2>2, <2>3, <2>4, <2>5 DEF Next
<1> QED
  BY <1>1, BaseInit, PTL DEF Spec

-----------------------------------------------------------------------------
(***************************************************************************)
(* A user who waits: frames.                                               *)
(***************************************************************************)
LEMMA AwaitingIs ==
  /\ Awaiting <=> Answered \/ \E i \in DOMAIN toServer : toServer[i].type \in Requests
  /\ \A id : Granted(id) => Answered
  BY DEF Awaiting, Answered, Handling, Granted, Replies

\* The connection and the lists are as they were.
LEMMA Quiet ==
  ASSUME TypeOK, WaitInv,
         UNCHANGED <<toServer, toClient, insessions, session_count, member, sessionCnt>>,
         Handling' => Handling /\ rcvd' = rcvd,
         main' # "prompt" => ~Awaiting,
         receive' = "parse" /\ buf' \in Packets /\ buf'.type \in Replies => buf' = rcvd',
         main' = "send" =>
           /\ buf' = packet' \/ buf'.type \in FromServer
           /\ packet'.type \notin Replies
           /\ packet'.type \in Asks => session_count < MAX_SESSION
           /\ packet'.type = "LEAVE_SESS" => idx' \in Slots /\ insessions[idx'] = packet'.id,
         status' = "running" =>
           /\ status = "running"
           /\ insession' = insession \/ insession' = INVALID_SESSION \/ insession' \in Listed
  PROVE  WaitInv'
<1>1. Answered' => Answered
  BY DEF Answered
<1>2. Awaiting' => Awaiting
  BY <1>1, AwaitingIs DEF Awaiting, Answered, Handling
<1>3. PipeInv'
  BY <1>1, <1>2 DEF WaitInv, PipeInv, Answered
<1>4. \A id \in Int : Granted(id)' => Granted(id)
  BY DEF Granted
<1>5. Listed' = Listed
  BY DEF Listed
<1>6. Asking' => session_count < MAX_SESSION
  BY <1>4 DEF Asking, WaitInv, ListInv
<1>7. ListInv'
  BY <1>4, <1>5, <1>6 DEF WaitInv, ListInv, StaysBelowLimit, ListedIsMember, EngagedIsListed
<1> QED
  BY <1>3, <1>7 DEF WaitInv

\* A packet is ready; the last two hypotheses are the checks that the commands
\* make before they build one.
LEMMA WaitBuilt ==
  ASSUME TypeOK, WaitInv, main \in {"dispatch", "answer"},
         NEW type \in Types, NEW id \in Int, Build(Msg(type, id)),
         type \notin Replies,
         type \in Asks => session_count < MAX_SESSION,
         type = "LEAVE_SESS" => idx' \in Slots /\ insessions[idx'] = id
  PROVE  WaitInv'
<1> DEFINE p == Msg(type, id)
<1>1. p \in Packets /\ p.type = type /\ p.id = id
  BY MsgIsPacket
<1>2. /\ packet' = p /\ buf' = p /\ main' = "send"
      /\ UNCHANGED <<status, receive, rcvd, insessions, insession, session_count, member,
                     sessionCnt, toServer, toClient>>
  BY DEF Build, sessions, server, net
<1> HIDE DEF p
<1>3. ~Awaiting
  BY DEF WaitInv, PipeInv
<1>4. Handling' => Handling /\ rcvd' = rcvd
  BY <1>2 DEF Handling
<1> QED
  BY <1>1, <1>2, <1>3, <1>4, Quiet

\* The prompt again.
LEMMA WaitReturned ==
  ASSUME TypeOK, WaitInv, main \in {"dispatch", "answer"}, Done, status' \in {status, "ended"},
         UNCHANGED <<buf, rcvd, insessions, session_count, server, net>>,
         insession' = insession \/ insession' = INVALID_SESSION \/ insession' \in Listed,
         receive' = receive \/ receive' = "recv"
  PROVE  WaitInv'
<1>1. /\ main' = "prompt" /\ UNCHANGED <<toServer, toClient, member, sessionCnt>>
      /\ status' = "running" => status = "running"
  BY DEF Done, net, server
<1>2. Handling' => Handling /\ rcvd' = rcvd
  BY DEF Handling
<1>3. receive' = "parse" /\ buf' \in Packets /\ buf'.type \in Replies => buf' = rcvd'
  BY DEF WaitInv, PipeInv
<1> QED
  BY <1>1, <1>2, <1>3, Quiet

\* leavesession() finds the first place that holds its argument.
LEMMA FirstPlace ==
  ASSUME NEW id, \E i \in Slots : insessions[i] = id
  PROVE  LET first == CHOOSE i \in Slots : /\ insessions[i] = id
                                            /\ \A j \in 0 .. i - 1 : insessions[j] # id
         IN  first \in Slots /\ insessions[first] = id
<1> DEFINE I == {i \in Slots : insessions[i] = id}
<1>1. I \in SUBSET Nat /\ I # {}
  BY DEF Slots
<1>2. PICK i \in I : \A j \in I : i <= j
  BY <1>1, LeastNatural
<1>3. \A j \in 0 .. i - 1 : j \in Slots /\ ~(i <= j)
  BY ClientAssumption DEF Slots
<1>4. i \in Slots /\ insessions[i] = id /\ \A j \in 0 .. i - 1 : insessions[j] # id
  BY <1>2, <1>3
<1> QED
  BY <1>4

\* A step of main() that changes nothing but main itself and buf.
LEMMA WaitMoved ==
  ASSUME TypeOK, WaitInv, ~Awaiting, main' # "send",
         UNCHANGED <<status, receive, rcvd, sessions, server, net>>,
         buf' = buf \/ buf' \notin Packets
  PROVE  WaitInv'
<1>1. /\ UNCHANGED <<toServer, toClient, insessions, insession, session_count, member, sessionCnt>>
      /\ Handling' => Handling /\ rcvd' = rcvd
      /\ receive' = "parse" /\ buf' \in Packets /\ buf'.type \in Replies => buf' = rcvd'
  BY DEF sessions, server, net, Handling, WaitInv, PipeInv
<1> QED
  BY <1>1, Quiet

LEMMA WaitMain ==
  ASSUME Waits, BaseInv, WaitInv, Main, ~Send
  PROVE  WaitInv'
<1>0. TypeOK
  BY DEF BaseInv
<1>1. ASSUME NEW l \in Lines, ReadLine(l) PROVE WaitInv'
  <2>1. /\ ~Awaiting /\ main' # "send" /\ buf' \notin Packets
        /\ UNCHANGED <<status, receive, rcvd, sessions, server, net>>
    BY <1>1, LineIsLine DEF ReadLine
  <2> QED
    BY <1>0, <2>1, WaitMoved
<1>2. ASSUME Refuse, main \in {"dispatch", "answer"} PROVE WaitInv'
  <2>1. /\ Done /\ status' = status /\ insession' = insession /\ receive' = receive
        /\ UNCHANGED <<buf, rcvd, insessions, session_count, server, net>>
    BY <1>2 DEF Refuse, sessions
  <2> QED
    BY <1>0, <1>2, <2>1, WaitReturned
<1>3. ASSUME NEW type \in Types, Build(Msg(type, 0)), main = "dispatch", type \notin Replies,
             type # "LEAVE_SESS", type \in Asks => session_count < MAX_SESSION
      PROVE  WaitInv'
  BY <1>0, <1>3, WaitBuilt
<1>4. {"EXIT", "JOIN", "NEW_SESS", "LEAVE_SESS", "QUERY", "INVIT", "MESSAGE"} \subseteq Types \ Replies
      /\ {"EXIT", "LEAVE_SESS", "QUERY", "INVIT", "MESSAGE"} \cap Asks = {}
  BY DEF Types, Replies, Grants, Asks
<1>5. ASSUME NEW c, Dispatched(c), c # "text"
      PROVE  main = "dispatch" /\ buf \in Lines /\ buf.id \in Int \cup {NoId}
  BY <1>5, PacketIsNoLine, LineIsLine DEF Dispatched, Cmd, BaseInv, TypeOK
<1>6. CASE Login
  <2>1. /\ main = "dispatch" /\ Done /\ status' = status /\ insession' = insession
        /\ receive' = receive \/ receive' = "recv"
        /\ UNCHANGED <<buf, rcvd, insessions, session_count, server, net>>
    BY <1>6 DEF Login, Dispatched, sessions
  <2> QED
    BY <1>0, <2>1, WaitReturned
<1>7. CASE Logout
  <2>1. main = "dispatch"
    BY <1>7 DEF Logout, Dispatched
  <2> QED
    BY <1>2, <1>3, <1>4, <1>7, <2>1 DEF Logout
<1>8. CASE Quit
  <2>1. main = "dispatch"
    BY <1>8 DEF Quit, Dispatched
  <2>2. CASE online
    BY <1>3, <1>4, <1>8, <2>1, <2>2 DEF Quit
  <2>3. CASE ~online
    <3>1. /\ Done /\ status' = "ended" /\ insession' = insession /\ receive' = receive
          /\ UNCHANGED <<buf, rcvd, insessions, session_count, server, net>>
      BY <1>8, <2>3 DEF Quit, sessions
    <3> QED
      BY <1>0, <2>1, <3>1, WaitReturned
  <2> QED
    BY <2>2, <2>3
<1>9. CASE Joinsession
  <2>1. main = "dispatch" /\ buf.id \in Int \cup {NoId}
    BY <1>5, <1>9 DEF Joinsession
  <2>2. CASE online /\ session_count < MAX_SESSION /\ buf.id # NoId
    BY <1>0, <1>4, <1>9, <2>1, <2>2, WaitBuilt DEF Joinsession
  <2>3. CASE ~(online /\ session_count < MAX_SESSION /\ buf.id # NoId)
    BY <1>2, <1>9, <2>1, <2>3 DEF Joinsession
  <2> QED
    BY <2>2, <2>3
<1>10. CASE Createsession
  <2>1. main = "dispatch"
    BY <1>10 DEF Createsession, Dispatched
  <2> QED
    BY <1>2, <1>3, <1>4, <1>10, <2>1 DEF Createsession
<1>11. CASE Leavesession
  <2> DEFINE valid == online /\ insession # INVALID_SESSION /\ \E i \in Slots : insessions[i] = buf.id
  <2>1. main = "dispatch"
    BY <1>11 DEF Leavesession, Dispatched
  <2>2. CASE valid
    <3>1. Build(Msg("LEAVE_SESS", buf.id)) /\ buf.id \in Int
      BY <1>11, <2>2 DEF Leavesession, BaseInv, TypeOK
    <3>2. idx' \in Slots /\ insessions[idx'] = buf.id
      BY <1>11, <2>2, FirstPlace DEF Leavesession
    <3> QED
      BY <1>0, <1>4, <2>1, <3>1, <3>2, WaitBuilt
  <2>3. CASE ~valid
    BY <1>2, <1>11, <2>1, <2>3 DEF Leavesession
  <2> QED
    BY <2>2, <2>3
<1>12. CASE List
  <2>1. main = "dispatch"
    BY <1>12 DEF List, Dispatched
  <2> QED
    BY <1>2, <1>3, <1>4, <1>12, <2>1 DEF List
<1>13. CASE Invite
  <2>1. main = "dispatch"
    BY <1>13 DEF Invite, Dispatched
  <2>2. CASE buf.id = NoId
    <3>1. /\ UNCHANGED <<main, receive, buf, rcvd, sessions, server, net>> /\ status' = "undefined"
      BY <1>13, <2>2 DEF Invite, local
    <3>2. /\ UNCHANGED <<toServer, toClient, insessions, insession, session_count, member, sessionCnt>>
          /\ Handling' => Handling /\ rcvd' = rcvd
          /\ receive' = "parse" /\ buf' \in Packets /\ buf'.type \in Replies => buf' = rcvd'
          /\ ~Awaiting
      BY <2>1, <3>1 DEF sessions, server, net, Handling, WaitInv, PipeInv
    <3> QED
      BY <1>0, <2>1, <3>1, <3>2, Quiet
  <2>3. CASE buf.id # NoId /\ \E i \in Slots : insessions[i] = buf.id
    <3>1. Build(Msg("INVIT", buf.id)) /\ buf.id \in Int
      BY <1>13, <2>3 DEF Invite, BaseInv, TypeOK
    <3> QED
      BY <1>0, <1>4, <2>1, <3>1, WaitBuilt
  <2>4. CASE ~(buf.id = NoId) /\ ~(buf.id # NoId /\ \E i \in Slots : insessions[i] = buf.id)
    BY <1>2, <1>13, <2>1, <2>4 DEF Invite
  <2> QED
    BY <2>2, <2>3, <2>4
<1>14. CASE SendText
  <2>1. main = "dispatch" /\ insession \in Int
    BY <1>14 DEF SendText, Dispatched, BaseInv, TypeOK
  <2>2. CASE Build(Msg("MESSAGE", insession))
    BY <1>0, <1>4, <2>1, <2>2, WaitBuilt
  <2> QED
    BY <1>2, <1>14, <2>1, <2>2 DEF SendText
<1>15. CASE Switchsession
  <2>1. main = "dispatch" /\ buf.id \in Int \cup {NoId}
    BY <1>5, <1>15 DEF Switchsession
  <2>2. insession' = insession \/ insession' = INVALID_SESSION \/ insession' \in Listed
    <3>1. \A i \in Slots : insessions[i] \in Int
      BY DEF BaseInv, TypeOK
    <3>2. CASE buf.id # NoId /\ buf.id < 0
      BY <1>15, <3>2 DEF Switchsession
    <3>3. CASE ~(buf.id # NoId /\ buf.id < 0)
      BY <1>15, <2>1, <3>1, <3>3, ClientAssumption DEF Switchsession, Listed, INVALID_SESSION
    <3> QED
      BY <3>2, <3>3
  <2>3. /\ Done /\ status' = status /\ receive' = receive
        /\ UNCHANGED <<buf, rcvd, insessions, session_count, server, net>>
    BY <1>15 DEF Switchsession
  <2> QED
    BY <1>0, <2>1, <2>2, <2>3, WaitReturned
<1>16. CASE Invited
  <2>1. /\ ~Awaiting /\ main' # "send" /\ buf' = buf
        /\ UNCHANGED <<status, receive, rcvd, sessions, server, net>>
    BY <1>16 DEF Invited, local, WaitInv, PipeInv
  <2> QED
    BY <1>0, <2>1, WaitMoved
<1>17. CASE Answer
  <2>1. main = "answer" /\ buf \in Lines \cup Packets /\ invit_session \in Int
    BY <1>17 DEF Answer, BaseInv, TypeOK
  <2>2. \A id \in Named : id \in Int
    BY <2>1, PacketIsNoLine, LineIsLine DEF Named, Cmd
  <2>3. CASE online /\ session_count < MAX_SESSION /\ Named # {}
    <3>1. PICK id \in Named : Build(Msg("JOIN", id))
      BY <1>17, <2>3 DEF Answer
    <3> QED
      BY <1>0, <1>4, <2>1, <2>2, <2>3, <3>1, WaitBuilt
  <2>4. CASE ~(online /\ session_count < MAX_SESSION /\ Named # {})
    <3>1. /\ Done /\ status' = status /\ insession' = insession /\ receive' = receive
          /\ UNCHANGED <<buf, rcvd, insessions, session_count, server, net>>
      BY <1>17, <2>4 DEF Answer, sessions
    <3> QED
      BY <1>0, <2>1, <3>1, WaitReturned
  <2> QED
    BY <2>3, <2>4
<1> QED
  BY <1>1, <1>6, <1>7, <1>8, <1>9, <1>10, <1>11, <1>12, <1>13, <1>14, <1>15, <1>16, <1>17 DEF Main

-----------------------------------------------------------------------------
(***************************************************************************)
(* A user who waits: send().                                               *)
(***************************************************************************)
\* What was handed on, and the old packets before it.
LEMMA SentPackets ==
  ASSUME TypeOK, WaitInv, main = "send", toServer' = toServer \o Passed
  PROVE  /\ \A i \in DOMAIN toServer' :
              \/ i \in DOMAIN toServer /\ toServer'[i] = toServer[i]
              \/ i = Len(toServer') /\ toServer'[i] = packet
              \/ toServer'[i].type \in FromServer
         /\ \A i \in DOMAIN toServer : toServer[i].type \notin Requests
         /\ packet.type = "EXIT" => \A i \in DOMAIN toServer' : toServer'[i].type \notin Requests
<1>1. /\ toServer \in Seq(Packets) /\ packet \in Packets
      /\ buf = packet \/ buf.type \in FromServer
  BY DEF TypeOK, WaitInv, PipeInv
<1>2. \A i \in DOMAIN toServer : toServer[i].type \notin Requests
  BY AwaitingIs DEF WaitInv, PipeInv
<1>3. \A type \in FromServer : type \notin Requests
  BY DEF FromServer, Replies, Grants, Requests
<1>4. CASE Passed = <<>>
  BY <1>1, <1>2, <1>4
<1>5. CASE Passed = <<buf>>
  <2>1. \A i \in DOMAIN toServer' : \/ i \in DOMAIN toServer /\ toServer'[i] = toServer[i]
                                    \/ i = Len(toServer') /\ toServer'[i] = buf
    BY <1>1, <1>5
  <2> QED
    BY <1>1, <1>2, <1>3, <2>1 DEF Requests
<1>6. CASE Passed = <<buf, packet>> /\ packet.type = "EXIT" /\ buf # packet
  <2>1. \A i \in DOMAIN toServer' : \/ i \in DOMAIN toServer /\ toServer'[i] = toServer[i]
                                    \/ toServer'[i] = buf
                                    \/ i = Len(toServer') /\ toServer'[i] = packet
    BY <1>1, <1>6
  <2> QED
    BY <1>1, <1>2, <1>3, <1>6, <2>1 DEF Requests
<1> QED
  BY <1>4, <1>5, <1>6, PassedIs

LEMMA WaitSend ==
  ASSUME BaseInv, WaitInv, Send
  PROVE  WaitInv'
<1>1. /\ main = "send" /\ main' = "prompt" /\ toServer' = toServer \o Passed
      /\ UNCHANGED <<buf, rcvd, member, sessionCnt>>
  BY DEF Send, Done, server
<1>2. /\ TypeOK /\ ~Awaiting /\ ~Answered /\ \A id \in Int : ~Granted(id)
      /\ insessions \in [Slots -> Int] /\ session_count \in Int
  BY <1>1, AwaitingIs DEF BaseInv, WaitInv, PipeInv, TypeOK
<1>3. /\ toClient' = toClient \/ toClient' = <<>>
      /\ receive' = receive \/ receive' = "none"
  BY DEF Send, StrikeOff, Disconnect
<1>4. ~Answered' /\ ~Handling' /\ \A id \in Int : ~Granted(id)'
  <2>1. ~Handling'
    BY <1>1, <1>2, <1>3 DEF Answered, Handling
  <2>2. \A i \in DOMAIN toClient' : toClient'[i].type \notin Replies
    BY <1>2, <1>3 DEF Answered
  <2> QED
    BY <2>1, <2>2 DEF Answered, Granted, Replies
\* The packets on the way.
<1>5. /\ \A i \in DOMAIN toServer' :
           \/ i \in DOMAIN toServer /\ toServer'[i] = toServer[i]
           \/ i = Len(toServer') /\ toServer'[i] = packet
           \/ toServer'[i].type \in FromServer
      /\ \A i \in DOMAIN toServer : toServer[i].type \notin Requests
  BY <1>1, <1>2, SentPackets
<1>6. \A type \in FromServer : type \notin Requests \cup {"LEAVE_SESS", "EXIT"}
  BY DEF FromServer, Replies, Grants, Requests
<1>7. PipeInv'
  <2>1. \A i \in DOMAIN toServer' : toServer'[i].type \in Requests => i = Len(toServer')
    BY <1>5, <1>6
  <2>2. \A i \in DOMAIN toClient' : toClient'[i].type \in FromServer /\ toClient'[i].type \notin Replies
    BY <1>2, <1>3 DEF WaitInv, PipeInv, Answered
  <2>3. receive' = "parse" /\ buf' \in Packets /\ buf'.type \in Replies => buf' = rcvd'
    BY <1>1, <1>3 DEF WaitInv, PipeInv
  <2> QED
    BY <1>1, <1>4, <2>1, <2>2, <2>3 DEF PipeInv
<1>8. Asking' => packet.type \in Asks
  BY <1>1, <1>4, <1>5, <1>6 DEF Asking, Asks, Requests
<1>9. Asking' => session_count < MAX_SESSION /\ packet.type \notin {"LEAVE_SESS", "EXIT"}
  BY <1>1, <1>8 DEF Asking, Asks, WaitInv, ListInv
<1>10. CASE packet.type = "LEAVE_SESS"
  <2>1. /\ idx \in Slots /\ insessions[idx] = packet.id
        /\ insessions' = [insessions EXCEPT ![idx] = INVALID_SESSION]
        /\ session_count' = session_count - 1 /\ status' = status
        /\ insession' = IF insession = packet.id THEN INVALID_SESSION ELSE insession
    BY <1>1, <1>10 DEF Send, StrikeOff, WaitInv, ListInv
  <2>2. Listed' = Listed \ {packet.id}
    <3>1. \A i \in Slots \ {idx} : insessions[i] = packet.id => packet.id = INVALID_SESSION
      BY <2>1 DEF WaitInv, ListInv
    <3> QED
      BY <1>2, <2>1, <3>1 DEF Listed
  <2>3. \A i, k \in Slots : insessions'[i] = insessions'[k] => i = k \/ insessions'[i] = INVALID_SESSION
    BY <1>2, <2>1 DEF WaitInv, ListInv
  <2>4. \A i \in DOMAIN toServer' :
          /\ toServer'[i].type = "LEAVE_SESS" => toServer'[i].id \notin Listed'
          /\ toServer'[i].type = "EXIT" => Listed' = {}
    BY <1>5, <1>6, <1>10, <2>2 DEF WaitInv, ListInv
  <2>5. StaysBelowLimit'
    BY <1>2, <2>1, ClientAssumption DEF WaitInv, ListInv, StaysBelowLimit
  <2>6. EngagedIsListed' /\ ListedIsMember'
    BY <1>1, <2>1, <2>2 DEF WaitInv, ListInv, EngagedIsListed, ListedIsMember
  <2> QED
    BY <1>1, <1>4, <1>7, <1>9, <1>10, <2>3, <2>4, <2>5, <2>6 DEF WaitInv, ListInv
<1>11. CASE packet.type = "EXIT"
  <2>1. insessions' = NoSessions /\ insession' = INVALID_SESSION /\ session_count' = 0
    BY <1>11 DEF Send, Disconnect
  <2>2. Listed' = {}
    BY <2>1 DEF Listed, NoSessions
  <2>3. StaysBelowLimit' /\ EngagedIsListed' /\ ListedIsMember'
    BY <2>1, <2>2, ClientAssumption DEF StaysBelowLimit, EngagedIsListed, ListedIsMember
  <2>4. \A i, k \in Slots : insessions'[i] = insessions'[k] => i = k \/ insessions'[i] = INVALID_SESSION
    BY <2>1 DEF NoSessions
  <2> QED
    BY <1>1, <1>4, <1>7, <1>9, <1>11, <2>2, <2>3, <2>4 DEF WaitInv, ListInv
<1>12. CASE packet.type \notin {"LEAVE_SESS", "EXIT"}
  <2>1. UNCHANGED <<insessions, insession, session_count, status>>
    BY <1>12 DEF Send, sessions
  <2>2. Listed' = Listed
    BY <2>1 DEF Listed
  <2>3. \A i \in DOMAIN toServer' :
          /\ toServer'[i].type = "LEAVE_SESS" => toServer'[i].id \notin Listed'
          /\ toServer'[i].type = "EXIT" => Listed' = {}
    BY <1>5, <1>6, <1>12, <2>2 DEF WaitInv, ListInv
  <2> QED
    BY <1>1, <1>4, <1>7, <1>9, <2>1, <2>2, <2>3
       DEF WaitInv, ListInv, StaysBelowLimit, EngagedIsListed, ListedIsMember
<1> QED
  BY <1>10, <1>11, <1>12

-----------------------------------------------------------------------------
(***************************************************************************)
(* A user who waits: receive().                                            *)
(***************************************************************************)
LEMMA WaitRecv ==
  ASSUME BaseInv, WaitInv, Recv
  PROVE  WaitInv'
<1> DEFINE p == Head(toClient)
<1>1. /\ toClient \in Seq(Packets) /\ toClient # <<>> /\ receive = "recv"
      /\ buf' = p /\ rcvd' = p /\ toClient' = Tail(toClient) /\ receive' = "parse"
      /\ UNCHANGED <<status, main, packet, idx, insessions, insession, session_count, member,
                     sessionCnt, toServer>>
  BY DEF Recv, BaseInv, TypeOK, sessions, server
<1>2. /\ p \in Packets /\ p = toClient[1] /\ 1 \in DOMAIN toClient
      /\ \A i \in DOMAIN toClient' : i + 1 \in DOMAIN toClient /\ toClient'[i] = toClient[i + 1]
  BY <1>1, Taken
<1>3. DOMAIN toClient' \subseteq Nat \ {0}
  BY <1>1
<1> HIDE DEF p
<1>4. Answered' => Answered
  BY <1>1, <1>2 DEF Answered, Handling
<1>5. Awaiting' => Awaiting
  BY <1>1, <1>4, AwaitingIs DEF Awaiting, Answered, Handling
<1>6. \A id \in Int : Granted(id)' => Granted(id)
  BY <1>1, <1>2 DEF Granted, Handling
<1>7. PipeInv'
  <2>1. p.type \in FromServer /\ \A i \in DOMAIN toClient' : toClient'[i].type \in FromServer
    BY <1>2 DEF WaitInv, PipeInv
  <2>2. \A i, j \in DOMAIN toClient' :
          toClient'[i].type \in Replies /\ toClient'[j].type \in Replies => i = j
    <3>1. ASSUME NEW i \in DOMAIN toClient', NEW j \in DOMAIN toClient',
                 toClient'[i].type \in Replies, toClient'[j].type \in Replies
          PROVE  i = j
      <4>1. i + 1 = j + 1
        BY <1>2, <3>1 DEF WaitInv, PipeInv
      <4> QED
        BY <1>3, <4>1
    <3> QED
      BY <3>1
  <2>3. p.type \in Replies => \A i \in DOMAIN toClient' : toClient'[i].type \notin Replies
    <3>1. ASSUME NEW i \in DOMAIN toClient', p.type \in Replies, toClient'[i].type \in Replies
          PROVE  FALSE
      <4>1. i + 1 = 1
        BY <1>2, <3>1 DEF WaitInv, PipeInv
      <4> QED
        BY <1>3, <4>1
    <3> QED
      BY <3>1
  <2>4. main' = "send" => (buf' = packet' \/ buf'.type \in FromServer) /\ packet'.type \notin Replies
    BY <1>1, <2>1 DEF WaitInv, PipeInv
  <2>5. main' # "prompt" => ~Awaiting'
    BY <1>1, <1>5 DEF WaitInv, PipeInv
  <2>6. Answered' => toServer' = <<>>
    BY <1>1, <1>4 DEF WaitInv, PipeInv
  <2>7. \A i \in DOMAIN toServer' : toServer'[i].type \in Requests => i = Len(toServer')
    BY <1>1 DEF WaitInv, PipeInv
  <2>8. Handling' => p.type \in Replies
    BY <1>1 DEF Handling
  <2> QED
    BY <1>1, <2>1, <2>2, <2>3, <2>4, <2>5, <2>6, <2>7, <2>8 DEF PipeInv
<1>8. Asking' => session_count < MAX_SESSION
  BY <1>1, <1>6 DEF Asking, WaitInv, ListInv
<1>9. Listed' = Listed
  BY <1>1 DEF Listed
<1>10. ListInv'
  BY <1>1, <1>6, <1>8, <1>9 DEF WaitInv, ListInv, StaysBelowLimit, EngagedIsListed, ListedIsMember
<1> QED
  BY <1>7, <1>10 DEF WaitInv

LEMMA WaitParse ==
  ASSUME BaseInv, WaitInv, Parse
  PROVE  WaitInv'
<1>1. /\ UNCHANGED <<toServer, toClient, insessions, insession, session_count, member, sessionCnt,
                     main, buf, packet, idx>>
      /\ receive = "parse" /\ receive' # "parse"
      /\ status' = "running" => status = "running"
  BY DEF Parse, sessions, server, net
<1>2. Handling' => Handling /\ rcvd' = rcvd
  <2>1. IsLine(buf) \/ buf \in Packets
    BY LineIsLine DEF BaseInv, TypeOK
  <2>2. CASE IsLine(buf)
    BY <2>2 DEF Parse, Handling
  <2>3. CASE ~IsLine(buf)
    BY <1>1, <2>1, <2>3 DEF Parse, Handling, WaitInv, PipeInv
  <2> QED
    BY <2>2, <2>3
<1>3. main' # "prompt" => ~Awaiting
  BY <1>1 DEF WaitInv, PipeInv
<1>4. main' = "send" =>
        /\ buf' = packet' \/ buf'.type \in FromServer
        /\ packet'.type \notin Replies
        /\ packet'.type \in Asks => session_count < MAX_SESSION
        /\ packet'.type = "LEAVE_SESS" => idx' \in Slots /\ insessions[idx'] = packet'.id
  BY <1>1 DEF WaitInv, PipeInv, ListInv, Asking
<1>5. TypeOK
  BY DEF BaseInv
<1> QED
  BY <1>1, <1>2, <1>3, <1>4, <1>5, Quiet

\* A step of the thread that handles no reply.
LEMMA WaitLock ==
  ASSUME BaseInv, WaitInv, LockInvit \/ UnlockInvit \/ EndLocked
  PROVE  WaitInv'
<1>1. /\ UNCHANGED <<toServer, toClient, insessions, insession, session_count, member, sessionCnt,
                     main, buf, packet, idx, status>>
      /\ receive' \in {"print", "recv", "none"}
  BY DEF LockInvit, UnlockInvit, EndLocked, sessions, server, net, local
<1>2. Handling' => Handling /\ rcvd' = rcvd
  BY <1>1 DEF Handling
<1>3. main' # "prompt" => ~Awaiting
  BY <1>1 DEF WaitInv, PipeInv
<1>4. main' = "send" =>
        /\ buf' = packet' \/ buf'.type \in FromServer
        /\ packet'.type \notin Replies
        /\ packet'.type \in Asks => session_count < MAX_SESSION
        /\ packet'.type = "LEAVE_SESS" => idx' \in Slots /\ insessions[idx'] = packet'.id
  BY <1>1 DEF WaitInv, PipeInv, ListInv, Asking
<1>5. TypeOK
  BY DEF BaseInv
<1> QED
  BY <1>1, <1>2, <1>3, <1>4, <1>5, Quiet

\* The reply takes effect: main() is at its prompt and nothing is under way.
LEMMA WaitStore ==
  ASSUME BaseInv, WaitInv, Store
  PROVE  WaitInv'
<1>1. /\ receive = "store" /\ receive' \in {"recv", "none"}
      /\ UNCHANGED <<main, buf, packet, rcvd, idx, member, sessionCnt, toServer, toClient>>
  BY DEF Store, local, server, net
<1>2. /\ rcvd \in Packets /\ rcvd.id \in Int /\ rcvd.type \in Grants \cup {"JN_NAK"} /\ Handling
      /\ insessions \in [Slots -> Int] /\ session_count \in Int
  BY <1>1 DEF BaseInv, TypeOK, GenuineInv, Packets, Handling, Replies
<1>3. /\ main = "prompt" /\ toServer = <<>>
      /\ \A i \in DOMAIN toClient : toClient[i].type \notin Replies
  BY <1>2, AwaitingIs DEF WaitInv, PipeInv, Answered
<1>4. ~Handling' /\ ~Answered' /\ \A id \in Int : ~Granted(id)'
  BY <1>1, <1>3 DEF Answered, Handling, Granted, Replies
<1>5. DOMAIN toServer = {}
  BY <1>3
<1>6. PipeInv'
  BY <1>1, <1>3, <1>4, <1>5 DEF WaitInv, PipeInv
<1>7. ~Asking'
  BY <1>1, <1>3, <1>4, <1>5 DEF Asking
<1>8. CASE rcvd.type \in Grants
  <2> DEFINE id == rcvd.id
  <2>1. Granted(id) /\ id \in Int /\ Joined(id)
    BY <1>2, <1>8 DEF Granted, Store
  <2>2. id \in member \ Listed /\ id \in Nat /\ session_count < MAX_SESSION
    BY <2>1 DEF WaitInv, ListInv, Asking, BaseInv, TypeOK
  <2>3. insession' = id /\ session_count' = session_count + 1
    BY <2>1 DEF Joined
  <2> HIDE DEF id
  <2>4. StaysBelowLimit'
    BY <1>2, <2>2, <2>3, ClientAssumption DEF StaysBelowLimit
  <2>5. CASE session_count \in Slots
    <3>1. insessions' = [insessions EXCEPT ![session_count] = id] /\ status' = status
      BY <2>1, <2>5 DEF Joined
    <3>2. id \in Listed' /\ Listed' \subseteq Listed \cup {id}
      BY <1>2, <2>2, <2>5, <3>1 DEF Listed, INVALID_SESSION
    <3>3. \A i \in Slots : insessions[i] # id
      BY <2>2 DEF Listed, INVALID_SESSION
    <3>4. \A i, k \in Slots : insessions'[i] = insessions'[k] => i = k \/ insessions'[i] = INVALID_SESSION
      BY <1>2, <2>5, <3>1, <3>3 DEF WaitInv, ListInv
    <3>5. EngagedIsListed' /\ ListedIsMember'
      BY <1>1, <2>2, <2>3, <3>2 DEF EngagedIsListed, ListedIsMember, WaitInv, ListInv
    <3> QED
      BY <1>1, <1>3, <1>4, <1>5, <1>6, <1>7, <2>4, <3>4, <3>5 DEF WaitInv, ListInv
  <2>6. CASE session_count \notin Slots
    <3>1. insessions' = insessions /\ status' = "undefined"
      BY <2>1, <2>6 DEF Joined
    <3>2. Listed' = Listed
      BY <3>1 DEF Listed
    <3>3. EngagedIsListed' /\ ListedIsMember'
      BY <1>1, <3>1, <3>2 DEF EngagedIsListed, ListedIsMember, WaitInv, ListInv
    <3> QED
      BY <1>1, <1>3, <1>4, <1>5, <1>6, <1>7, <2>4, <3>1, <3>3 DEF WaitInv, ListInv
  <2> QED
    BY <2>5, <2>6
<1>9. CASE rcvd.type \notin Grants
  <2>1. insession' = INVALID_SESSION /\ UNCHANGED <<status, insessions, session_count>>
    BY <1>9 DEF Store
  <2>2. Listed' = Listed
    BY <2>1 DEF Listed
  <2> QED
    BY <1>1, <1>3, <1>4, <1>5, <1>6, <1>7, <2>1, <2>2
       DEF WaitInv, ListInv, StaysBelowLimit, EngagedIsListed, ListedIsMember
<1> QED
  BY <1>8, <1>9

-----------------------------------------------------------------------------
(***************************************************************************)
(* A user who waits: the server and other users.                           *)
(***************************************************************************)
ClientUnchanged ==
  UNCHANGED <<status, main, receive, buf, packet, idx, rcvd, insessions, insession, session_count>>

\* The request is served: it was the only packet, and q is the only reply.
LEMMA WaitAnswered ==
  ASSUME BaseInv, WaitInv, ClientUnchanged, toServer # <<>>, toServer' = Tail(toServer),
         Head(toServer).type \in Requests,
         NEW q \in Packets, q.type \in Replies, Reply(q),
         \A id \in member' \cup Existing : id < sessionCnt',
         Listed \subseteq member',
         q.type \in Grants => Head(toServer).type \in Asks /\ q.id \in member' \ Listed
  PROVE  WaitInv'
<1> DEFINE p == Head(toServer)
<1>1. /\ toServer \in Seq(Packets) /\ toClient \in Seq(Packets) /\ p = toServer[1] /\ 1 \in DOMAIN toServer
  BY Taken DEF BaseInv, TypeOK
<1>2. toServer' = <<>> /\ DOMAIN toServer' = {}
  <2>1. Len(toServer) = 1
    BY <1>1 DEF WaitInv, PipeInv
  <2> QED
    BY <1>1, <2>1
<1>3. /\ main = "prompt" /\ ~Answered /\ ~Handling /\ ~Handling'
      /\ \A i \in DOMAIN toClient : toClient[i].type \notin Replies
  <2>1. main = "prompt" /\ ~Answered
    BY <1>1, AwaitingIs DEF WaitInv, PipeInv
  <2> QED
    BY <2>1 DEF Answered, Handling, ClientUnchanged
<1>4. \A i \in DOMAIN toClient' :
        \/ i \in DOMAIN toClient /\ toClient'[i] = toClient[i]
        \/ i = Len(toClient) + 1 /\ toClient'[i] = q
  BY <1>1, Appended DEF Reply
<1>5. PipeInv'
  <2>1. main' = "prompt"
    BY <1>3 DEF ClientUnchanged
  <2>2. \A i, j \in DOMAIN toClient' :
          toClient'[i].type \in Replies /\ toClient'[j].type \in Replies => i = j
    BY <1>3, <1>4
  <2>3. \A i \in DOMAIN toClient' : toClient'[i].type \in FromServer
    BY <1>4 DEF WaitInv, PipeInv, FromServer
  <2>4. receive' = "parse" /\ buf' \in Packets /\ buf'.type \in Replies => buf' = rcvd'
    BY DEF ClientUnchanged, WaitInv, PipeInv
  <2> QED
    BY <1>2, <1>3, <2>1, <2>2, <2>3, <2>4 DEF PipeInv
<1>6. \A id \in Int : Granted(id)' => q.type \in Grants /\ id = q.id
  BY <1>3, <1>4 DEF Granted, Replies
<1>7. Asking' => session_count < MAX_SESSION
  <2>1. ASSUME p.type \in Asks PROVE session_count < MAX_SESSION
    BY <1>1, <2>1 DEF Asking, WaitInv, ListInv
  <2>2. Asking' => q.type \in Grants
    BY <1>2, <1>3, <1>6 DEF Asking, ClientUnchanged
  <2> QED
    BY <2>1, <2>2
<1>8. Listed' = Listed
  BY DEF Listed, ClientUnchanged
<1>9. ListInv'
  BY <1>2, <1>3, <1>6, <1>7, <1>8
     DEF ClientUnchanged, WaitInv, ListInv, StaysBelowLimit, EngagedIsListed, ListedIsMember
<1> QED
  BY <1>5, <1>9 DEF WaitInv

\* A packet that asks for nothing is served.
LEMMA WaitTaken ==
  ASSUME BaseInv, WaitInv, ClientUnchanged, toServer # <<>>, toServer' = Tail(toServer),
         toClient' = toClient, sessionCnt' = sessionCnt,
         member' \subseteq member, Listed \subseteq member'
  PROVE  WaitInv'
<1>1. /\ toServer \in Seq(Packets) /\ Len(toServer') = Len(toServer) - 1
      /\ \A i \in DOMAIN toServer' : i + 1 \in DOMAIN toServer /\ toServer'[i] = toServer[i + 1]
      /\ Len(toServer) \in Nat /\ DOMAIN toServer' \subseteq Nat
  BY Taken DEF BaseInv, TypeOK
<1>2. Answered' = Answered /\ Handling' = Handling /\ ~Answered
  BY DEF Answered, Handling, ClientUnchanged, WaitInv, PipeInv
<1>3. Awaiting' => Awaiting
  BY <1>1, <1>2, AwaitingIs DEF Awaiting, Answered, Handling, ClientUnchanged
<1>4. PipeInv'
  <2>1. \A i \in DOMAIN toServer' : toServer'[i].type \in Requests => i = Len(toServer')
    <3>1. ASSUME NEW i \in DOMAIN toServer', toServer'[i].type \in Requests PROVE i = Len(toServer')
      <4>1. i + 1 = Len(toServer)
        BY <1>1, <3>1 DEF WaitInv, PipeInv
      <4> QED
        BY <1>1, <4>1
    <3> QED
      BY <3>1
  <2> QED
    BY <1>2, <1>3, <2>1 DEF ClientUnchanged, WaitInv, PipeInv
<1>5. \A id \in Int : ~Granted(id)' /\ ~Granted(id)
  BY <1>2, AwaitingIs DEF Granted, Handling, ClientUnchanged
<1>6. Asking' => Asking
  BY <1>1, <1>5 DEF Asking, ClientUnchanged
<1>7. Listed' = Listed
  BY DEF Listed, ClientUnchanged
<1>8. \A i \in DOMAIN toServer' :
        /\ toServer'[i].type = "LEAVE_SESS" => toServer'[i].id \notin Listed
        /\ toServer'[i].type = "EXIT" => Listed = {}
  BY <1>1 DEF WaitInv, ListInv
<1>9. ListInv'
  BY <1>5, <1>6, <1>7, <1>8
     DEF ClientUnchanged, WaitInv, ListInv, StaysBelowLimit, EngagedIsListed, ListedIsMember
<1> QED
  BY <1>4, <1>9 DEF WaitInv

LEMMA WaitServe ==
  ASSUME BaseInv, WaitInv, Serve
  PROVE  WaitInv'
<1> DEFINE p == Head(toServer)
<1>1. /\ toServer # <<>> /\ toServer' = Tail(toServer) /\ ClientUnchanged
      /\ p \in Packets /\ p.id \in Int /\ p = toServer[1] /\ 1 \in DOMAIN toServer
  BY Taken DEF Serve, ClientUnchanged, local, sessions, BaseInv, TypeOK, Packets
<1>2. /\ sessionCnt \in Nat /\ member \subseteq Nat /\ Listed \subseteq member
      /\ \A id \in member \cup Existing : id < sessionCnt
  BY DEF BaseInv, TypeOK, WaitInv, ListInv, ListedIsMember
<1>3. {"JN_ACK", "JN_NAK", "NS_ACK", "QU_ACK"} \subseteq Types \cap Replies
      /\ "JN_NAK" \notin Grants /\ "QU_ACK" \notin Grants /\ 0 \in Int
  BY DEF Types, Grants, Replies
<1> HIDE DEF p
<1>4. CASE p.type = "JOIN" /\ p.id \in Existing \ member
  <2> DEFINE q == Msg("JN_ACK", p.id)
  <2>1. q \in Packets /\ q.type = "JN_ACK" /\ q.id = p.id
    BY <1>1, <1>3, MsgIsPacket
  <2>2. Reply(q) /\ member' = member \cup {p.id} /\ sessionCnt' = sessionCnt
    BY <1>4 DEF Serve, ServeJoin, p
  <2>3. p.id \in member' \ Listed /\ Listed \subseteq member'
        /\ \A id \in member' \cup Existing : id < sessionCnt'
    BY <1>2, <1>4, <2>2
  <2> HIDE DEF q
  <2> QED
    BY <1>1, <1>3, <1>4, <2>1, <2>2, <2>3, WaitAnswered DEF Asks, Requests, p
<1>5. CASE p.type = "JOIN" /\ p.id \notin Existing \ member
  <2> DEFINE q == Msg("JN_NAK", p.id)
  <2>1. q \in Packets /\ q.type = "JN_NAK"
    BY <1>1, <1>3, MsgIsPacket
  <2>2. Reply(q) /\ member' = member /\ sessionCnt' = sessionCnt
    BY <1>5 DEF Serve, ServeJoin, p, server
  <2> HIDE DEF q
  <2> QED
    BY <1>1, <1>2, <1>3, <1>5, <2>1, <2>2, WaitAnswered DEF Requests, p
<1>6. CASE p.type = "NEW_SESS"
  <2> DEFINE q == Msg("NS_ACK", sessionCnt)
  <2>1. q \in Packets /\ q.type = "NS_ACK" /\ q.id = sessionCnt
    BY <1>2, <1>3, MsgIsPacket
  <2>2. Reply(q) /\ member' = member \cup {sessionCnt} /\ sessionCnt' = sessionCnt + 1
    BY <1>6 DEF Serve, ServeNew, p
  <2>3. sessionCnt \notin member
    BY <1>2
  <2>4. sessionCnt \in member' \ Listed /\ Listed \subseteq member'
    BY <1>2, <2>2, <2>3
  <2>5. \A id \in member' \cup Existing : id < sessionCnt'
    BY <1>2, <2>2, ClientAssumption
  <2> HIDE DEF q
  <2> QED
    BY <1>1, <1>3, <1>6, <2>1, <2>2, <2>4, <2>5, WaitAnswered DEF Asks, Requests, p
<1>7. CASE p.type = "QUERY"
  <2> DEFINE q == Msg("QU_ACK", 0)
  <2>1. q \in Packets /\ q.type = "QU_ACK"
    BY <1>3, MsgIsPacket
  <2>2. Reply(q) /\ member' = member /\ sessionCnt' = sessionCnt
    BY <1>7 DEF Serve, p, server
  <2> HIDE DEF q
  <2> QED
    BY <1>1, <1>2, <1>3, <1>7, <2>1, <2>2, WaitAnswered DEF Requests, p
<1>8. CASE p.type = "LEAVE_SESS"
  <2>1. /\ member' \subseteq member /\ member \ {p.id} \subseteq member'
        /\ sessionCnt' = sessionCnt /\ toClient' = toClient
    BY <1>8 DEF Serve, ServeLeave, p
  <2>2. p.id \notin Listed
    BY <1>1, <1>8 DEF WaitInv, ListInv
  <2> QED
    BY <1>1, <1>2, <2>1, <2>2, WaitTaken
<1>9. CASE p.type = "EXIT"
  <2>1. member' \subseteq member /\ sessionCnt' = sessionCnt /\ toClient' = toClient
    BY <1>9 DEF Serve, ServeExit, p
  <2>2. Listed = {}
    BY <1>1, <1>9 DEF WaitInv, ListInv
  <2> QED
    BY <1>1, <2>1, <2>2, WaitTaken
<1>10. CASE p.type \notin {"JOIN", "NEW_SESS", "LEAVE_SESS", "EXIT", "QUERY"}
  <2>1. member' = member /\ sessionCnt' = sessionCnt /\ toClient' = toClient
    BY <1>10 DEF Serve, server, p
  <2> QED
    BY <1>1, <1>2, <2>1, WaitTaken
<1> QED
  BY <1>4, <1>5, <1>6, <1>7, <1>8, <1>9, <1>10

LEMMA WaitOthers ==
  ASSUME BaseInv, WaitInv, NEW p \in FromOthers, OtherUser(p)
  PROVE  WaitInv'
<1>1. /\ ClientUnchanged /\ UNCHANGED <<toServer, member, sessionCnt>>
      /\ toClient \in Seq(Packets) /\ toClient' = Append(toClient, p)
  BY DEF OtherUser, Reply, ClientUnchanged, local, sessions, server, BaseInv, TypeOK
<1>2. p \in Packets /\ p.type \in FromServer /\ p.type \notin Replies
  BY OthersSend DEF FromServer, Replies, Grants
<1>3. \A i \in DOMAIN toClient' :
        \/ i \in DOMAIN toClient /\ toClient'[i] = toClient[i]
        \/ i = Len(toClient) + 1 /\ toClient'[i] = p
  BY <1>1, <1>2, Appended
<1>4. (Answered' => Answered) /\ Handling' = Handling
  BY <1>1, <1>2, <1>3 DEF Answered, Handling, ClientUnchanged
<1>5. Awaiting' => Awaiting
  BY <1>1, <1>4, AwaitingIs DEF Awaiting, Answered, Handling, ClientUnchanged
<1>6. \A id \in Int : Granted(id)' => Granted(id)
  BY <1>1, <1>2, <1>3, <1>4 DEF Granted, Replies, ClientUnchanged
<1>7. PipeInv'
  <2>1. \A i, j \in DOMAIN toClient' :
          toClient'[i].type \in Replies /\ toClient'[j].type \in Replies => i = j
    BY <1>2, <1>3 DEF WaitInv, PipeInv
  <2>2. \A i \in DOMAIN toClient' : toClient'[i].type \in FromServer
    BY <1>2, <1>3 DEF WaitInv, PipeInv
  <2>3. Handling' => \A i \in DOMAIN toClient' : toClient'[i].type \notin Replies
    BY <1>2, <1>3, <1>4 DEF WaitInv, PipeInv
  <2> QED
    BY <1>1, <1>4, <1>5, <2>1, <2>2, <2>3 DEF ClientUnchanged, WaitInv, PipeInv
<1>8. Asking' => Asking
  BY <1>1, <1>6 DEF Asking, ClientUnchanged
<1>9. Listed' = Listed
  BY <1>1 DEF Listed, ClientUnchanged
<1>10. ListInv'
  BY <1>1, <1>6, <1>8, <1>9
     DEF ClientUnchanged, WaitInv, ListInv, StaysBelowLimit, EngagedIsListed, ListedIsMember
<1> QED
  BY <1>7, <1>10 DEF WaitInv

-----------------------------------------------------------------------------
(***************************************************************************)
(* The theorems.                                                           *)
(***************************************************************************)
LEMMA WaitInit == Init => WaitInv
<1> SUFFICES ASSUME Init PROVE WaitInv
  OBVIOUS
<1>1. /\ main = "prompt" /\ receive = "none" /\ toServer = <<>> /\ toClient = <<>>
      /\ insessions = NoSessions /\ insession = INVALID_SESSION /\ session_count = 0
      /\ member = {} /\ sessionCnt = FirstNew
      /\ DOMAIN toServer = {} /\ DOMAIN toClient = {}
  BY DEF Init
<1>2. ~Handling /\ ~Answered /\ \A id \in Int : ~Granted(id)
  BY <1>1 DEF Handling, Answered, Granted
<1>3. PipeInv
  BY <1>1, <1>2 DEF PipeInv
<1>4. Listed = {} /\ ~Asking
  BY <1>1, <1>2 DEF Listed, NoSessions, Asking
<1>5. ListInv
  <2>1. \A i \in Slots : insessions[i] = INVALID_SESSION
    BY <1>1 DEF NoSessions
  <2>2. StaysBelowLimit /\ ListedIsMember /\ EngagedIsListed
    BY <1>1, <1>4, ClientAssumption DEF StaysBelowLimit, ListedIsMember, EngagedIsListed
  <2>3. \A id \in member \cup Existing : id < sessionCnt
    BY <1>1, ClientAssumption
  <2> QED
    BY <1>1, <1>2, <1>4, <2>1, <2>2, <2>3 DEF ListInv
<1> QED
  BY <1>3, <1>5 DEF WaitInv

LEMMA WaitStutter ==
  ASSUME BaseInv, WaitInv, UNCHANGED vars
  PROVE  WaitInv'
<1> USE DEF vars, local, sessions, server, net
<1>1. /\ UNCHANGED <<toServer, toClient, insessions, insession, session_count, member, sessionCnt,
                     main, buf, packet, idx, status, rcvd, receive>>
      /\ TypeOK
  BY DEF BaseInv
<1>2. Handling' => Handling /\ rcvd' = rcvd
  BY <1>1 DEF Handling
<1>3. /\ main' # "prompt" => ~Awaiting
      /\ receive' = "parse" /\ buf' \in Packets /\ buf'.type \in Replies => buf' = rcvd'
      /\ main' = "send" =>
           /\ buf' = packet' \/ buf'.type \in FromServer
           /\ packet'.type \notin Replies
           /\ packet'.type \in Asks => session_count < MAX_SESSION
           /\ packet'.type = "LEAVE_SESS" => idx' \in Slots /\ insessions[idx'] = packet'.id
  BY <1>1 DEF WaitInv, PipeInv, ListInv, Asking
<1> QED
  BY <1>1, <1>2, <1>3, Quiet

\* With a user who waits for the reply to a request (other users do not, and
\* the threads interleave as they like), client and server are in step.
THEOREM Waiting == Waits => (Spec => []WaitInv)
<1> SUFFICES ASSUME Waits PROVE Spec => []WaitInv
  OBVIOUS
<1>1. BaseInv /\ WaitInv /\ [Next]_vars => WaitInv'
  <2> SUFFICES ASSUME BaseInv, WaitInv, [Next]_vars PROVE WaitInv'
    OBVIOUS
  <2>1. CASE Main
    BY <2>1, WaitMain, WaitSend
  <2>2. CASE Receive
    BY <2>2, WaitRecv, WaitParse, WaitLock, WaitStore DEF Receive
  <2>3. CASE Serve
    BY <2>3, WaitServe
  <2>4. ASSUME NEW p \in FromOthers, OtherUser(p) PROVE WaitInv'
    BY <2>4, WaitOthers
  <2>5. CASE UNCHANGED vars
    BY <2>5, WaitStutter
  <2> QED
    BY <2>1, <2>2, <2>3, <2>4, <2>5 DEF Next
<1> QED
  BY <1>1, WaitInit, Base, PTL DEF Spec

\* Whatever is typed and sent, in whatever order, every variable keeps its
\* type: no line is sent for a packet, no missing argument gets into one.
THEOREM Typed == Spec => []TypeOK
<1>1. BaseInv => TypeOK
  BY DEF BaseInv
<1> QED
  BY <1>1, Base, PTL

\* "y" answers an invitation that has arrived (client.c:82-88, 437-447), for
\* every user and every interleaving of the two threads, cancellation included.
THEOREM Invitations == Spec => []AnswersAnInvitation
<1>1. BaseInv => AnswersAnInvitation
  BY DEF BaseInv, InvitInv
<1> QED
  BY <1>1, Base, PTL

\* Text goes to a session the client is in: insession follows what insessions
\* says through joins, leaves, refusals and switches (client.c:283-300).
THEOREM Engaged == Waits => (Spec => []EngagedIsListed)
<1>1. WaitInv => EngagedIsListed
  BY DEF WaitInv, ListInv
<1> QED
  BY <1>1, Waiting, PTL

\* What the client lists is a session whose list at the server has it: no
\* entry outlives its session or the login, none is made for a refused request.
THEOREM Members == Waits => (Spec => []ListedIsMember)
<1>1. WaitInv => ListedIsMember
  BY DEF WaitInv, ListInv
<1> QED
  BY <1>1, Waiting, PTL

\* The comparisons with MAX_SESSION (client.c:235, 308) suffice for the end of
\* insessions.  Its beginning they do not guard: /leavesession -1 lowers the
\* count below 0.
THEOREM BelowLimit == Waits => (Spec => []StaysBelowLimit)
<1>1. WaitInv => StaysBelowLimit
  BY DEF WaitInv, ListInv
<1> QED
  BY <1>1, Waiting, PTL
=============================================================================
