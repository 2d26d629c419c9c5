-------------------------- MODULE ConferenceClient --------------------------
(***************************************************************************)
(* The text conferencing client, TextConferencingLab/LAB2/client.c: main() *)
(* reads lines and sends requests, a second thread (receive) handles what  *)
(* the server sends.  The two share buf, insessions, insession,            *)
(* session_count and, under invit_mutex, the invitation.  The server is    *)
(* the part of server.c that this client talks to: its private list of     *)
(* sessions, its membership in the shared list, and the replies.           *)
(*                                                                         *)
(* Steps of main() end where it has filled buf, where it waits for the     *)
(* mutex and where it has sent; those of receive() where recv() has filled *)
(* buf, where a reply is printed but not stored, and around the mutex.     *)
(* The two interleave freely.  Text that is not a packet has no colon.     *)
(*                                                                         *)
(* pthread_cancel() takes effect where receive() waits in recv() or prints *)
(* next: while the client is offline and receive is not "none", the thread *)
(* is on its way there.                                                    *)
(***************************************************************************)
EXTENDS Integers, Sequences, FiniteSets, SequencesExt

CONSTANTS
  MAX_SESSION,  (* length of insessions (client.c:15, there 3)               *)
  Lines,        (* what the user may type: records [cmd, id]                 *)
  NoId,         (* the id of a command whose argument is missing             *)
  MaxLines,     (* lines typed in one behaviour                              *)
  MaxOthers,    (* messages and invitations of other users in one behaviour  *)
  Existing,     (* sessions that other users keep open                       *)
  FirstNew,     (* the server's sessionCnt at the start                      *)
  Waits         (* TRUE: the user types the next line when the answer to the *)
                (* last request has been handled; other users do not wait    *)

INVALID_SESSION == -1

ASSUME ClientAssumption ==
  /\ MAX_SESSION \in Nat \ {0}
  /\ Lines \subseteq [cmd : {"/login", "/logout", "/joinsession", "/leavesession",
                             "/createsession", "/list", "/quit", "/switchsession",
                             "/invite", "text", "y"}, id : Int \cup {NoId}]
  /\ NoId \notin Int
  /\ MaxLines \in Nat /\ MaxOthers \in Nat
  /\ IsFiniteSet(Existing) /\ Existing \subseteq Nat \ {0}
  /\ FirstNew \in Nat \ {0} /\ \A id \in Existing : id < FirstNew
  /\ Waits \in BOOLEAN

VARIABLES
  status,         (* running, ended by /quit, exited by exit(1), or undefined  *)
                  (* after a write outside insessions or atoi(NULL)            *)
  main,           (* where main() is: prompt, dispatch, answer, send           *)
  receive,        (* where the other thread is: none, recv, parse, store,      *)
                  (* lock, print                                               *)
  buf,            (* the shared buffer: a line, a packet or nothing            *)
  typed,          (* the line of the command in progress                       *)
  packet,         (* the packet main() built from it                           *)
  idx,            (* leavesession()'s index                                    *)
  rcvd,           (* the packet receive() is handling                          *)
  online,         (* socketfd # INVALID_SOCKET                                 *)
  insessions, insession, session_count,
  invit, invit_session, invit_mutex,
  toServer, toClient,   (* the connection                                      *)
  sessJoined,     (* the server thread's private list                          *)
  member,         (* the sessions whose user list has this client              *)
  sessionCnt,     (* the server's counter                                      *)
  lines, others   (* how much was typed, and sent by others                    *)

sessions == <<insessions, insession, session_count>>
invitation == <<invit, invit_session, invit_mutex>>
server == <<sessJoined, member, sessionCnt>>
net == <<toServer, toClient>>
bounds == <<lines, others>>
local == <<typed, packet, idx, rcvd>>
vars == <<status, main, receive, buf, local, online, sessions, invitation, server, net, bounds>>

Slots == 0 .. MAX_SESSION - 1
Msg(type, id) == [type |-> type, id |-> id]
Nothing == Msg("", 0)
IsLine(b) == "cmd" \in DOMAIN b
NoSessions == [i \in Slots |-> INVALID_SESSION]
Listed == {insessions[i] : i \in Slots} \ {INVALID_SESSION}

Requests == {"JOIN", "NEW_SESS", "QUERY"}
Grants == {"JN_ACK", "NS_ACK"}
Replies == Grants \cup {"JN_NAK", "QU_ACK"}

\* A request of this user is under way, or its reply is not handled yet.
Awaiting ==
  \/ \E i \in DOMAIN toServer : toServer[i].type \in Requests
  \/ \E i \in DOMAIN toClient : toClient[i].type \in Replies
  \/ receive \in {"parse", "store"} /\ rcvd.type \in Replies

\* Nothing is under way anywhere.
Rest == /\ main = "prompt" /\ receive \in {"none", "recv"}
        /\ toServer = <<>> /\ toClient = <<>>

Init ==
  /\ status = "running" /\ main = "prompt" /\ receive = "none"
  /\ buf = Nothing /\ typed = Nothing /\ packet = Nothing /\ idx = 0 /\ rcvd = Nothing
  /\ online = FALSE
  /\ insessions = NoSessions /\ insession = INVALID_SESSION /\ session_count = 0
  /\ invit = FALSE /\ invit_session = 0 /\ invit_mutex = "free"
  /\ toServer = <<>> /\ toClient = <<>>
  /\ sessJoined = <<>> /\ member = {} /\ sessionCnt = FirstNew
  /\ lines = 0 /\ others = 0

-----------------------------------------------------------------------------
(***************************************************************************)
(* main().                                                                 *)
(***************************************************************************)
ReadLine(l) ==
  /\ status = "running" /\ main = "prompt"
  /\ lines < MaxLines
  /\ Waits => ~Awaiting
  /\ lines' = lines + 1
  /\ buf' = l /\ typed' = l
  /\ main' = "dispatch"
  /\ UNCHANGED <<status, receive, packet, idx, rcvd, online, sessions, invitation>>
  /\ UNCHANGED <<server, net, others>>

\* What main() takes buf for; a packet that receive() left there is text.
Cmd == IF IsLine(buf) THEN buf.cmd ELSE "text"

Dispatched(cmd) ==
  /\ status = "running" /\ main = "dispatch"
  /\ ~invit
  /\ Cmd = cmd

\* What a command was about goes out of scope.
Done == main' = "prompt" /\ typed' = Nothing /\ packet' = Nothing /\ idx' = 0

\* Back to the prompt with nothing sent.
Refuse ==
  /\ Done
  /\ UNCHANGED <<status, receive, buf, rcvd, online, sessions, invitation, server, net, bounds>>

\* packetToString() into the shared buffer.
Build(p) ==
  /\ packet' = p
  /\ buf' = p
  /\ main' = "send"
  /\ UNCHANGED <<status, receive, typed, rcvd, online, sessions, server, net, bounds>>

\* login(): nothing reads buf before it is filled again.  The server may be
\* unreachable or refuse, as it does while it still serves the last connection
\* of this user; the socket is closed again then.  By the server's answer the
\* thread of the last connection has come to its end.
Login ==
  /\ Dispatched("/login")
  /\ Done
  /\ \/ UNCHANGED <<online, receive>>
     \/ /\ ~online /\ receive = "none" /\ toServer = <<>>
        /\ buf.id # NoId
        /\ online' = TRUE
        /\ receive' = "recv"
  /\ UNCHANGED <<status, buf, rcvd, sessions, invitation, server, net, bounds>>

Logout ==
  /\ Dispatched("/logout")
  /\ IF online THEN Build(Msg("EXIT", 0)) /\ UNCHANGED <<idx, invitation>> ELSE Refuse

\* logout() is called first; offline it does nothing.
Quit ==
  /\ Dispatched("/quit")
  /\ IF online
       THEN Build(Msg("EXIT", 0)) /\ UNCHANGED <<idx, invitation>>
       ELSE /\ status' = "ended"
            /\ Done
            /\ UNCHANGED <<receive, buf, rcvd, online, sessions, invitation, server, net, bounds>>

\* Mutant: the argument is not asked for.
JoinsessionNoUsage ==
  /\ Dispatched("/joinsession")
  /\ IF online /\ session_count < MAX_SESSION
       THEN Build(Msg("JOIN", buf.id)) /\ UNCHANGED <<idx, invitation>>
       ELSE Refuse

Joinsession ==
  /\ Dispatched("/joinsession")
  /\ IF online /\ session_count < MAX_SESSION /\ buf.id # NoId
       THEN Build(Msg("JOIN", buf.id)) /\ UNCHANGED <<idx, invitation>>
       ELSE Refuse

\* Mutant: no limit.
CreatesessionUnlimited ==
  /\ Dispatched("/createsession")
  /\ IF online THEN Build(Msg("NEW_SESS", 0)) /\ UNCHANGED <<idx, invitation>>
               ELSE Refuse

Createsession ==
  /\ Dispatched("/createsession")
  /\ IF online /\ session_count < MAX_SESSION
       THEN Build(Msg("NEW_SESS", 0)) /\ UNCHANGED <<idx, invitation>>
       ELSE Refuse

\* The argument is looked up among the places; -1 marks a free one.
Leavesession ==
  /\ Dispatched("/leavesession")
  /\ IF online /\ insession # INVALID_SESSION /\ \E i \in Slots : insessions[i] = buf.id
       THEN /\ Build(Msg("LEAVE_SESS", buf.id))
            /\ idx' = CHOOSE i \in Slots : /\ insessions[i] = buf.id
                                           /\ \A j \in 0 .. i - 1 : insessions[j] # buf.id
            /\ UNCHANGED invitation
       ELSE Refuse

List ==
  /\ Dispatched("/list")
  /\ IF online THEN Build(Msg("QUERY", 0)) /\ UNCHANGED <<idx, invitation>> ELSE Refuse

\* invite() asks neither for a connection nor, after the usage line, for the
\* arguments it goes on to read.
Invite ==
  /\ Dispatched("/invite")
  /\ CASE buf.id = NoId ->
            /\ status' = "undefined"
            /\ UNCHANGED <<main, receive, buf, local, online, sessions, invitation>>
            /\ UNCHANGED <<server, net, bounds>>
       [] buf.id # NoId /\ (\E i \in Slots : insessions[i] = buf.id) ->
            Build(Msg("INVIT", buf.id)) /\ UNCHANGED <<idx, invitation>>
       [] OTHER -> Refuse

\* send_text(): whatever is in buf and not a command.
SendText ==
  /\ Dispatched("text") \/ Dispatched("y")
  /\ IF online /\ insession # INVALID_SESSION
       THEN Build(Msg("MESSAGE", insession)) /\ UNCHANGED <<idx, invitation>>
       ELSE Refuse

Switchsession ==
  /\ Dispatched("/switchsession")
  /\ insession' = IF buf.id # NoId /\ buf.id < 0 THEN INVALID_SESSION
                  ELSE IF \E i \in Slots : insessions[i] = buf.id THEN buf.id ELSE insession
  /\ Done
  /\ UNCHANGED <<status, receive, buf, rcvd, online, insessions, session_count>>
  /\ UNCHANGED <<invitation, server, net, bounds>>

\* invit is read without the mutex ...
Invited ==
  /\ status = "running" /\ main = "dispatch"
  /\ invit
  /\ main' = "answer"
  /\ UNCHANGED <<status, receive, buf, local, online, sessions, invitation, server, net, bounds>>

\* ... and the line is the answer, whatever it says: "y" joins the session of
\* the invitation, anything else the session its second word names; a word
\* that is no number reads as 0.
Named ==
  CASE Cmd = "y" -> {invit_session}
    [] Cmd \in {"/joinsession", "/leavesession", "/switchsession"} -> {buf.id} \ {NoId}
    [] Cmd \in {"/login", "/invite"} -> {0}
    [] OTHER -> {}

Answer ==
  /\ status = "running" /\ main = "answer"
  /\ invit_mutex = "free"
  /\ IF online /\ session_count < MAX_SESSION /\ Named # {}
       THEN /\ \E id \in Named : Build(Msg("JOIN", id))
            /\ invit_mutex' = "main"
            /\ UNCHANGED <<idx, invit, invit_session>>
       ELSE /\ Done
            /\ invit' = FALSE
            /\ UNCHANGED <<status, receive, buf, rcvd, online, sessions, server, net, bounds>>
            /\ UNCHANGED <<invit_session, invit_mutex>>

\* What the connection takes: nothing after it is closed.  The close behind an
\* EXIT means EXIT to the server, whatever was sent.
Passed ==
  CASE ~online -> <<>>
    [] online /\ packet.type = "EXIT" /\ buf # packet -> <<buf, packet>>
    [] OTHER -> <<buf>>

\* Mutant: the session left stays the current one.
StrikeOffKeepsCurrent ==
  /\ session_count' = session_count - 1
  /\ insessions' = [insessions EXCEPT ![idx] = INVALID_SESSION]
  /\ UNCHANGED insession
  /\ UNCHANGED <<online, receive, status, toClient>>

\* leavesession() strikes the session off after it has sent.
StrikeOff ==
  /\ session_count' = session_count - 1
  /\ insessions' = [insessions EXCEPT ![idx] = INVALID_SESSION]
  /\ insession' = IF insession = packet.id THEN INVALID_SESSION ELSE insession
  /\ UNCHANGED <<online, receive, status, toClient>>

\* Mutant: logout() forgets the list.
DisconnectKeepsList ==
  /\ online' = FALSE
  /\ receive' = IF receive = "recv" THEN "none" ELSE receive
  /\ insession' = INVALID_SESSION /\ session_count' = 0
  /\ UNCHANGED insessions
  /\ toClient' = <<>>
  /\ status' = IF typed.cmd = "/quit" THEN "ended" ELSE status

\* logout() after its send(): a thread that waits in recv() ends at once.
Disconnect ==
  /\ online' = FALSE
  /\ receive' = IF receive = "recv" THEN "none" ELSE receive
  /\ insessions' = NoSessions /\ insession' = INVALID_SESSION /\ session_count' = 0
  /\ toClient' = <<>>
  /\ status' = IF typed.cmd = "/quit" THEN "ended" ELSE status

\* send() passes what buf holds by now; then the command ends, and with the
\* answer to an invitation the mutex is released.
Send ==
  /\ status = "running" /\ main = "send"
  /\ toServer' = toServer \o Passed
  /\ Done
  /\ CASE packet.type = "LEAVE_SESS" -> StrikeOff
       [] packet.type = "EXIT" -> Disconnect
       [] OTHER -> UNCHANGED <<sessions, online, receive, status, toClient>>
  /\ IF invit_mutex = "main" THEN invit' = FALSE /\ invit_mutex' = "free"
                             ELSE UNCHANGED <<invit, invit_mutex>>
  /\ UNCHANGED <<buf, rcvd, invit_session, server, bounds>>

Main ==
  \/ \E l \in Lines : ReadLine(l)
  \/ Login \/ Logout \/ Quit
  \/ Joinsession \/ Createsession \/ Leavesession \/ List \/ Invite \/ SendText \/ Switchsession
  \/ Invited \/ Answer
  \/ Send

-----------------------------------------------------------------------------
(***************************************************************************)
(* receive().                                                              *)
(***************************************************************************)
Recv ==
  /\ status = "running" /\ receive = "recv"
  /\ toClient # <<>>
  /\ buf' = Head(toClient)
  /\ toClient' = Tail(toClient)
  /\ rcvd' = Head(toClient)
  /\ receive' = "parse"
  /\ UNCHANGED <<status, main, typed, packet, idx, online, sessions, invitation>>
  /\ UNCHANGED <<server, toServer, bounds>>

\* stringToPacket() reads what buf holds by now; a line has no colon, and the
\* process exits.  Everything but an INVIT is printed first, which is where a
\* cancelled thread ends.
Parse ==
  /\ status = "running" /\ receive = "parse"
  /\ rcvd' = IF IsLine(buf) THEN Nothing ELSE buf
  /\ status' = IF IsLine(buf) THEN "exited" ELSE status
  /\ receive' = CASE IsLine(buf) -> "recv"
                  [] ~IsLine(buf) /\ buf.type = "INVIT" -> "lock"
                  [] OTHER -> IF ~online THEN "none"
                              ELSE IF buf.type \in Grants \cup {"JN_NAK"} THEN "store"
                              ELSE "recv"
  /\ UNCHANGED <<main, buf, typed, packet, idx, online, sessions, invitation>>
  /\ UNCHANGED <<server, net, bounds>>

\* JN_ACK and NS_ACK: the new session goes where session_count points.
Joined(id) ==
  /\ insession' = id
  /\ session_count' = session_count + 1
  /\ IF session_count \in Slots
       THEN insessions' = [insessions EXCEPT ![session_count] = id] /\ UNCHANGED status
       ELSE status' = "undefined" /\ UNCHANGED insessions

\* The reply is printed and takes effect; a cancelled thread ends at the prompt
\* it prints next.
Store ==
  /\ status = "running" /\ receive = "store"
  /\ IF rcvd.type \in Grants
       THEN Joined(rcvd.id)
       ELSE insession' = INVALID_SESSION /\ UNCHANGED <<status, insessions, session_count>>
  /\ receive' = IF online THEN "recv" ELSE "none"
  /\ UNCHANGED <<main, buf, local, online, invitation, server, net, bounds>>

\* Mutant: invit is set without the mutex.
LockInvitUnguarded ==
  /\ status = "running" /\ receive = "lock"
  /\ invit' = TRUE
  /\ receive' = "print"
  /\ UNCHANGED <<status, main, buf, local, online, sessions, invit_session, invit_mutex>>
  /\ UNCHANGED <<server, net, bounds>>

\* INVIT, with the mutex held while the invitation is printed.
LockInvit ==
  /\ status = "running" /\ receive = "lock"
  /\ invit_mutex = "free"
  /\ invit_mutex' = "receive"
  /\ invit' = TRUE
  /\ receive' = "print"
  /\ UNCHANGED <<status, main, buf, local, online, sessions, invit_session, server, net, bounds>>

UnlockInvit ==
  /\ status = "running" /\ receive = "print" /\ online
  /\ invit_session' = rcvd.id
  /\ invit_mutex' = "free"
  /\ receive' = "recv"
  /\ UNCHANGED <<status, main, buf, local, online, sessions, invit, server, net, bounds>>

\* Cancelled at the output, with the mutex held.
EndLocked ==
  /\ status = "running" /\ receive = "print" /\ ~online
  /\ receive' = "none"
  /\ UNCHANGED <<status, main, buf, local, online, sessions, invitation, server, net, bounds>>

Receive == Recv \/ Parse \/ Store \/ LockInvit \/ UnlockInvit \/ EndLocked

-----------------------------------------------------------------------------
(***************************************************************************)
(* The server's side of the connection (server.c), and other users.        *)
(***************************************************************************)
\* A reply to a client that is gone is lost.
Reply(p) == toClient' = IF online THEN Append(toClient, p) ELSE toClient

ServeJoin(id) ==
  IF id \in Existing \ member
    THEN /\ Reply(Msg("JN_ACK", id))
         /\ sessJoined' = <<id>> \o sessJoined
         /\ member' = member \cup {id}
         /\ UNCHANGED sessionCnt
    ELSE Reply(Msg("JN_NAK", id)) /\ UNCHANGED server

ServeNew ==
  /\ Reply(Msg("NS_ACK", sessionCnt))
  /\ sessJoined' = <<sessionCnt>> \o sessJoined
  /\ member' = member \cup {sessionCnt}
  /\ sessionCnt' = sessionCnt + 1

\* The loop leaves the session named and drops all others from the list.
ServeLeave(id) ==
  /\ sessJoined' = <<>>
  /\ member' = IF Contains(sessJoined, id) THEN member \ {id} ELSE member
  /\ UNCHANGED <<sessionCnt, toClient>>

ServeExit ==
  /\ sessJoined' = <<>>
  /\ member' = member \ Range(sessJoined)
  /\ UNCHANGED <<sessionCnt, toClient>>

Serve ==
  /\ toServer # <<>>
  /\ toServer' = Tail(toServer)
  /\ LET p == Head(toServer) IN
       CASE p.type = "JOIN" -> ServeJoin(p.id)
         [] p.type = "NEW_SESS" -> ServeNew
         [] p.type = "LEAVE_SESS" -> ServeLeave(p.id)
         [] p.type = "EXIT" -> ServeExit
         [] p.type = "QUERY" -> Reply(Msg("QU_ACK", 0)) /\ UNCHANGED server
         [] OTHER -> UNCHANGED <<toClient, server>>
  /\ UNCHANGED <<status, main, receive, buf, local, online, sessions, invitation, bounds>>

OtherUser(p) ==
  /\ online
  /\ others < MaxOthers
  /\ p.type = "MESSAGE" => member # {}
  /\ others' = others + 1
  /\ Reply(p)
  /\ UNCHANGED <<status, main, receive, buf, local, online, sessions, invitation, server>>
  /\ UNCHANGED <<toServer, lines>>

FromOthers == {Msg("MESSAGE", 0)} \cup {Msg("INVIT", id) : id \in Existing}

Next ==
  \/ Main
  \/ Receive
  \/ Serve
  \/ \E p \in FromOthers : OtherUser(p)

Spec == Init /\ [][Next]_vars

-----------------------------------------------------------------------------
(***************************************************************************)
(* Properties.                                                             *)
(***************************************************************************)
Types == {"", "EXIT", "JOIN", "JN_ACK", "JN_NAK", "LEAVE_SESS", "NEW_SESS", "NS_ACK",
          "MESSAGE", "QUERY", "QU_ACK", "INVIT"}

Packets == [type : Types, id : Int]

TypeOK ==
  /\ status \in {"running", "ended", "exited", "undefined"}
  /\ main \in {"prompt", "dispatch", "answer", "send"}
  /\ receive \in {"none", "recv", "parse", "store", "lock", "print"}
  /\ buf \in Lines \cup Packets /\ (main = "send" => buf \in Packets)
  /\ typed \in Lines \cup {Nothing} /\ packet \in Packets /\ rcvd \in Packets
  /\ online \in BOOLEAN /\ invit \in BOOLEAN /\ invit_session \in Int
  /\ insessions \in [Slots -> Int] /\ insession \in Int /\ session_count \in Int
  /\ invit_mutex \in {"free", "main", "receive"}
  /\ toServer \in Seq(Packets) /\ toClient \in Seq(Packets)
  /\ member \subseteq Nat /\ sessJoined \in Seq(Nat) /\ sessionCnt \in Nat \ {0}

\* The session that text goes to is one of those the client is in, however
\* joins, leaves, switches, refusals and the packets of others follow each
\* other in the two threads (client.c:61-71, 293-297).
EngagedIsListed ==
  status = "running" => insession = INVALID_SESSION \/ insession \in Listed

\* The client is in no session the server would not count it in: what it
\* lists was acknowledged and not left since, and a logout forgets it all.
ListedIsMember == Listed \subseteq member

\* session_count is the number of sessions the client is in (client.c:22),
\* the place of the next one and what MAX_SESSION is compared with.
CountIsNumber == status = "running" /\ Rest => session_count = Cardinality(Listed)

\* No acknowledgement is stored behind the end of insessions: joinsession()
\* and createsession() refuse at MAX_SESSION (client.c:235, 308), and the
\* count is right when they look at it.
StaysBelowLimit == session_count <= MAX_SESSION

\* "y" joins the session of an invitation that has arrived: main() tests invit
\* without the mutex (client.c:437), and between that and the announcement in
\* the other thread there is only the mutex (client.c:82-88).
AnswersAnInvitation ==
  main = "send" /\ packet.type = "JOIN" /\ typed.cmd = "y" => packet.id # 0

\* The packet that main() passes to send() is the one it built.
SendsWhatItBuilt == main = "send" => buf = packet

\* What goes out as conversation is what the user typed as such
\* (client.c:472, "restore the buffer to send the original text").
SendsTheTextTyped ==
  main = "send" /\ packet.type = "MESSAGE" => typed.cmd \in {"text", "y"}

\* The mutex is held by a thread that will release it.
MutexIsReleased ==
  /\ invit_mutex = "main" => main = "send"
  /\ invit_mutex = "receive" => receive = "print"
=============================================================================
