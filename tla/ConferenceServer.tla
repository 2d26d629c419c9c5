-------------------------- MODULE ConferenceServer --------------------------
(***************************************************************************)
(* The text conferencing server, TextConferencingLab/LAB2/server.c with    *)
(* the lists of user.h: main() accepts connections, one thread per         *)
(* connection (new_client) serves the requests of one client, and all      *)
(* threads share userLoggedin, sessionList, sessionCnt and                 *)
(* userConnectedCnt.                                                       *)
(*                                                                         *)
(* A step is what happens between two points where another thread can get  *)
(* in: a section under a mutex, a read of shared data without one, a send. *)
(* A traversal of a list without its mutex is one step.  A client sends    *)
(* its next request after the answer to the previous one.                  *)
(***************************************************************************)
EXTENDS Naturals, Sequences, FiniteSets, SequencesExt

CONSTANTS
  Threads,      (* the connections of one behaviour, one thread each         *)
  NoThread,     (* the null pointer of a user list; nobody holds the mutex   *)
  Freed,        (* a node of a user list after free()                        *)
  Registered,   (* the names with a password in userlist.txt                 *)
  LoginAs,      (* the name each connection logs in with                     *)
  Commands,     (* the kinds of request each connection makes                *)
  MaxCreated,   (* NEW_SESS requests in one behaviour                        *)
  MAX_SESSION,  (* sessions one client holds at once (client.c:15)           *)
  Serial        (* TRUE: no request is made while another one is served      *)

ASSUME ServerAssumption ==
  /\ IsFiniteSet(Threads)
  /\ NoThread \notin Threads /\ Freed \notin Threads \cup {NoThread}
  /\ Commands \in [Threads -> SUBSET {"HANGUP", "RESET", "NEW_SESS", "JOIN", "LEAVE_SESS",
                                      "LEAVE_LAST", "MESSAGE", "INVIT", "EXIT"}]
  /\ DOMAIN LoginAs = Threads
  /\ MaxCreated \in Nat
  /\ MAX_SESSION \in Nat \ {0}
  /\ Serial \in BOOLEAN

VARIABLES
  status,            (* of the process: running, terminated by main(), aborted *)
                     (* by an assert, exited by exit(1), or undefined once a   *)
                     (* node that left the list is made its head               *)
  pc,                (* where each thread is                                   *)
  sockfd,            (* newUsr->sockfd of each thread                          *)
  arg,               (* the session the request in progress is about           *)
  sessJoined,        (* the private list of sessions of each thread            *)
  userLoggedin,      (* the threads whose nodes are in the list, head first    *)
  nodeSess,          (* the sessions recorded in each thread's node            *)
  head,              (* the node the thread is about to make the head of the   *)
                     (* list, or to put a new node before                      *)
  sessionList,       (* sessions with the threads that joined, heads first     *)
  sessionCnt,
  userConnectedCnt,
  mutex,             (* the thread inside userLoggedin_mutex, where it matters *)
  todo,              (* list entries the broadcast in progress has to visit    *)
  known              (* the sessions each client was told it is in             *)

shared == <<userLoggedin, nodeSess, sessionList, sessionCnt, userConnectedCnt, mutex>>
private == <<arg, sessJoined, head, todo>>
vars == <<status, pc, shared, sockfd, known, private>>

Ids == 1 .. MaxCreated + 1

\* A thread that is not serving a request.
Quiet == {"none", "connected", "recv", "done"}

\* A connection whose socket is open.
Closed == {"none", "leaving", "relink", "uncount", "done"}
IsOpen(t) == pc[t] \notin Closed
Free == (1 .. Cardinality(Threads)) \ {sockfd[t] : t \in {u \in Threads : IsOpen(u)}}

Goto(t, label) == pc' = [pc EXCEPT ![t] = label]

\* Back to recv(); what the request was about goes out of scope.
Return(t) == Goto(t, "recv") /\ arg' = [arg EXCEPT ![t] = 0]

-----------------------------------------------------------------------------
(***************************************************************************)
(* The lists of user.h.  A node of a user list is known by the thread it   *)
(* was made by, but found by its name.  free() overwrites the name, which  *)
(* comes first in the node, and leaves the link to the next one.           *)
(***************************************************************************)
SameName(t, u) == t # Freed /\ u # Freed /\ LoginAs[t] = LoginAs[u]

in_list(list, t) == \E i \in DOMAIN list : SameName(list[i], t)

remove_user(list, t) == RemoveFirstMatch(list, LAMBDA u : SameName(u, t))

isValidSession(list, id) == \E i \in DOMAIN list : list[i].id = id

\* The position of the first session with this id.
Find(list, id) == SelectInSeq(list, LAMBDA s : s.id = id)

inSession(list, id, t) ==
  isValidSession(list, id) /\ in_list(list[Find(list, id)].usr, t)

init_session(list, id) == <<[id |-> id, usr |-> <<>>]>> \o list

join_session(list, id, t) ==
  [list EXCEPT ![Find(list, id)].usr = <<t>> \o @]

\* The last user of a session takes the session along.
leave_session(list, id, t) ==
  LET i == Find(list, id)
      rest == remove_user(list[i].usr, t)
  IN IF rest = <<>> THEN RemoveAt(list, i) ELSE [list EXCEPT ![i].usr = rest]

FirstNode(list) == IF list = <<>> THEN NoThread ELSE Head(list)

\* The head of userLoggedin is assigned: nodes put before the old head since
\* it was read are lost, and if it was unlinked since, it comes back.
Relinked(t, front) ==
  LET i == SelectInSeq(userLoggedin, LAMBDA u : u = head[t]) IN
    /\ userLoggedin' = front \o (IF i = 0 THEN <<>>
                                 ELSE SubSeq(userLoggedin, i, Len(userLoggedin)))
    /\ status' = IF head[t] # NoThread /\ i = 0 THEN "undefined" ELSE status
    /\ head' = [head EXCEPT ![t] = NoThread]

Abort ==
  /\ status' = "aborted"
  /\ UNCHANGED <<pc, shared, sockfd, known, private>>

-----------------------------------------------------------------------------
Init ==
  /\ status = "running"
  /\ pc = [t \in Threads |-> "none"]
  /\ sockfd = [t \in Threads |-> 0]
  /\ arg = [t \in Threads |-> 0]
  /\ sessJoined = [t \in Threads |-> <<>>]
  /\ userLoggedin = <<>>
  /\ nodeSess = [t \in Threads |-> <<>>]
  /\ head = [t \in Threads |-> NoThread]
  /\ sessionList = <<>>
  /\ sessionCnt = 1
  /\ userConnectedCnt = 0
  /\ mutex = NoThread
  /\ todo = [t \in Threads |-> <<>>]
  /\ known = [t \in Threads |-> {}]

(***************************************************************************)
(* main(): accept a connection on the lowest free descriptor, or find      *)
(* nobody connected when accept() times out.                               *)
(***************************************************************************)
\* Mutant: the connection is not counted.
AcceptUncounted(t) ==
  /\ status = "running"
  /\ pc[t] = "none"
  /\ sockfd' = [sockfd EXCEPT ![t] =
                  CHOOSE n \in Free : \A k \in Free : n <= k]
  /\ Goto(t, "connected")
  /\ UNCHANGED <<status, shared, known, private>>

Accept(t) ==
  /\ status = "running"
  /\ pc[t] = "none"
  /\ sockfd' = [sockfd EXCEPT ![t] =
                  CHOOSE n \in Free : \A k \in Free : n <= k]
  /\ userConnectedCnt' = userConnectedCnt + 1
  /\ Goto(t, "connected")
  /\ UNCHANGED <<status, userLoggedin, nodeSess, sessionList, sessionCnt, mutex, known, private>>

AcceptTimeout ==
  /\ status = "running"
  /\ userConnectedCnt = 0
  /\ status' = "terminated"
  /\ UNCHANGED <<pc, shared, sockfd, known, private>>

(***************************************************************************)
(* new_client(): login.  The list is searched without the mutex and        *)
(* extended under it.                                                      *)
(***************************************************************************)
Begin(t, label) ==
  /\ status = "running"
  /\ pc[t] = label
  /\ Serial => \A u \in Threads \ {t} : pc[u] \in Quiet

Step(t, label) ==
  /\ status = "running"
  /\ pc[t] = label

Login(t) ==
  /\ Begin(t, "connected")
  /\ Goto(t, IF LoginAs[t] \in Registered /\ ~in_list(userLoggedin, t)
               THEN "loginAdd" ELSE "reject")
  /\ UNCHANGED <<status, shared, sockfd, known, private>>

\* Mutant: the mutex is not locked.
LoginAddUnlocked(t) ==
  /\ Step(t, "loginAdd")
  /\ head' = [head EXCEPT ![t] = FirstNode(userLoggedin)]
  /\ Goto(t, "loginLink")
  /\ UNCHANGED <<status, userLoggedin, nodeSess, sessionList, sessionCnt, userConnectedCnt>>
  /\ UNCHANGED <<mutex, sockfd, known, arg, sessJoined, todo>>

\* The head is read here, and written by LoginLink.
LoginAdd(t) ==
  /\ Step(t, "loginAdd")
  /\ mutex = NoThread
  /\ mutex' = t
  /\ head' = [head EXCEPT ![t] = FirstNode(userLoggedin)]
  /\ Goto(t, "loginLink")
  /\ UNCHANGED <<status, userLoggedin, nodeSess, sessionList, sessionCnt, userConnectedCnt>>
  /\ UNCHANGED <<sockfd, known, arg, sessJoined, todo>>

\* Mutant: the mutex is not released.
LoginLinkKeepsMutex(t) ==
  /\ Step(t, "loginLink")
  /\ Relinked(t, <<t>>)
  /\ Goto(t, "recv")
  /\ UNCHANGED <<nodeSess, sessionList, sessionCnt, userConnectedCnt, mutex>>
  /\ UNCHANGED <<sockfd, known, arg, sessJoined, todo>>

LoginLink(t) ==
  /\ Step(t, "loginLink")
  /\ Relinked(t, <<t>>)
  /\ mutex' = NoThread
  /\ Goto(t, "recv")
  /\ UNCHANGED <<nodeSess, sessionList, sessionCnt, userConnectedCnt>>
  /\ UNCHANGED <<sockfd, known, arg, sessJoined, todo>>

\* A refused client, or one that hangs up first: nothing but the socket is
\* cleaned up.
Reject(t) ==
  /\ Step(t, "reject")
  /\ Goto(t, "done")
  /\ UNCHANGED <<status, shared, sockfd, known, private>>

HangUp(t) ==
  /\ Begin(t, "connected")
  /\ "HANGUP" \in Commands[t]
  /\ Goto(t, "reject")
  /\ UNCHANGED <<status, shared, sockfd, known, private>>

\* recv() fails when the client's end resets the connection.
Reset(t) ==
  /\ status = "running"
  /\ pc[t] \in {"connected", "recv"}
  /\ "RESET" \in Commands[t]
  /\ status' = "exited"
  /\ UNCHANGED <<pc, shared, sockfd, known, private>>

(***************************************************************************)
(* JOIN: the checks read sessionList without the mutex; join_session()     *)
(* asserts under it that the session still exists.  A refusal changes      *)
(* nothing.                                                                *)
(***************************************************************************)
\* Lines 197-202 and 275-280: record a session in every node of this name.
Record(t, id) ==
  nodeSess' = [u \in Threads |->
                 IF Contains(userLoggedin, u) /\ SameName(u, t)
                   THEN <<id>> \o nodeSess[u] ELSE nodeSess[u]]

Join(t, id) ==
  /\ Begin(t, "recv")
  /\ "JOIN" \in Commands[t]
  /\ Cardinality(known[t]) < MAX_SESSION
  /\ isValidSession(sessionList, id)
  /\ ~inSession(sessionList, id, t)
  /\ arg' = [arg EXCEPT ![t] = id]
  /\ Goto(t, "join")
  /\ UNCHANGED <<status, shared, sockfd, known, sessJoined, head, todo>>

JoinSession(t) ==
  /\ Step(t, "join")
  /\ IF isValidSession(sessionList, arg[t])
       THEN /\ sessionList' = join_session(sessionList, arg[t], t)
            /\ Goto(t, "joinRecord")
            /\ UNCHANGED <<status, userLoggedin, nodeSess, sessionCnt, userConnectedCnt, mutex>>
            /\ UNCHANGED <<sockfd, known, private>>
       ELSE Abort

\* Mutant: the node in userLoggedin is not told.
JoinRecordPrivate(t) ==
  /\ Step(t, "joinRecord")
  /\ mutex = NoThread
  /\ sessJoined' = [sessJoined EXCEPT ![t] = <<arg[t]>> \o @]
  /\ known' = [known EXCEPT ![t] = @ \cup {arg[t]}]
  /\ Return(t)
  /\ UNCHANGED <<status, shared, sockfd, head, todo>>

JoinRecord(t) ==
  /\ Step(t, "joinRecord")
  /\ mutex = NoThread
  /\ sessJoined' = [sessJoined EXCEPT ![t] = <<arg[t]>> \o @]
  /\ Record(t, arg[t])
  /\ known' = [known EXCEPT ![t] = @ \cup {arg[t]}]
  /\ Return(t)
  /\ UNCHANGED <<status, userLoggedin, sessionList, sessionCnt, userConnectedCnt, mutex>>
  /\ UNCHANGED <<sockfd, head, todo>>

(***************************************************************************)
(* LEAVE_SESS: the loop walks the private list by moving its head, so the  *)
(* sessions it skips are gone from it as well.  There is no reply: the     *)
(* client strikes the session off when it sends the request.  LEAVE_LAST   *)
(* is the workload of a client that leaves its only session.               *)
(***************************************************************************)
Leave(t, id) ==
  /\ Begin(t, "recv")
  /\ \/ "LEAVE_SESS" \in Commands[t]
     \/ "LEAVE_LAST" \in Commands[t] /\ known[t] = {id}
  /\ id \in known[t]
  /\ known' = [known EXCEPT ![t] = @ \ {id}]
  /\ arg' = [arg EXCEPT ![t] = id]
  /\ Goto(t, "leave")
  /\ UNCHANGED <<status, shared, sockfd, sessJoined, head, todo>>

LeaveSession(t) ==
  /\ Step(t, "leave")
  /\ LET i == SelectInSeq(sessJoined[t], LAMBDA id : id = arg[t]) IN
       \/ /\ i = 0
          /\ sessJoined' = [sessJoined EXCEPT ![t] = <<>>]
          /\ Goto(t, "leaveRecord")
          /\ UNCHANGED <<status, shared, sockfd, known, arg, head, todo>>
       \/ /\ i # 0
          /\ inSession(sessionList, arg[t], t)
          /\ sessJoined' = [sessJoined EXCEPT ![t] = SubSeq(@, i + 1, Len(@))]
          /\ sessionList' = leave_session(sessionList, arg[t], t)
          /\ UNCHANGED <<status, pc, userLoggedin, nodeSess, sessionCnt, userConnectedCnt, mutex>>
          /\ UNCHANGED <<sockfd, known, arg, head, todo>>
       \/ /\ i # 0
          /\ ~inSession(sessionList, arg[t], t)
          /\ Abort

\* The first node of this name; remove_session() asserts a list that is not
\* empty.  When it becomes empty the mutex is unlocked twice, once here and
\* once in LeaveUnlock, which may take it from another thread.
LeaveRecord(t) ==
  /\ Step(t, "leaveRecord")
  /\ mutex = NoThread
  /\ LET i == SelectInSeq(userLoggedin, LAMBDA u : SameName(u, t))
         u == userLoggedin[i]
     IN \/ /\ i = 0
           /\ Return(t)
           /\ UNCHANGED <<status, nodeSess>>
        \/ /\ i # 0
           /\ nodeSess[u] # <<>>
           /\ nodeSess' = [nodeSess EXCEPT ![u] = RemoveFirst(@, arg[t])]
           /\ IF nodeSess'[u] = <<>> THEN Goto(t, "leaveUnlock") /\ UNCHANGED arg
                                     ELSE Return(t)
           /\ UNCHANGED status
        \/ /\ i # 0
           /\ nodeSess[u] = <<>>
           /\ status' = "aborted"
           /\ UNCHANGED <<pc, arg, nodeSess>>
  /\ UNCHANGED <<userLoggedin, sessionList, sessionCnt, userConnectedCnt, mutex>>
  /\ UNCHANGED <<sockfd, known, sessJoined, head, todo>>

LeaveUnlock(t) ==
  /\ Step(t, "leaveUnlock")
  /\ mutex' = NoThread
  /\ Return(t)
  /\ UNCHANGED <<status, userLoggedin, nodeSess, sessionList, sessionCnt, userConnectedCnt>>
  /\ UNCHANGED <<sockfd, known, sessJoined, head, todo>>

(***************************************************************************)
(* NEW_SESS: sessionCnt is read five times without its mutex and           *)
(* incremented at the end.                                                 *)
(***************************************************************************)
Creating == {t \in Threads : pc[t] \in {"new2", "new3", "new4", "new5", "new6"}}

\* init_session(sessionList, sessionCnt), under the mutex of the list.
NewSession(t) ==
  /\ Begin(t, "recv")
  /\ "NEW_SESS" \in Commands[t]
  /\ Cardinality(known[t]) < MAX_SESSION
  /\ sessionCnt + Cardinality(Creating) <= MaxCreated
  /\ sessionList' = init_session(sessionList, sessionCnt)
  /\ Goto(t, "new2")
  /\ UNCHANGED <<status, userLoggedin, nodeSess, sessionCnt, userConnectedCnt, mutex>>
  /\ UNCHANGED <<sockfd, known, private>>

NewPrivate(t) ==
  /\ Step(t, "new2")
  /\ sessJoined' = [sessJoined EXCEPT ![t] = <<sessionCnt>> \o @]
  /\ Goto(t, "new3")
  /\ UNCHANGED <<status, shared, sockfd, known, arg, head, todo>>

NewJoin(t) ==
  /\ Step(t, "new3")
  /\ IF isValidSession(sessionList, sessionCnt)
       THEN /\ sessionList' = join_session(sessionList, sessionCnt, t)
            /\ Goto(t, "new4")
            /\ UNCHANGED <<status, userLoggedin, nodeSess, sessionCnt, userConnectedCnt, mutex>>
            /\ UNCHANGED <<sockfd, known, private>>
       ELSE Abort

NewRecord(t) ==
  /\ Step(t, "new4")
  /\ mutex = NoThread
  /\ Record(t, sessionCnt)
  /\ Goto(t, "new5")
  /\ UNCHANGED <<status, userLoggedin, sessionList, sessionCnt, userConnectedCnt, mutex>>
  /\ UNCHANGED <<sockfd, known, private>>

\* The number the answer will carry.
NewAnswer(t) ==
  /\ Step(t, "new5")
  /\ arg' = [arg EXCEPT ![t] = sessionCnt]
  /\ Goto(t, "new6")
  /\ UNCHANGED <<status, shared, sockfd, known, sessJoined, head, todo>>

NewCount(t) ==
  /\ Step(t, "new6")
  /\ sessionCnt' = sessionCnt + 1
  /\ known' = [known EXCEPT ![t] = @ \cup {arg[t]}]
  /\ Return(t)
  /\ UNCHANGED <<status, userLoggedin, nodeSess, sessionList, userConnectedCnt, mutex>>
  /\ UNCHANGED <<sockfd, sessJoined, head, todo>>

(***************************************************************************)
(* MESSAGE and INVIT: sends to the sockets of others, found in lists read  *)
(* without a mutex.                                                        *)
(***************************************************************************)
Message(t, id) ==
  /\ Begin(t, "recv")
  /\ "MESSAGE" \in Commands[t]
  /\ id \in known[t]
  /\ Contains(sessJoined[t], id)
  /\ isValidSession(sessionList, id)
  /\ LET users == sessionList[Find(sessionList, id)].usr
     IN /\ \E i \in DOMAIN users : ~SameName(users[i], t)
        /\ todo' = [todo EXCEPT ![t] = users]
  /\ arg' = [arg EXCEPT ![t] = id]
  /\ Goto(t, "send")
  /\ UNCHANGED <<status, shared, sockfd, known, sessJoined, head>>

\* The walk goes over nodes of the sender's own name.  The node visited next
\* may have been freed meanwhile; the walk then goes over it or past it.  A
\* closed descriptor ends the process; an open one reaches whoever holds it now.
Gone(t, u) ==
  \A i \in DOMAIN sessionList :
    sessionList[i].id = arg[t] => ~Contains(sessionList[i].usr, u)

Holders(u) == {v \in Threads : IsOpen(v) /\ sockfd[v] = sockfd[u]}

NextOther(t) == SelectInSeq(todo[t], LAMBDA u : ~SameName(u, t))
Addressee(t) == todo[t][NextOther(t)]

SendNext(t) ==
  /\ Step(t, "send")
  /\ LET u == Addressee(t)
         rest == SubSeq(todo[t], NextOther(t) + 1, Len(todo[t]))
         more == \E i \in DOMAIN rest : ~SameName(rest[i], t)
     IN \/ /\ Holders(u) # {} \/ Gone(t, u)
           /\ todo' = [todo EXCEPT ![t] = IF more THEN rest ELSE <<>>]
           /\ IF more THEN UNCHANGED <<pc, arg>> ELSE Return(t)
           /\ UNCHANGED status
        \/ /\ Holders(u) = {}
           /\ status' = "exited"
           /\ UNCHANGED <<pc, arg, todo>>
  /\ UNCHANGED <<shared, sockfd, known, sessJoined, head>>

\* Forward an invitation to the first node of that name.  A delivery changes
\* nothing here; a node whose socket is closed ends the process.
Invite(t, u) ==
  /\ Begin(t, "recv")
  /\ "INVIT" \in Commands[t]
  /\ known[t] # {}
  /\ in_list(userLoggedin, u)
  /\ LET v == userLoggedin[SelectInSeq(userLoggedin, LAMBDA w : SameName(w, u))]
     IN Holders(v) = {}
  /\ status' = "exited"
  /\ UNCHANGED <<pc, shared, sockfd, known, private>>

(***************************************************************************)
(* EXIT, or the end of the connection: close the socket, leave what the    *)
(* private list says, take the node out of userLoggedin without the mutex, *)
(* and be counted off.                                                     *)
(***************************************************************************)
Exit(t) ==
  /\ Begin(t, "recv")
  /\ "EXIT" \in Commands[t]
  /\ known' = [known EXCEPT ![t] = {}]
  /\ Goto(t, "leaving")
  /\ UNCHANGED <<status, shared, sockfd, private>>

LeaveNext(t) ==
  /\ Step(t, "leaving")
  /\ sessJoined[t] # <<>>
  /\ LET id == Head(sessJoined[t]) IN
       IF inSession(sessionList, id, t)
         THEN /\ sessionList' = leave_session(sessionList, id, t)
              /\ sessJoined' = [sessJoined EXCEPT ![t] = Tail(@)]
              /\ UNCHANGED <<status, pc, userLoggedin, nodeSess, sessionCnt, userConnectedCnt, mutex>>
              /\ UNCHANGED <<sockfd, known, arg, head, todo>>
         ELSE Abort

\* remove_user() frees the first node of the name and returns the head it
\* then knows of: the next node if the head was freed, which userLoggedin
\* still points to, and the head it read otherwise.
Unlinked(t) ==
  LET list == userLoggedin
      next == remove_user(list, t)
  IN IF list # <<>> /\ SameName(Head(list), t)
       THEN /\ userLoggedin' = <<Freed>> \o next
            /\ head' = [head EXCEPT ![t] = FirstNode(next)]
       ELSE /\ userLoggedin' = next
            /\ head' = [head EXCEPT ![t] = FirstNode(list)]

\* Mutant: the sessions are not left first.
UnlinkAtOnce(t) ==
  /\ Step(t, "leaving")
  /\ Unlinked(t)
  /\ Goto(t, "relink")
  /\ UNCHANGED <<status, nodeSess, sessionList, sessionCnt, userConnectedCnt, mutex>>
  /\ UNCHANGED <<sockfd, known, arg, sessJoined, todo>>

Unlink(t) ==
  /\ Step(t, "leaving")
  /\ sessJoined[t] = <<>>
  /\ Unlinked(t)
  /\ Goto(t, "relink")
  /\ UNCHANGED <<status, nodeSess, sessionList, sessionCnt, userConnectedCnt, mutex>>
  /\ UNCHANGED <<sockfd, known, arg, sessJoined, todo>>

\* The assignment of what remove_user() returned.
Relink(t) ==
  /\ Step(t, "relink")
  /\ Relinked(t, <<>>)
  /\ Goto(t, "uncount")
  /\ UNCHANGED <<nodeSess, sessionList, sessionCnt, userConnectedCnt, mutex>>
  /\ UNCHANGED <<sockfd, known, arg, sessJoined, todo>>

\* Mutant: nobody is counted off.
UncountForgotten(t) ==
  /\ Step(t, "uncount")
  /\ Goto(t, "done")
  /\ UNCHANGED <<status, shared, sockfd, known, private>>

Uncount(t) ==
  /\ Step(t, "uncount")
  /\ userConnectedCnt' = userConnectedCnt - 1
  /\ Goto(t, "done")
  /\ UNCHANGED <<status, userLoggedin, nodeSess, sessionList, sessionCnt, mutex>>
  /\ UNCHANGED <<sockfd, known, private>>

-----------------------------------------------------------------------------
Request(t) ==
  \/ Login(t) \/ HangUp(t) \/ Reset(t) \/ NewSession(t) \/ Exit(t)
  \/ \E id \in Ids : Join(t, id) \/ Leave(t, id) \/ Message(t, id)
  \/ \E u \in Threads : Invite(t, u)

Serve(t) ==
  \/ LoginAdd(t) \/ LoginLink(t) \/ Reject(t)
  \/ JoinSession(t) \/ JoinRecord(t)
  \/ LeaveSession(t) \/ LeaveRecord(t) \/ LeaveUnlock(t)
  \/ NewPrivate(t) \/ NewJoin(t) \/ NewRecord(t) \/ NewAnswer(t) \/ NewCount(t)
  \/ SendNext(t)
  \/ LeaveNext(t) \/ Unlink(t) \/ Relink(t) \/ Uncount(t)

Next ==
  \/ AcceptTimeout
  \/ \E t \in Threads : Accept(t) \/ Request(t) \/ Serve(t)

Spec == Init /\ [][Next]_vars

\* A thread with something left to do is scheduled and its sends return, and
\* accept() times out again and again.  Nothing is assumed of the clients.
FairSpec ==
  /\ Spec
  /\ WF_vars(AcceptTimeout)
  /\ \A t \in Threads : WF_vars(Serve(t))

-----------------------------------------------------------------------------
(***************************************************************************)
(* Properties.                                                             *)
(***************************************************************************)
TypeOK ==
  /\ status \in {"running", "terminated", "aborted", "exited", "undefined"}
  /\ pc \in [Threads -> Quiet \cup {"loginAdd", "loginLink", "reject", "join", "joinRecord",
                                    "leave", "leaveRecord", "leaveUnlock", "new2", "new3", "new4",
                                    "new5", "new6", "send", "leaving", "relink", "uncount"}]
  /\ sockfd \in [Threads -> 0 .. Cardinality(Threads)]
  /\ arg \in [Threads -> Ids \cup {0}]
  /\ sessJoined \in [Threads -> Seq(Ids)]
  /\ userLoggedin \in Seq(Threads \cup {Freed})
  /\ nodeSess \in [Threads -> Seq(Ids)]
  /\ head \in [Threads -> Threads \cup {NoThread, Freed}]
  /\ sessionList \in Seq([id : Ids, usr : Seq(Threads)])
  /\ sessionCnt \in Ids
  /\ userConnectedCnt \in 0 .. Cardinality(Threads)
  /\ mutex \in Threads \cup {NoThread}
  /\ todo \in [Threads -> Seq(Threads)]
  /\ known \in [Threads -> SUBSET Ids]

\* A thread that waits for the next request of a logged-in client.
Ready(t) == pc[t] = "recv"

\* Nobody is connected.
Idle == \A t \in Threads : pc[t] \in {"none", "done"}

\* t's client is in session id as far as the server's shared list goes.
Member(t, id) == \E i \in DOMAIN sessionList :
                   sessionList[i].id = id /\ Contains(sessionList[i].usr, t)

\* main() terminates the server only when nobody is being served
\* (server.c:573 reads userConnectedCnt without its mutex).
TerminatedMeansIdle ==
  status = "terminated" => Idle

\* Between requests, the four accounts of who is in which session agree: the
\* client's, the thread's private list, the shared list and the node in
\* userLoggedin.  Every message goes by the second and third, /list by the
\* fourth, and the clean-up at exit by the second.
ListsAgree ==
  \A t \in Threads : Ready(t) =>
    /\ known[t] = Range(sessJoined[t])
    /\ \A id \in Ids : Member(t, id) <=> id \in known[t]
    /\ Contains(userLoggedin, t) => Range(nodeSess[t]) = known[t]

\* The server implements the abstract conference.  A connection is online from
\* its node's entry into userLoggedin to remove_user(), the members of a
\* session are the connections in its list of users, and a number is used up
\* when init_session() takes it.  So a broadcast finds only people who are
\* online, a departure takes out one user of one session at a time and all of
\* its own (server.c:425), a session is gone with its last member (user.h:235),
\* and none comes back under an old number.
Online(t) == pc[t] \notin {"none", "connected", "loginAdd", "loginLink", "reject",
                          "relink", "uncount", "done"}

State(id) ==
  CASE isValidSession(sessionList, id) -> "open"
    [] ~isValidSession(sessionList, id) /\ (id < sessionCnt \/ (id = sessionCnt /\ Creating # {})) -> "closed"
    [] OTHER -> "unused"

Promise == INSTANCE Conference
             WITH Clients <- Threads, Numbers <- Ids,
                  online <- {t \in Threads : Online(t)},
                  session <- [id \in Ids |-> State(id)],
                  members <- [id \in Ids |-> {t \in Threads : Member(t, id)}]

Implements == Promise!Spec

\* No assertion of user.h fails.
NoAssertFails == status # "aborted"

\* Leaving never fails an assertion of user.h, whoever else joins, leaves or
\* departs meanwhile: a thread about to leave a session is a member of it
\* (user.h:228, 231), and one about to strike a session off its node finds one
\* there (user.h:198).  What can fail is joining (conference_join_race).
LeavingNeverAsserts ==
  \A t \in Threads :
    /\ pc[t] = "leave" /\ Contains(sessJoined[t], arg[t]) =>
         inSession(sessionList, arg[t], t)
    /\ pc[t] = "leaving" /\ sessJoined[t] # <<>> =>
         inSession(sessionList, Head(sessJoined[t]), t)
    /\ pc[t] = "leaveRecord" =>
         \A u \in ToSet(userLoggedin) : SameName(u, t) => nodeSess[u] # <<>>

\* Every request is served to its end, whatever the other threads do, although
\* userLoggedin_mutex may be unlocked by a thread that does not hold it.
RequestsEnd ==
  \A t \in Threads : (pc[t] \notin Quiet) ~> (pc[t] \in Quiet \/ status # "running")

\* The server goes down by itself while nobody is connected (server.c:531), as
\* long as everybody who left had logged in: whoever is rejected or hangs up
\* before stays in userConnectedCnt for ever (server.c:446).
LeftUncounted(t) ==
  pc[t] = "done" /\ (LoginAs[t] \notin Registered \/ "HANGUP" \in Commands[t])

IdleServerExits ==
  (Idle /\ ~\E t \in Threads : LeftUncounted(t)) ~> (~Idle \/ status # "running")

(***************************************************************************)
(* What a user would expect as well, and threads at once break.            *)
(***************************************************************************)

\* Nobody is logged in twice (server.c:103, "Multiple log-in").
LoggedInOnce ==
  \A t, u \in Threads : Ready(t) /\ Ready(u) /\ SameName(t, u) => t = u

\* The shared list has a node for everyone who is logged in.
ListedWhenLoggedIn == \A t \in Threads : Ready(t) => Contains(userLoggedin, t)

\* One client's departure does not end the server for the others.
NoExit == status # "exited"

\* A broadcast reaches nobody who has not logged in: the socket it is about to
\* write to does not belong to a newcomer on the same descriptor.
NothingBeforeLogin ==
  \A t \in Threads : pc[t] = "send" =>
    \A v \in Holders(Addressee(t)) : pc[v] \notin {"connected", "loginAdd", "loginLink", "reject"}
=============================================================================
