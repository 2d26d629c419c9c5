--------------------------- MODULE ConferenceLab1 ---------------------------
(***************************************************************************)
(* The first version of the text conferencing server,                      *)
(* TextConferencingLab/LAB1/server.c.  Accepting, logging in, joining,     *)
(* creating and exiting are those of the second version, line by line, and *)
(* so are the lists (user.h), the mutexes and the threads.  LEAVE_SESS     *)
(* leaves every session, MESSAGE goes to every session of the sender and   *)
(* to the sender itself, and nobody can be invited.                        *)
(***************************************************************************)
EXTENDS ConferenceServer

(***************************************************************************)
(* LEAVE_SESS: all sessions of the private list, one at a time, then those *)
(* of the first node of this name at once, with one unlock.                *)
(***************************************************************************)
LeaveAll(t) ==
  /\ Begin(t, "recv")
  /\ "LEAVE_SESS" \in Commands[t]
  /\ known[t] # {}
  /\ known' = [known EXCEPT ![t] = {}]
  /\ Goto(t, "leave")
  /\ UNCHANGED <<status, shared, sockfd, private>>

\* Mutants: the sessions are struck off the private list only; the first is
\* left, and the private list stays as it is.
LeaveAllPrivate(t) ==
  /\ Step(t, "leave")
  /\ sessJoined' = [sessJoined EXCEPT ![t] = <<>>]
  /\ Goto(t, "leaveRecord")
  /\ UNCHANGED <<status, shared, sockfd, known, arg, head, todo>>

LeaveAllKeepsList(t) ==
  /\ Step(t, "leave")
  /\ sessJoined[t] # <<>>
  /\ sessionList' = leave_session(sessionList, Head(sessJoined[t]), t)
  /\ Goto(t, "leaveRecord")
  /\ UNCHANGED <<status, userLoggedin, nodeSess, sessionCnt, userConnectedCnt, mutex>>
  /\ UNCHANGED <<sockfd, known, private>>

LeaveAllSession(t) ==
  /\ Step(t, "leave")
  /\ LET id == FirstNode(sessJoined[t]) IN
       \/ /\ sessJoined[t] = <<>>
          /\ Goto(t, "leaveRecord")
          /\ UNCHANGED <<status, sessionList, sessJoined>>
       \/ /\ sessJoined[t] # <<>>
          /\ inSession(sessionList, id, t)
          /\ sessJoined' = [sessJoined EXCEPT ![t] = Tail(@)]
          /\ sessionList' = leave_session(sessionList, id, t)
          /\ UNCHANGED <<status, pc>>
       \/ /\ sessJoined[t] # <<>>
          /\ ~inSession(sessionList, id, t)
          /\ status' = "aborted"
          /\ UNCHANGED <<pc, sessionList, sessJoined>>
  /\ UNCHANGED <<userLoggedin, nodeSess, sessionCnt, userConnectedCnt, mutex>>
  /\ UNCHANGED <<sockfd, known, arg, head, todo>>

LeaveAllRecord(t) ==
  /\ Step(t, "leaveRecord")
  /\ mutex = NoThread
  /\ LET i == SelectInSeq(userLoggedin, LAMBDA u : SameName(u, t)) IN
       nodeSess' = IF i = 0 THEN nodeSess ELSE [nodeSess EXCEPT ![userLoggedin[i]] = <<>>]
  /\ Return(t)
  /\ UNCHANGED <<status, userLoggedin, sessionList, sessionCnt, userConnectedCnt, mutex>>
  /\ UNCHANGED <<sockfd, known, sessJoined, head, todo>>

(***************************************************************************)
(* MESSAGE: the private list is walked, and in each session of it the list *)
(* of users, which nobody locks.                                           *)
(***************************************************************************)
UsersOf(id) ==
  IF isValidSession(sessionList, id) THEN sessionList[Find(sessionList, id)].usr ELSE <<>>

Visit(t, id) ==
  /\ arg' = [arg EXCEPT ![t] = id]
  /\ todo' = [todo EXCEPT ![t] = UsersOf(id)]

MessageAll(t) ==
  /\ Begin(t, "recv")
  /\ "MESSAGE" \in Commands[t]
  /\ sessJoined[t] # <<>>
  /\ Visit(t, Head(sessJoined[t]))
  /\ Goto(t, "send")
  /\ UNCHANGED <<status, shared, sockfd, known, sessJoined, head>>

SendNextOfAll(t) ==
  /\ Step(t, "send")
  /\ LET i == SelectLastInSeq(sessJoined[t], LAMBDA id : id = arg[t]) IN
       \/ /\ todo[t] # <<>>
          /\ Holders(Head(todo[t])) # {} \/ Gone(t, Head(todo[t]))
          /\ todo' = [todo EXCEPT ![t] = Tail(@)]
          /\ UNCHANGED <<status, pc, arg>>
       \/ /\ todo[t] # <<>>
          /\ Holders(Head(todo[t])) = {}
          /\ status' = "exited"
          /\ UNCHANGED <<pc, arg, todo>>
       \/ /\ todo[t] = <<>>
          /\ i < Len(sessJoined[t])
          /\ Visit(t, sessJoined[t][i + 1])
          /\ UNCHANGED <<status, pc>>
       \/ /\ todo[t] = <<>>
          /\ i = Len(sessJoined[t])
          /\ Return(t)
          /\ UNCHANGED <<status, todo>>
  /\ UNCHANGED <<shared, sockfd, known, sessJoined, head>>

-----------------------------------------------------------------------------
(***************************************************************************)
(* The branches of new_client(), each with the steps that serve it.        *)
(***************************************************************************)
LoginBranch(t) ==
  HangUp(t) \/ Reset(t) \/ Login(t) \/ LoginAdd(t) \/ LoginLink(t) \/ Reject(t)

JoinBranch(t) == (\E id \in Ids : Join(t, id)) \/ JoinSession(t) \/ JoinRecord(t)

LeaveBranch(t) == LeaveAll(t) \/ LeaveAllSession(t) \/ LeaveAllRecord(t)

NewBranch(t) ==
  NewSession(t) \/ NewPrivate(t) \/ NewJoin(t) \/ NewRecord(t) \/ NewAnswer(t) \/ NewCount(t)

MessageBranch(t) == MessageAll(t) \/ SendNextOfAll(t)

ExitBranch(t) == Exit(t) \/ LeaveNext(t) \/ Unlink(t) \/ Relink(t) \/ Uncount(t)

Lab1Next ==
  \/ AcceptTimeout
  \/ \E t \in Threads :
       \/ Accept(t)
       \/ LoginBranch(t) \/ JoinBranch(t) \/ LeaveBranch(t)
       \/ NewBranch(t) \/ MessageBranch(t) \/ ExitBranch(t)

Lab1Spec == Init /\ [][Lab1Next]_vars

-----------------------------------------------------------------------------
(***************************************************************************)
(* Properties, besides ListsAgree and Implements.                          *)
(***************************************************************************)

\* Logins at once lose nobody: as long as no thread has begun to take a node off
\* userLoggedin, everyone online is in it, although each login writes a head it
\* computed from an earlier one (LAB1/server.c:119).  The second unlock of
\* LEAVE_SESS that LAB2 added (LAB2/server.c:246) breaks it there.
LoginsLoseNobody ==
  (\A t \in Threads : pc[t] \notin {"relink", "uncount", "done"}) =>
    \A t \in Threads : Online(t) => Contains(userLoggedin, t)

\* A broadcast goes to every session of its sender: none of them disappears
\* under the walk, and the sender finds itself in each (LAB1/server.c:303,
\* where a session that does not exist would be skipped).
BroadcastFindsSender ==
  \A t \in Threads : pc[t] = "send" =>
    \A id \in ToSet(sessJoined[t]) : Member(t, id)
=============================================================================
