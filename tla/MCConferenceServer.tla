------------------------- MODULE MCConferenceServer -------------------------
(* Workloads for checking ConferenceServer. *)
EXTENDS ConferenceServer

CONSTANTS t1, t2, t3, ann, bob, cid

People == {ann, bob, cid}

\* Everyone under a name of their own, or the first two under the same.
OwnNames == [t \in Threads |-> CASE t = t1 -> ann [] t = t2 -> bob [] t = t3 -> cid]
OneNameTwice == [t \in Threads |-> IF t = t3 THEN bob ELSE ann]

\* t1 creates a session, the others join and leave it.
Guests == [t \in Threads |->
             IF t = t1 THEN {"NEW_SESS", "LEAVE_SESS", "MESSAGE", "EXIT"}
                       ELSE {"JOIN", "LEAVE_SESS", "EXIT"}]

Everything == {"NEW_SESS", "JOIN", "LEAVE_SESS", "MESSAGE", "INVIT", "EXIT", "RESET"}
NobodyRefused == [t \in Threads |-> Everything]

\* Nobody has a password for cid, who is turned away unless cid hangs up first.
Passwords == People \ {cid}
WithAStranger ==
  [t \in Threads |-> CASE t = t1 -> Everything
                       [] t = t2 -> (Everything \ {"LEAVE_SESS"}) \cup {"LEAVE_LAST"}
                       [] t = t3 -> {"HANGUP"}]

\* The guests are interchangeable, names and all.
SwapGuests == {t2 :> t3 @@ t3 :> t2 @@ bob :> cid @@ cid :> bob @@ t1 :> t1 @@ ann :> ann}
=============================================================================
