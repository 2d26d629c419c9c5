---------------------- MODULE ConferenceAccountsProofs ----------------------
(***************************************************************************)
(* Proofs about who is in which session, for any number of threads and     *)
(* sessions: the accounts of the two versions of the conference server     *)
(* agree between requests, both servers implement the abstract one, and    *)
(* leaving a session fails no assertion of user.h.                         *)
(***************************************************************************)
EXTENDS ConferenceProofs

\* Every connection has a name of its own.  Where two logins of one name
\* succeed at once, user lists cannot tell the two apart (user.h:51).
NamesDiffer == \A t, u \in Threads : LoginAs[t] = LoginAs[u] => t = u

\* Sessions are created through one connection at a time: sessionCnt is read
\* five times and incremented at the end without a mutex (server.c:264-286).
OneCreator == \A t, u \in Threads : "NEW_SESS" \in Commands[t] \cap Commands[u] => t = u

\* A client of the second version that leaves a session is in no other: the
\* loop that looks for the session drops those it passes (server.c:220).
LeavesOnly == \A t \in Threads : "LEAVE_SESS" \in Commands[t] => MAX_SESSION = 1

-----------------------------------------------------------------------------
(***************************************************************************)
(* The inductive invariant.  ListInv is about the lists all threads share. *)
(* AccountInv(t) is about one connection: where its thread is says how far *)
(* apart the four accounts of its sessions may be.                         *)
(***************************************************************************)
In(list, t, id) == \E i \in DOMAIN list : list[i].id = id /\ Contains(list[i].usr, t)

WellFormed(list) ==
  /\ list \in Seq(Sessions)
  /\ \A i, j \in DOMAIN list : list[i].id = list[j].id => i = j
  /\ \A i \in DOMAIN list : IsInjective(list[i].usr)

\* A new session has the number sessionCnt until the counter moves on.
ListInv ==
  /\ WellFormed(sessionList)
  /\ sessionCnt \in Ids
  /\ \A id \in Ids : isValidSession(sessionList, id) =>
       id < sessionCnt \/ (id = sessionCnt /\ Creating # {})
  /\ userLoggedin \in Seq(Nodes)
  /\ DOMAIN pc = Threads /\ DOMAIN arg = Threads /\ DOMAIN known = Threads
  /\ DOMAIN sessJoined = Threads /\ DOMAIN nodeSess = Threads

Settled == {"recv", "send", "join", "joinRecord", "new2"}
Counting == {"new3", "new4", "new5", "new6"}
CreatingLabels == Counting \cup {"new2"}
Parting == {"leave", "leaveRecord", "leaveUnlock", "leaving"}

\* The sessions whose list of users has t.
MemberOf(t) == {id \in Ids : In(sessionList, t, id)}

ClientInv(t) ==
  /\ known[t] \in SUBSET Ids
  /\ pc[t] \in Before \cup After \cup Parting => known[t] = {}
  /\ pc[t] \in CreatingLabels =>
       sessionCnt <= MaxCreated /\ sessionCnt \notin known[t] /\ "NEW_SESS" \in Commands[t]
  /\ pc[t] \in {"join", "joinRecord"} => arg[t] \in Ids \ known[t]
  /\ pc[t] = "new6" => arg[t] = sessionCnt

PrivateInv(t) ==
  /\ sessJoined[t] \in Seq(Ids) /\ IsInjective(sessJoined[t])
  /\ pc[t] \in Before \cup After \cup {"leaveRecord", "leaveUnlock"} => sessJoined[t] = <<>>
  /\ pc[t] \in Settled => Range(sessJoined[t]) = known[t]
  /\ pc[t] \in Counting => Range(sessJoined[t]) = known[t] \cup {sessionCnt}

MemberInv(t) ==
  /\ pc[t] = "joinRecord" => MemberOf(t) = known[t] \cup {arg[t]}
  /\ pc[t] = "new3" => MemberOf(t) = known[t]
  /\ pc[t] \notin {"joinRecord", "new3"} => MemberOf(t) = Range(sessJoined[t])

NodeInv(t) ==
  /\ nodeSess[t] \in Seq(Ids) /\ IsInjective(nodeSess[t])
  /\ pc[t] \in Before => nodeSess[t] = <<>>
  /\ Contains(userLoggedin, t) =>
       /\ pc[t] \in Settled \cup {"new3", "new4"} => Range(nodeSess[t]) = known[t]
       /\ pc[t] \in {"new5", "new6"} => Range(nodeSess[t]) = known[t] \cup {sessionCnt}

\* With room for one session only, one is asked for when there is none.
SingleInv(t) ==
  MAX_SESSION = 1 =>
    /\ \A id1, id2 \in known[t] : id1 = id2
    /\ pc[t] \in CreatingLabels \cup {"join", "joinRecord"} => known[t] = {}

AccountInv(t) == ClientInv(t) /\ PrivateInv(t) /\ MemberInv(t) /\ NodeInv(t) /\ SingleInv(t)

Inv == ListInv /\ \A t \in Threads : AccountInv(t)

(***************************************************************************)
(* What names and NEW_SESS must be like for it: either they differ and one *)
(* connection creates, or one request is served at a time.                 *)
(***************************************************************************)
Terms == (NamesDiffer /\ OneCreator) \/ Serial

Orderly == Serial => SerialInv

\* The users of the sessions of the list that have t's name are t.
KnownBy(list, t) == \A u, id : In(list, u, id) /\ SameName(u, t) => u = t

\* No list has another node with the name of somebody online.
NamesApart ==
  \A t \in Threads : Online(t) =>
    /\ \A u \in Range(userLoggedin) : SameName(u, t) => u = t
    /\ KnownBy(sessionList, t)

OneCreates == OneCreator \/ (Serial /\ OneActive)

LEMMA WellFormedIs ==
  ASSUME NEW list, WellFormed(list)
  PROVE  /\ list \in Seq(Sessions)
         /\ Len(list) \in Nat /\ DOMAIN list = 1 .. Len(list)
         /\ \A i \in 1 .. Len(list) :
              /\ list[i] \in Sessions
              /\ list[i].id \in Ids /\ list[i].usr \in Seq(Threads) /\ IsInjective(list[i].usr)
              /\ \A t : Contains(list[i].usr, t) <=> t \in Range(list[i].usr)
         /\ \A i, k \in 1 .. Len(list) : list[i].id = list[k].id => i = k
<1>1. list \in Seq(Sessions)
  BY DEF WellFormed
<1>2. Len(list) \in Nat /\ DOMAIN list = 1 .. Len(list)
  BY <1>1, LenProperties
<1>3. ASSUME NEW i \in 1 .. Len(list)
      PROVE  list[i] \in Sessions /\ list[i].usr \in Seq(Threads)
  <2>1. list[i] \in Sessions
    BY <1>1, ElementOfSeq
  <2> QED
    BY <2>1 DEF Sessions
<1>4. \A i \in 1 .. Len(list) : \A t : Contains(list[i].usr, t) <=> t \in Range(list[i].usr)
  BY <1>3, ContainsIsRange
<1> QED
  BY <1>1, <1>2, <1>3, <1>4 DEF WellFormed, Sessions

\* The place of a session, and who is in it.
LEMMA PlaceOf ==
  ASSUME NEW list, WellFormed(list), NEW id, isValidSession(list, id)
  PROVE  /\ Find(list, id) \in 1 .. Len(list) /\ list[Find(list, id)].id = id
         /\ \A i \in 1 .. Len(list) : list[i].id = id => i = Find(list, id)
         /\ \A t : In(list, t, id) <=> t \in Range(list[Find(list, id)].usr)
<1>1. Find(list, id) \in 1 .. Len(list) /\ list[Find(list, id)].id = id
  BY WellFormedIs, FindIs
<1>2. \A i \in 1 .. Len(list) : list[i].id = id => i = Find(list, id)
  BY <1>1, WellFormedIs
<1>3. \A t : In(list, t, id) <=> Contains(list[Find(list, id)].usr, t)
  BY <1>1, <1>2, WellFormedIs DEF In
<1> QED
  BY <1>1, <1>2, <1>3, WellFormedIs

LEMMA InIsValid ==
  ASSUME NEW list, NEW t, NEW id, In(list, t, id)
  PROVE  isValidSession(list, id)
  BY DEF In, isValidSession

\* inSession() says whether the list of the session has the user.
LEMMA inSessionIs ==
  ASSUME NEW list, WellFormed(list), NEW id, NEW t \in Threads, KnownBy(list, t)
  PROVE  inSession(list, id, t) <=> In(list, t, id)
<1>1. CASE ~isValidSession(list, id)
  BY <1>1, InIsValid DEF inSession
<1>2. CASE isValidSession(list, id)
  <2> DEFINE usr == list[Find(list, id)].usr
  <2>1. usr \in Seq(Threads)
    BY <1>2, PlaceOf, WellFormedIs
  <2>2. DOMAIN usr = 1 .. Len(usr) /\ \A i \in 1 .. Len(usr) : usr[i] \in Threads
    BY <2>1, LenProperties, ElementOfSeq
  <2>3. in_list(usr, t) <=> t \in Range(usr)
    <3>1. \A u \in Range(usr) : In(list, u, id)
      BY <1>2, PlaceOf
    <3>2. \A u \in Range(usr) : SameName(u, t) <=> u = t
      BY <3>1, SameAsItself DEF KnownBy
    <3> HIDE DEF usr
    <3> QED
      BY <2>2, <3>2 DEF in_list, Range
  <2> QED
    BY <1>2, <2>3, PlaceOf DEF inSession
<1> QED
  BY <1>1, <1>2

\* init_session(), for a number not in the list.
LEMMA InitSessionIs ==
  ASSUME NEW list, WellFormed(list), NEW id \in Ids, ~isValidSession(list, id)
  PROVE  /\ WellFormed(init_session(list, id))
         /\ \A n : isValidSession(init_session(list, id), n) <=> isValidSession(list, n) \/ n = id
         /\ \A t, n : In(init_session(list, id), t, n) <=> In(list, t, n)
<1> DEFINE s == [id |-> id, usr |-> <<>>]
           r == <<s>> \o list
<1>1. list \in Seq(Sessions) /\ Len(list) \in Nat /\ DOMAIN list = 1 .. Len(list)
  BY WellFormedIs
<1>2. s \in Sessions /\ s.id = id /\ s.usr = <<>>
  BY DEF Sessions
<1> HIDE DEF s
<1>3. <<s>> \in Seq(Sessions) /\ Len(<<s>>) = 1 /\ <<s>>[1] = s
  BY <1>2
<1>4. /\ r \in Seq(Sessions) /\ Len(r) = Len(list) + 1
      /\ \A i \in 1 .. Len(list) + 1 : r[i] = IF i <= 1 THEN s ELSE list[i - 1]
  BY <1>1, <1>3, ConcatProperties
<1>5. DOMAIN r = 1 .. Len(list) + 1
  BY <1>4, LenProperties
<1>6. r = init_session(list, id)
  BY DEF r, s, init_session
<1> HIDE DEF r
<1>7. \A i \in DOMAIN r : (i = 1 /\ r[i] = s) \/ (i - 1 \in DOMAIN list /\ r[i] = list[i - 1])
  BY <1>1, <1>4, <1>5
<1>8. 1 \in DOMAIN r /\ r[1] = s
  BY <1>1, <1>4, <1>5
<1>9. \A i \in DOMAIN list : i + 1 \in DOMAIN r /\ r[i + 1] = list[i]
  BY <1>1, <1>4, <1>5
<1>10. \A i \in DOMAIN list : list[i].id # id
  BY DEF isValidSession
<1>11. IsInjective(s.usr)
  BY <1>2 DEF IsInjective
<1>12. \A i, k \in DOMAIN r : i - 1 = k - 1 => i = k
  BY <1>1, <1>5
<1>13. WellFormed(r)
  <2>1. \A i, k \in DOMAIN r : r[i].id = r[k].id => i = k
    BY <1>2, <1>7, <1>10, <1>12 DEF WellFormed
  <2>2. \A i \in DOMAIN r : IsInjective(r[i].usr)
    BY <1>7, <1>11 DEF WellFormed
  <2> QED
    BY <1>4, <2>1, <2>2 DEF WellFormed
<1>14. \A n : isValidSession(r, n) <=> isValidSession(list, n) \/ n = id
  BY <1>2, <1>7, <1>8, <1>9 DEF isValidSession
<1>15. \A t, n : In(r, t, n) <=> In(list, t, n)
  <2>1. \A t : ~Contains(s.usr, t)
    BY <1>2 DEF Contains
  <2> QED
    BY <1>7, <1>9, <2>1 DEF In
<1> QED
  BY <1>6, <1>13, <1>14, <1>15

\* join_session(), by one who is not in the session.
LEMMA JoinSessionIs ==
  ASSUME NEW list, WellFormed(list), NEW id, isValidSession(list, id),
         NEW t \in Threads, ~In(list, t, id)
  PROVE  /\ WellFormed(join_session(list, id, t))
         /\ \A n : isValidSession(join_session(list, id, t), n) <=> isValidSession(list, n)
         /\ \A u, n : In(join_session(list, id, t), u, n) <=>
                        In(list, u, n) \/ (u = t /\ n = id)
<1> DEFINE p == Find(list, id)
           usr == <<t>> \o list[p].usr
           s == [list[p] EXCEPT !.usr = usr]
           r == [list EXCEPT ![p] = s]
<1>1. /\ p \in 1 .. Len(list) /\ list[p].id = id
      /\ \A i \in 1 .. Len(list) : list[i].id = id => i = p
      /\ t \notin Range(list[p].usr)
  BY PlaceOf
<1>2. /\ list \in Seq(Sessions) /\ DOMAIN list = 1 .. Len(list) /\ Len(list) \in Nat
      /\ list[p] \in Sessions /\ list[p].usr \in Seq(Threads) /\ IsInjective(list[p].usr)
  BY <1>1, WellFormedIs
<1>3. r = join_session(list, id, t)
  BY DEF join_session
<1> HIDE DEF p
<1>4. /\ usr \in Seq(Threads) /\ IsInjective(usr) /\ Range(usr) = {t} \cup Range(list[p].usr)
  BY <1>1, <1>2, Prefixed
<1> HIDE DEF usr
<1>5. s \in Sessions /\ s.id = id /\ s.usr = usr
  BY <1>1, <1>2, <1>4 DEF Sessions
<1> HIDE DEF s
<1>6. r \in Seq(Sessions) /\ DOMAIN r = DOMAIN list
      /\ r[p] = s /\ \A i \in DOMAIN list : i # p => r[i] = list[i]
  BY <1>1, <1>2, <1>5, ExceptSeq
<1> HIDE DEF r
<1>7. \A i \in DOMAIN list : r[i].id = list[i].id
  BY <1>1, <1>5, <1>6
<1>8. WellFormed(r)
  BY <1>4, <1>5, <1>6, <1>7 DEF WellFormed
<1>9. \A n : isValidSession(r, n) <=> isValidSession(list, n)
  BY <1>6, <1>7 DEF isValidSession
<1>10. ASSUME NEW u, NEW n PROVE In(r, u, n) <=> In(list, u, n) \/ (u = t /\ n = id)
  <2>1. CASE n = id
    <3>1. In(r, u, n) <=> Contains(r[p].usr, u)
      BY <1>1, <1>2, <1>6, <1>7, <2>1 DEF In
    <3>2. Contains(usr, u) <=> u \in Range(usr)
      BY <1>4, ContainsIsRange
    <3>3. In(list, u, n) <=> u \in Range(list[p].usr)
      BY <2>1, PlaceOf DEF p
    <3> QED
      BY <1>4, <1>5, <1>6, <2>1, <3>1, <3>2, <3>3
  <2>2. CASE n # id
    BY <1>1, <1>6, <1>7, <2>2 DEF In
  <2> QED
    BY <2>1, <2>2
<1> QED
  BY <1>3, <1>8, <1>9, <1>10

\* leave_session(), by one who is in the session.
LEMMA LeaveSessionIs ==
  ASSUME NEW list, WellFormed(list), NEW id, NEW t \in Threads, KnownBy(list, t), In(list, t, id)
  PROVE  /\ WellFormed(leave_session(list, id, t))
         /\ \A u, n : In(leave_session(list, id, t), u, n) <=>
                        In(list, u, n) /\ ~(u = t /\ n = id)
         /\ \A n : isValidSession(leave_session(list, id, t), n) <=>
                     /\ isValidSession(list, n)
                     /\ ~(n = id /\ \A u \in Threads : In(list, u, id) => u = t)
<1> DEFINE p == Find(list, id)
           rest == remove_user(list[p].usr, t)
<1>1. isValidSession(list, id)
  BY InIsValid
<1>2. /\ p \in 1 .. Len(list) /\ list[p].id = id
      /\ \A i \in 1 .. Len(list) : list[i].id = id => i = p
      /\ \A u : In(list, u, id) <=> u \in Range(list[p].usr)
  BY <1>1, PlaceOf
<1>3. /\ list \in Seq(Sessions) /\ DOMAIN list = 1 .. Len(list) /\ Len(list) \in Nat
      /\ list[p] \in Sessions /\ list[p].usr \in Seq(Threads) /\ IsInjective(list[p].usr)
      /\ \A i, k \in 1 .. Len(list) : list[i].id = list[k].id => i = k
      /\ \A i \in 1 .. Len(list) : IsInjective(list[i].usr)
  BY <1>2, WellFormedIs
<1>4. rest \in Seq(Threads) /\ IsInjective(rest) /\ Range(rest) = Range(list[p].usr) \ {t}
  <2>1. \A u \in Range(list[p].usr) : SameName(u, t) => u = t
    BY <1>2 DEF KnownBy
  <2> QED
    BY <1>3, <2>1, RemoveUserIs
<1>5. leave_session(list, id, t) =
        IF rest = <<>> THEN RemoveAt(list, p) ELSE [list EXCEPT ![p].usr = rest]
  BY DEF leave_session
<1>6. Range(list[p].usr) \subseteq Threads
  BY <1>3, RangeOfSeq
<1> HIDE DEF p, rest
<1>7. rest = <<>> <=> Range(rest) = {}
  BY <1>4, EmptySeq, LenProperties DEF Range
<1>8. (\A u \in Threads : In(list, u, id) => u = t) <=> rest = <<>>
  BY <1>2, <1>4, <1>6, <1>7
<1>9. CASE rest = <<>>
  <2> DEFINE r == RemoveAt(list, p)
             From(i) == IF i < p THEN i ELSE i + 1
  <2>1. /\ r \in Seq(Sessions) /\ DOMAIN r = 1 .. Len(list) - 1
        /\ \A i \in 1 .. Len(list) - 1 : r[i] = IF i < p THEN list[i] ELSE list[i + 1]
    BY <1>2, <1>3, RemoveAtIs
  <2> HIDE DEF r
  <2>2. \A i \in DOMAIN r : From(i) \in 1 .. Len(list) /\ From(i) # p /\ r[i] = list[From(i)]
    BY <1>2, <1>3, <2>1
  <2>3. \A i, k \in DOMAIN r : From(i) = From(k) => i = k
    BY <1>2, <1>3, <2>1
  <2>4. ASSUME NEW i \in 1 .. Len(list), i # p PROVE \E k \in DOMAIN r : r[k] = list[i]
    <3>1. CASE i < p
      <4>1. i \in DOMAIN r /\ r[i] = list[i]
        BY <1>2, <1>3, <2>1, <3>1
      <4> QED
        BY <4>1
    <3>2. CASE i > p
      <4>1. i - 1 \in DOMAIN r /\ r[i - 1] = list[i]
        BY <1>2, <1>3, <2>1, <3>2
      <4> QED
        BY <4>1
    <3>3. i < p \/ i > p
      BY <1>2, <1>3, <2>4
    <3> QED
      BY <3>1, <3>2, <3>3
  <2> HIDE DEF From
  <2>5. WellFormed(r)
    BY <1>3, <2>1, <2>2, <2>3 DEF WellFormed
  <2>6. \A n : isValidSession(r, n) <=> isValidSession(list, n) /\ n # id
    BY <1>2, <1>3, <2>2, <2>4 DEF isValidSession
  <2>7. \A u, n : In(r, u, n) <=> In(list, u, n) /\ n # id
    BY <1>2, <1>3, <2>2, <2>4 DEF In
  <2>8. \A u : In(list, u, id) <=> u = t
    BY <1>2, <1>4, <1>7, <1>9
  <2> QED
    BY <1>5, <1>8, <1>9, <2>5, <2>6, <2>7, <2>8 DEF r
<1>10. CASE rest # <<>>
  <2> DEFINE s == [list[p] EXCEPT !.usr = rest]
             r == [list EXCEPT ![p] = s]
  <2>1. r = leave_session(list, id, t)
    BY <1>5, <1>10
  <2>2. s \in Sessions /\ s.id = id /\ s.usr = rest
    BY <1>2, <1>3, <1>4 DEF Sessions
  <2> HIDE DEF s
  <2>3. r \in Seq(Sessions) /\ DOMAIN r = DOMAIN list
        /\ r[p] = s /\ \A i \in DOMAIN list : i # p => r[i] = list[i]
    BY <1>2, <1>3, <2>2, ExceptSeq
  <2> HIDE DEF r
  <2>4. \A i \in DOMAIN list : r[i].id = list[i].id
    BY <1>2, <2>2, <2>3
  <2>5. WellFormed(r)
    BY <1>4, <2>2, <2>3, <2>4 DEF WellFormed
  <2>6. \A n : isValidSession(r, n) <=> isValidSession(list, n)
    BY <2>3, <2>4 DEF isValidSession
  <2>7. ASSUME NEW u, NEW n PROVE In(r, u, n) <=> In(list, u, n) /\ ~(u = t /\ n = id)
    <3>1. CASE n = id
      <4>1. In(r, u, n) <=> Contains(r[p].usr, u)
        BY <1>2, <1>3, <2>3, <2>4, <3>1 DEF In
      <4>2. Contains(rest, u) <=> u \in Range(rest)
        BY <1>4, ContainsIsRange
      <4> QED
        BY <1>2, <1>4, <2>2, <2>3, <3>1, <4>1, <4>2
    <3>2. CASE n # id
      BY <1>2, <2>3, <2>4, <3>2 DEF In
    <3> QED
      BY <3>1, <3>2
  <2> QED
    BY <1>8, <1>10, <2>1, <2>5, <2>6, <2>7
<1> QED
  BY <1>9, <1>10

LEMMA Apart ==
  ASSUME NamesApart, NEW t \in Threads,
         pc[t] \in {"recv", "joinRecord", "leave", "leaveRecord", "leaving", "new4"}
  PROVE  /\ \A u \in Range(userLoggedin) : SameName(u, t) => u = t
         /\ KnownBy(sessionList, t)
  BY DEF NamesApart, Online

\* The users of a session are online.
LEMMA MembersOnline ==
  ASSUME Inv, NEW t, NEW id, In(sessionList, t, id)
  PROVE  t \in Threads /\ Online(t)
<1>1. isValidSession(sessionList, id)
  BY InIsValid
<1>2. WellFormed(sessionList)
  BY DEF Inv, ListInv
<1> DEFINE p == Find(sessionList, id)
<1>3. p \in 1 .. Len(sessionList) /\ sessionList[p].id = id /\ t \in Range(sessionList[p].usr)
  BY <1>1, <1>2, PlaceOf
<1> HIDE DEF p
<1>4. t \in Threads /\ id \in Ids
  BY <1>2, <1>3, WellFormedIs, RangeOfSeq
<1>5. id \in MemberOf(t)
  BY <1>4 DEF MemberOf
<1>6. pc[t] \notin Before \cup After
  <2>1. AccountInv(t)
    BY <1>4 DEF Inv
  <2> QED
    BY <1>5, <2>1, RangeOfNone DEF AccountInv, PrivateInv, MemberInv, Before, After
<1> QED
  BY <1>4, <1>6 DEF Online, Before, After

LEMMA TermsGive ==
  ASSUME Terms, Orderly, Inv
  PROVE  NamesApart /\ OneCreates
<1> USE DEF Terms, Orderly
<1>1. OneCreates
  BY DEF OneCreates, SerialInv
<1>2. \A u \in Range(userLoggedin) : u \in Nodes
  BY RangeOfSeq DEF Inv, ListInv
<1>3. \A u, id : In(sessionList, u, id) => u \in Threads /\ Online(u)
  BY MembersOnline
<1>4. ASSUME NEW t \in Threads, Online(t),
             NEW u \in Threads, SameName(u, t), NamesDiffer \/ Online(u)
      PROVE  u = t
  <2>1. CASE Serial
    <3>1. CASE NamesDiffer
      BY <1>4, <3>1 DEF NamesDiffer, SameName
    <3>2. CASE Online(u)
      BY <1>4, <2>1, <3>2 DEF SerialInv, NamesOnce, Engaged
    <3> QED
      BY <1>4, <3>1, <3>2
  <2>2. CASE NamesDiffer
    BY <1>4, <2>2 DEF NamesDiffer, SameName
  <2> QED
    BY <2>1, <2>2
<1>5. ASSUME Serial, NEW u \in Range(userLoggedin), u # Freed PROVE u \in Threads /\ Online(u)
  <2>1. /\ Live \in Seq(Threads) /\ Range(Live) = {t \in Threads : Online(t)}
        /\ userLoggedin = Live \/ userLoggedin = <<Freed>> \o Live
    BY <1>5 DEF SerialInv, ListedOnce
  <2>2. Live \in Seq(Nodes) /\ Freed \in Nodes
    BY <2>1 DEF Nodes
  <2> DEFINE r == <<Freed>> \o Live
  <2>3. Range(r) = {Freed} \cup Range(Live)
    BY <2>2, Prefixed
  <2> HIDE DEF r
  <2>4. u \in Range(Live)
    <3>1. CASE userLoggedin = Live
      BY <3>1
    <3>2. CASE userLoggedin = r
      BY <1>5, <2>3, <3>2
    <3> QED
      BY <2>1, <3>1, <3>2 DEF r
  <2> QED
    BY <2>1, <2>4
<1>6. ASSUME NEW t \in Threads, Online(t), NEW u \in Range(userLoggedin), SameName(u, t)
      PROVE  u = t
  <2>1. u # Freed /\ u \in Threads
    BY <1>2, <1>6 DEF SameName, Nodes
  <2> QED
    BY <1>4, <1>5, <1>6, <2>1
<1>7. ASSUME NEW t \in Threads, Online(t) PROVE KnownBy(sessionList, t)
  BY <1>3, <1>4, <1>7 DEF KnownBy
<1> QED
  BY <1>1, <1>6, <1>7 DEF NamesApart

-----------------------------------------------------------------------------
(***************************************************************************)
(* A step of a thread is none of the others' business as long as the       *)
(* following hold.                                                         *)
(***************************************************************************)
LeaveLabels == {"leave", "leaveRecord", "leaveUnlock"}

OthersSame(t) ==
  /\ DOMAIN pc' = Threads /\ DOMAIN arg' = Threads /\ DOMAIN known' = Threads
  /\ DOMAIN sessJoined' = Threads /\ DOMAIN nodeSess' = Threads
  /\ \A u \in Threads \ {t} :
       /\ pc'[u] = pc[u] /\ arg'[u] = arg[u] /\ known'[u] = known[u]
       /\ sessJoined'[u] = sessJoined[u] /\ nodeSess'[u] = nodeSess[u]

LEMMA CreatingIs == Creating = {t \in Threads : pc[t] \in CreatingLabels}
  BY DEF Creating, CreatingLabels, Counting

LEMMA OthersListed ==
  ASSUME ListInv, NEW t \in Threads, NodesSame(t), NEW u \in Threads \ {t},
         Contains(userLoggedin, u)'
  PROVE  Contains(userLoggedin, u)
<1>1. u \in Range(userLoggedin')
  <2>1. userLoggedin' \in Seq(Nodes) /\ Contains(userLoggedin', u)
    BY DEF NodesSame
  <2> QED
    BY <2>1, ContainsIsRange
<1>2. u # Freed /\ u # t
  BY ServerAssumption
<1>3. u \in Range(userLoggedin)
  BY <1>1, <1>2 DEF NodesSame
<1>4. userLoggedin \in Seq(Nodes)
  BY DEF ListInv
<1> QED
  BY <1>3, <1>4, ContainsIsRange

LEMMA OthersKept ==
  ASSUME Inv, NEW t \in Threads, OthersSame(t), NodesSame(t), NEW u \in Threads \ {t},
         MemberOf(u)' = MemberOf(u),
         sessionCnt' = sessionCnt \/ pc[u] \notin CreatingLabels
  PROVE  AccountInv(u)'
<1>1. /\ pc'[u] = pc[u] /\ arg'[u] = arg[u] /\ known'[u] = known[u]
      /\ sessJoined'[u] = sessJoined[u] /\ nodeSess'[u] = nodeSess[u]
  BY DEF OthersSame
<1>2. Contains(userLoggedin, u)' => Contains(userLoggedin, u)
  BY OthersListed DEF Inv
<1>3. AccountInv(u)
  BY DEF Inv
<1>4. ClientInv(u)'
  BY <1>1, <1>3 DEF ClientInv, AccountInv, CreatingLabels, Counting
<1>5. PrivateInv(u)'
  BY <1>1, <1>3 DEF PrivateInv, AccountInv, CreatingLabels
<1>6. MemberInv(u)'
  BY <1>1, <1>3 DEF MemberInv, AccountInv
<1>7. NodeInv(u)'
  BY <1>1, <1>2, <1>3 DEF NodeInv, AccountInv, CreatingLabels, Counting
<1>8. SingleInv(u)'
  BY <1>1, <1>3 DEF SingleInv, AccountInv
<1> QED
  BY <1>4, <1>5, <1>6, <1>7, <1>8 DEF AccountInv

\* A step that changes neither the sessions nor their number.
LEMMA QuietStep ==
  ASSUME Inv, NEW t \in Threads, OthersSame(t), NodesSame(t),
         UNCHANGED <<sessionList, sessionCnt>>,
         pc[t] \in CreatingLabels => pc'[t] \in CreatingLabels,
         ClientInv(t)', PrivateInv(t)', NodeInv(t)', SingleInv(t)',
         MemberOf(t)' = MemberOf(t) => MemberInv(t)'
  PROVE  Inv'
<1>1. \A u : MemberOf(u)' = MemberOf(u)
  BY DEF MemberOf
<1>2. Creating # {} => Creating' # {}
  <2>1. ASSUME NEW u \in Creating PROVE u \in Creating'
    <3>1. u \in Threads /\ pc[u] \in CreatingLabels
      BY CreatingIs
    <3>2. pc'[u] \in CreatingLabels
      BY <3>1 DEF OthersSame
    <3> QED
      BY <3>1, <3>2 DEF Creating, CreatingLabels, Counting
  <2> QED
    BY <2>1
<1>3. ListInv'
  BY <1>2 DEF Inv, ListInv, OthersSame, NodesSame
<1>4. \A u \in Threads \ {t} : AccountInv(u)'
  BY <1>1, OthersKept
<1>5. AccountInv(t)'
  BY <1>1 DEF AccountInv
<1> QED
  BY <1>3, <1>4, <1>5 DEF Inv

-----------------------------------------------------------------------------
(***************************************************************************)
(* The steps of both versions that are about no session.                   *)
(***************************************************************************)
accounts == <<pc, arg, known, sessJoined, nodeSess, userLoggedin, sessionList, sessionCnt>>

LEMMA Untouched ==
  ASSUME Inv, UNCHANGED accounts
  PROVE  Inv'
<1> USE DEF accounts
<1>1. ListInv'
  BY DEF Inv, ListInv, Creating
<1>2. ASSUME NEW t \in Threads PROVE AccountInv(t)'
  <2>1. AccountInv(t) /\ MemberOf(t)' = MemberOf(t)
    BY DEF Inv, MemberOf
  <2>2. ClientInv(t)' /\ PrivateInv(t)'
    BY <2>1 DEF AccountInv, ClientInv, PrivateInv
  <2>3. MemberInv(t)' /\ SingleInv(t)'
    BY <2>1 DEF AccountInv, MemberInv, SingleInv
  <2>4. NodeInv(t)'
    BY <2>1 DEF AccountInv, NodeInv
  <2> QED
    BY <2>2, <2>3, <2>4 DEF AccountInv
<1> QED
  BY <1>1, <1>2 DEF Inv

LEMMA NodesUnchanged ==
  ASSUME ListInv, userLoggedin' = userLoggedin, NEW t PROVE NodesSame(t)
  BY DEF NodesSame, ListInv

\* Before the login and after the departure.
LEMMA OutsideSessions ==
  ASSUME Inv, NEW t \in Threads, NEW l, pc' = [pc EXCEPT ![t] = l],
         UNCHANGED <<arg, known, sessJoined, nodeSess, sessionList, sessionCnt>>, NodesSame(t),
         \/ pc[t] \in Before /\ l \in Before \cup {"done", "recv"}
         \/ pc[t] \in After /\ l \in After
  PROVE  Inv'
<1>1. AccountInv(t) /\ pc'[t] = l
  BY DEF Inv, ListInv
<1>2. OthersSame(t)
  BY DEF OthersSame, Inv, ListInv
<1>3. known[t] = {} /\ sessJoined[t] = <<>> /\ (pc[t] \in Before => nodeSess[t] = <<>>)
  BY <1>1 DEF AccountInv, ClientInv, PrivateInv, NodeInv
<1>4. /\ pc[t] \notin CreatingLabels /\ pc[t] \notin {"joinRecord", "new3"}
      /\ l \in Before \cup After \cup {"recv"}
      /\ l \notin CreatingLabels \cup {"joinRecord", "join", "new3", "new6"}
      /\ l \in Before \cup {"recv"} => pc[t] \in Before
  BY DEF Before, After, CreatingLabels, Counting
<1>5. ClientInv(t)' /\ SingleInv(t)'
  BY <1>1, <1>3, <1>4 DEF AccountInv, ClientInv, SingleInv
<1>6. PrivateInv(t)'
  BY <1>1, <1>3, <1>4, RangeOfNone DEF AccountInv, PrivateInv, CreatingLabels
<1>7. MemberOf(t)' = MemberOf(t) => MemberInv(t)'
  BY <1>1, <1>4 DEF AccountInv, MemberInv
<1>8. NodeInv(t)'
  BY <1>1, <1>3, <1>4, RangeOfNone DEF AccountInv, NodeInv, Before, After, Settled
<1> QED
  BY <1>2, <1>4, <1>5, <1>6, <1>7, <1>8, QuietStep

LEMMA OutsideSteps ==
  ASSUME Inv, NEW t \in Threads,
         \/ Accept(t) \/ Login(t) \/ HangUp(t) \/ LoginAdd(t) \/ LoginLink(t) \/ Reject(t)
         \/ Relink(t) \/ Uncount(t)
  PROVE  /\ Inv' /\ OthersSame(t) /\ NodesSame(t) /\ pc'[t] \notin LeaveLabels
         /\ UNCHANGED <<sessionList, sessionCnt>>
<1> USE DEF Step, Begin, Goto, shared, private
<1>1. /\ \E l : /\ pc' = [pc EXCEPT ![t] = l]
                /\ \/ pc[t] \in Before /\ l \in Before \cup {"done", "recv"}
                   \/ pc[t] \in After /\ l \in After
      /\ UNCHANGED <<arg, known, sessJoined, nodeSess, sessionList, sessionCnt>>
  <2> USE DEF Before, After
  <2>1. CASE Accept(t)
    BY <2>1 DEF Accept
  <2>2. CASE Login(t)
    BY <2>2 DEF Login
  <2>3. CASE HangUp(t)
    BY <2>3 DEF HangUp
  <2>4. CASE LoginAdd(t)
    BY <2>4 DEF LoginAdd
  <2>5. CASE LoginLink(t)
    BY <2>5 DEF LoginLink
  <2>6. CASE Reject(t)
    BY <2>6 DEF Reject
  <2>7. CASE Relink(t)
    BY <2>7 DEF Relink
  <2>8. CASE Uncount(t)
    BY <2>8 DEF Uncount
  <2> QED
    BY <2>1, <2>2, <2>3, <2>4, <2>5, <2>6, <2>7, <2>8
<1>2. NodesSame(t)
  <2>1. CASE LoginLink(t)
    BY <2>1, RelinkedIs DEF LoginLink, Inv, ListInv
  <2>2. CASE Relink(t)
    BY <2>2, RelinkedIs DEF Relink, Inv, ListInv
  <2>3. CASE ~(LoginLink(t) \/ Relink(t))
    BY <2>3, NodesUnchanged DEF Inv, Accept, Login, HangUp, LoginAdd, Reject, Uncount
  <2> QED
    BY <2>1, <2>2, <2>3
<1>3. OthersSame(t)
  BY <1>1 DEF OthersSame, Inv, ListInv
<1>4. pc'[t] \notin LeaveLabels
  BY <1>1 DEF Inv, ListInv, LeaveLabels, Before, After
<1> HIDE DEF Step, Begin, Goto, shared, private
<1> QED
  BY <1>1, <1>2, <1>3, <1>4, OutsideSessions

-----------------------------------------------------------------------------
(***************************************************************************)
(* The steps that leave sessionList and sessionCnt alone.                  *)
(***************************************************************************)
LEMMA NothingYet ==
  ASSUME NEW K \in SUBSET Ids, Cardinality(K) < MAX_SESSION, MAX_SESSION = 1
  PROVE  K = {}
<1>1. IsFiniteSet(Ids)
  BY ServerAssumption, FS_Interval DEF Ids
<1>2. IsFiniteSet(K) /\ Cardinality(K) \in Nat
  BY <1>1, FS_Subset, FS_CardinalityType
<1>3. Cardinality(K) = 0
  BY <1>2
<1> QED
  BY <1>2, <1>3, FS_EmptySet

\* From recv() on, what the request is about does not matter yet.
LEMMA Listening ==
  ASSUME Inv, NEW t \in Threads, pc[t] \in {"recv", "send"},
         OthersSame(t), pc'[t] \in {"recv", "send", "join", "leave", "leaving"},
         UNCHANGED <<sessJoined, nodeSess, userLoggedin, sessionList, sessionCnt>>,
         known'[t] = IF pc'[t] \in {"leave", "leaving"} THEN {} ELSE known[t],
         pc'[t] = "join" => /\ arg'[t] \in Ids \ known[t] /\ Cardinality(known[t]) < MAX_SESSION
  PROVE  Inv'
<1>1. AccountInv(t) /\ known[t] \in SUBSET Ids
  BY DEF Inv, AccountInv, ClientInv
<1> USE DEF Before, After, Settled, Counting, CreatingLabels, Parting
<1>2. ClientInv(t)'
  BY <1>1 DEF AccountInv, ClientInv
<1>3. PrivateInv(t)'
  BY <1>1 DEF AccountInv, PrivateInv
<1>4. NodeInv(t)'
  BY <1>1 DEF AccountInv, NodeInv
<1>5. SingleInv(t)'
  BY <1>1, NothingYet DEF AccountInv, SingleInv
<1>6. MemberOf(t)' = MemberOf(t) => MemberInv(t)'
  BY <1>1 DEF AccountInv, MemberInv
<1>7. NodesSame(t)
  BY NodesUnchanged DEF Inv
<1> QED
  BY <1>2, <1>3, <1>4, <1>5, <1>6, <1>7, QuietStep

\* Who is told that the session is not theirs yet is not in it.
LEMMA ReadyIs ==
  ASSUME Inv, NEW t \in Threads, pc[t] \in {"recv", "send", "join", "new2"}
  PROVE  /\ known[t] \in SUBSET Ids
         /\ Range(sessJoined[t]) = known[t] /\ MemberOf(t) = known[t]
  BY DEF Inv, AccountInv, ClientInv, PrivateInv, MemberInv, Settled

LEMMA JoinKeepsInv ==
  ASSUME NamesApart, Inv, NEW t \in Threads, NEW id \in Ids, Join(t, id)
  PROVE  Inv' /\ OthersSame(t)
<1> USE DEF Begin, Goto, shared
<1>1. /\ pc[t] = "recv" /\ pc' = [pc EXCEPT ![t] = "join"] /\ arg' = [arg EXCEPT ![t] = id]
      /\ UNCHANGED <<known, sessJoined, nodeSess, userLoggedin, sessionList, sessionCnt>>
      /\ Cardinality(known[t]) < MAX_SESSION
      /\ ~inSession(sessionList, id, t)
  BY DEF Join
<1> HIDE DEF Begin, Goto, shared
<1>2. OthersSame(t) /\ pc'[t] = "join" /\ arg'[t] = id /\ known'[t] = known[t]
  BY <1>1 DEF OthersSame, Inv, ListInv
<1>3. id \notin known[t]
  <2>1. ~In(sessionList, t, id)
    <3>1. WellFormed(sessionList) /\ KnownBy(sessionList, t)
      BY <1>1, Apart DEF Inv, ListInv
    <3> QED
      BY <1>1, <3>1, inSessionIs
  <2> QED
    BY <1>1, <2>1, ReadyIs DEF MemberOf
<1> QED
  BY <1>1, <1>2, <1>3, Listening

LEMMA MessageKeepsInv ==
  ASSUME Inv, NEW t \in Threads, MessageAll(t) \/ SendNextOfAll(t)
  PROVE  Inv' /\ OthersSame(t) /\ pc'[t] \notin LeaveLabels
<1>1. /\ pc[t] \in {"recv", "send"}
      /\ pc' = pc \/ (\E l \in {"recv", "send"} : pc' = [pc EXCEPT ![t] = l])
      /\ arg' = arg \/ \E n : arg' = [arg EXCEPT ![t] = n]
      /\ UNCHANGED <<known, sessJoined, nodeSess, userLoggedin, sessionList, sessionCnt>>
  <2> USE DEF Begin, Step, Goto, Return, Visit, shared
  <2>1. CASE MessageAll(t)
    BY <2>1 DEF MessageAll
  <2>2. CASE SendNextOfAll(t)
    BY <2>2 DEF SendNextOfAll
  <2> QED
    BY <2>1, <2>2
<1>2. OthersSame(t) /\ pc'[t] \in {"recv", "send"} /\ known'[t] = known[t]
  BY <1>1 DEF OthersSame, Inv, ListInv
<1> QED
  BY <1>1, <1>2, Listening DEF LeaveLabels

LEMMA PartKeepsInv ==
  ASSUME Inv, NEW t \in Threads, Exit(t) \/ LeaveAll(t)
  PROVE  Inv' /\ OthersSame(t) /\ pc'[t] \in {"leave", "leaving"}
<1>1. /\ pc[t] = "recv"
      /\ \E l \in {"leave", "leaving"} : pc' = [pc EXCEPT ![t] = l]
      /\ known' = [known EXCEPT ![t] = {}]
      /\ UNCHANGED <<arg, sessJoined, nodeSess, userLoggedin, sessionList, sessionCnt>>
  <2> USE DEF Begin, Goto, shared, private
  <2>1. CASE Exit(t)
    BY <2>1 DEF Exit
  <2>2. CASE LeaveAll(t)
    BY <2>2 DEF LeaveAll
  <2> QED
    BY <2>1, <2>2
<1>2. OthersSame(t) /\ pc'[t] \in {"leave", "leaving"} /\ known'[t] = {}
  BY <1>1 DEF OthersSame, Inv, ListInv
<1> QED
  BY <1>1, <1>2, Listening

\* Lines 197 and 275: when no other node has the name, one records the session.
LEMMA RecordIs ==
  ASSUME NamesApart, Inv, NEW t \in Threads, pc[t] \in {"joinRecord", "new4"},
         NEW id \in Ids, Record(t, id)
  PROVE  /\ DOMAIN nodeSess' = Threads
         /\ \A u \in Threads \ {t} : nodeSess'[u] = nodeSess[u]
         /\ ~Contains(userLoggedin, t) => nodeSess'[t] = nodeSess[t]
         /\ Contains(userLoggedin, t) => nodeSess'[t] = <<id>> \o nodeSess[t]
<1>1. userLoggedin \in Seq(Nodes) /\ \A u \in Range(userLoggedin) : SameName(u, t) => u = t
  BY Apart DEF Inv, ListInv
<1>2. \A u \in Threads : Contains(userLoggedin, u) /\ SameName(u, t) <=> Contains(userLoggedin, u) /\ u = t
  BY <1>1, ContainsIsRange, SameAsItself
<1> QED
  BY <1>2 DEF Record

LEMMA JoinRecordKeepsInv ==
  ASSUME NamesApart, Inv, NEW t \in Threads, JoinRecord(t)
  PROVE  Inv' /\ OthersSame(t) /\ pc'[t] = "recv"
<1> DEFINE id == arg[t]
<1>1. /\ pc[t] = "joinRecord" /\ pc' = [pc EXCEPT ![t] = "recv"]
      /\ arg' = [arg EXCEPT ![t] = 0]
      /\ sessJoined' = [sessJoined EXCEPT ![t] = <<id>> \o @]
      /\ known' = [known EXCEPT ![t] = @ \cup {id}]
      /\ Record(t, id) /\ UNCHANGED <<userLoggedin, sessionList, sessionCnt>>
  BY DEF JoinRecord, Step, Return, Goto
<1>2. AccountInv(t) /\ id \in Ids \ known[t] /\ known[t] \in SUBSET Ids
  BY <1>1 DEF Inv, AccountInv, ClientInv
<1>3. OthersSame(t) /\ pc'[t] = "recv" /\ sessJoined'[t] = <<id>> \o sessJoined[t]
      /\ known'[t] = known[t] \cup {id}
  BY <1>1, <1>2, RecordIs DEF OthersSame, Inv, ListInv
<1>4. /\ sessJoined[t] \in Seq(Ids) /\ IsInjective(sessJoined[t]) /\ Range(sessJoined[t]) = known[t]
      /\ MemberOf(t) = known[t] \cup {id}
      /\ nodeSess[t] \in Seq(Ids) /\ IsInjective(nodeSess[t])
      /\ Contains(userLoggedin, t) => Range(nodeSess[t]) = known[t]
  BY <1>1, <1>2 DEF AccountInv, PrivateInv, MemberInv, NodeInv, Settled
<1>5. /\ sessJoined'[t] \in Seq(Ids) /\ IsInjective(sessJoined'[t])
      /\ Range(sessJoined'[t]) = known'[t]
  BY <1>2, <1>3, <1>4, Prefixed
<1>6. /\ nodeSess'[t] \in Seq(Ids) /\ IsInjective(nodeSess'[t])
      /\ Contains(userLoggedin, t) => Range(nodeSess'[t]) = known'[t]
  <2>1. CASE Contains(userLoggedin, t)
    <3>1. nodeSess'[t] = <<id>> \o nodeSess[t]
      BY <1>1, <1>2, <2>1, RecordIs
    <3> QED
      BY <1>2, <1>3, <1>4, <2>1, <3>1, Prefixed
  <2>2. CASE ~Contains(userLoggedin, t)
    BY <1>1, <1>2, <1>4, <2>2, RecordIs
  <2> QED
    BY <2>1, <2>2
<1> HIDE DEF id
<1> USE DEF Before, After, Settled, Counting, CreatingLabels, Parting
<1>7. ClientInv(t)'
  BY <1>2, <1>3 DEF ClientInv
<1>8. PrivateInv(t)'
  BY <1>3, <1>5 DEF PrivateInv
<1>9. NodeInv(t)'
  BY <1>1, <1>3, <1>6 DEF NodeInv
<1>10. SingleInv(t)'
  BY <1>1, <1>2, <1>3 DEF AccountInv, SingleInv
<1>11. MemberOf(t)' = MemberOf(t) => MemberInv(t)'
  BY <1>3, <1>4, <1>5 DEF MemberInv
<1>12. NodesSame(t)
  BY <1>1, NodesUnchanged DEF Inv
<1> QED
  BY <1>1, <1>3, <1>7, <1>8, <1>9, <1>10, <1>11, <1>12, QuietStep

\* The first node of a name that no other node has.
LEMMA NodeFound ==
  ASSUME NEW list \in Seq(Nodes), NEW t \in Threads, NEW i,
         \A u \in Range(list) : SameName(u, t) => u = t,
         i = SelectInSeq(list, LAMBDA u : SameName(u, t))
  PROVE  /\ i = 0 => ~Contains(list, t)
         /\ i # 0 => i \in 1 .. Len(list) /\ list[i] = t
<1> DEFINE I == {k \in 1 .. Len(list) : SameName(list[k], t)}
<1>1. Len(list) \in Nat /\ DOMAIN list = 1 .. Len(list)
  BY LenProperties
<1>2. \A k \in 1 .. Len(list) : SameName(list[k], t) <=> list[k] = t
  BY <1>1, SameAsItself DEF Range
<1>3. CASE I = {}
  <2>1. i = 0
    BY <1>3 DEF SelectInSeq
  <2>2. ~Contains(list, t)
    BY <1>1, <1>2, <1>3 DEF Contains
  <2> QED
    BY <2>1, <2>2
<1>4. CASE I # {}
  <2>1. i = Min(I)
    BY <1>4 DEF SelectInSeq
  <2>2. Min(I) \in I
    <3>1. I \in SUBSET Nat
      BY <1>1
    <3> HIDE DEF I
    <3> QED
      BY <1>4, <3>1, MinIs
  <2>3. Min(I) \in 1 .. Len(list) /\ list[Min(I)] = t
    BY <1>2, <2>2
  <2> HIDE DEF I
  <2> QED
    BY <1>1, <2>1, <2>3
<1> QED
  BY <1>3, <1>4

\* The end of LEAVE_SESS in the first version.
LEMMA LeaveAllRecordKeepsInv ==
  ASSUME NamesApart, Inv, NEW t \in Threads, LeaveAllRecord(t)
  PROVE  Inv' /\ OthersSame(t) /\ pc'[t] = "recv"
<1> DEFINE i == SelectInSeq(userLoggedin, LAMBDA u : SameName(u, t))
<1>1. /\ pc[t] = "leaveRecord" /\ pc' = [pc EXCEPT ![t] = "recv"]
      /\ arg' = [arg EXCEPT ![t] = 0]
      /\ nodeSess' = IF i = 0 THEN nodeSess ELSE [nodeSess EXCEPT ![userLoggedin[i]] = <<>>]
      /\ UNCHANGED <<known, sessJoined, userLoggedin, sessionList, sessionCnt>>
  BY DEF LeaveAllRecord, Step, Return, Goto
<1>2. userLoggedin \in Seq(Nodes)
  BY DEF Inv, ListInv
<1>3. /\ i = 0 => ~Contains(userLoggedin, t)
      /\ i # 0 => userLoggedin[i] = t
  <2> HIDE DEF i
  <2>1. i = SelectInSeq(userLoggedin, LAMBDA u : SameName(u, t))
    BY DEF i
  <2> QED
    BY <1>1, <1>2, <2>1, NodeFound, Apart
<1> HIDE DEF i
<1>4. /\ OthersSame(t) /\ pc'[t] = "recv" /\ known'[t] = known[t] /\ sessJoined'[t] = sessJoined[t]
      /\ i = 0 => nodeSess'[t] = nodeSess[t]
      /\ i # 0 => nodeSess'[t] = <<>>
  BY <1>1, <1>3 DEF OthersSame, Inv, ListInv
<1>5. /\ AccountInv(t) /\ known[t] = {} /\ sessJoined[t] = <<>> /\ MemberOf(t) = {}
      /\ nodeSess[t] \in Seq(Ids) /\ IsInjective(nodeSess[t])
  BY <1>1, RangeOfNone
     DEF Inv, AccountInv, ClientInv, PrivateInv, MemberInv, NodeInv, Parting
<1> USE DEF Before, After, Settled, Counting, CreatingLabels, Parting
<1>6. ClientInv(t)'
  BY <1>4, <1>5 DEF ClientInv
<1>7. PrivateInv(t)'
  BY <1>4, <1>5, RangeOfNone DEF PrivateInv
<1>8. NodeInv(t)'
  BY <1>1, <1>3, <1>4, <1>5, RangeOfNone DEF NodeInv
<1>9. SingleInv(t)'
  BY <1>4, <1>5 DEF SingleInv
<1>10. MemberOf(t)' = MemberOf(t) => MemberInv(t)'
  BY <1>4, <1>5, RangeOfNone DEF MemberInv
<1>11. NodesSame(t)
  BY <1>1, NodesUnchanged DEF Inv
<1> QED
  BY <1>1, <1>4, <1>6, <1>7, <1>8, <1>9, <1>10, <1>11, QuietStep

LEMMA UnlinkKeepsInv ==
  ASSUME Inv, NEW t \in Threads, Unlink(t)
  PROVE  /\ Inv' /\ OthersSame(t) /\ pc[t] = "leaving" /\ pc'[t] = "relink"
         /\ MemberOf(t) = {} /\ UNCHANGED <<sessionList, sessionCnt>>
<1>1. /\ pc[t] = "leaving" /\ pc' = [pc EXCEPT ![t] = "relink"] /\ sessJoined[t] = <<>>
      /\ UNCHANGED <<arg, known, sessJoined, nodeSess, sessionList, sessionCnt>> /\ Unlinked(t)
  BY DEF Unlink, Step, Goto
<1>2. OthersSame(t) /\ pc'[t] = "relink"
  BY <1>1 DEF OthersSame, Inv, ListInv
<1>3. AccountInv(t) /\ known[t] = {} /\ MemberOf(t) = {}
  BY <1>1, RangeOfNone DEF Inv, AccountInv, ClientInv, MemberInv, Parting
<1> USE DEF Before, After, Settled, Counting, CreatingLabels, Parting
<1>4. ClientInv(t)' /\ PrivateInv(t)' /\ SingleInv(t)'
  BY <1>1, <1>2, <1>3 DEF AccountInv, ClientInv, PrivateInv, SingleInv
<1>5. NodeInv(t)'
  BY <1>1, <1>2, <1>3 DEF AccountInv, NodeInv
<1>6. MemberOf(t)' = MemberOf(t) => MemberInv(t)'
  BY <1>1, <1>2, <1>3, RangeOfNone DEF MemberInv
<1>7. NodesSame(t)
  BY <1>1, UnlinkedIs DEF Inv, ListInv
<1> QED
  BY <1>1, <1>2, <1>3, <1>4, <1>5, <1>6, <1>7, QuietStep

\* The creator's private list, and its own node, have the new session first.
LEMMA NewPrivateKeepsInv ==
  ASSUME Inv, NEW t \in Threads, NewPrivate(t)
  PROVE  Inv' /\ OthersSame(t) /\ pc[t] = "new2" /\ pc'[t] = "new3"
<1>1. /\ pc[t] = "new2" /\ pc' = [pc EXCEPT ![t] = "new3"]
      /\ sessJoined' = [sessJoined EXCEPT ![t] = <<sessionCnt>> \o @]
      /\ UNCHANGED <<arg, known, nodeSess, userLoggedin, sessionList, sessionCnt>>
  BY DEF NewPrivate, Step, Goto, shared
<1>2. OthersSame(t) /\ pc'[t] = "new3" /\ sessJoined'[t] = <<sessionCnt>> \o sessJoined[t]
  BY <1>1 DEF OthersSame, Inv, ListInv
<1> USE DEF Before, After, Settled, Counting, CreatingLabels, Parting
<1>3. /\ AccountInv(t) /\ MemberOf(t) = known[t] /\ sessionCnt \in Ids \ known[t]
      /\ sessJoined[t] \in Seq(Ids) /\ IsInjective(sessJoined[t]) /\ Range(sessJoined[t]) = known[t]
  BY <1>1 DEF Inv, ListInv, AccountInv, ClientInv, PrivateInv, MemberInv
<1>4. /\ sessJoined'[t] \in Seq(Ids) /\ IsInjective(sessJoined'[t])
      /\ Range(sessJoined'[t]) = known[t] \cup {sessionCnt}
  BY <1>2, <1>3, Prefixed
<1>5. ClientInv(t)' /\ SingleInv(t)'
  BY <1>1, <1>2, <1>3 DEF AccountInv, ClientInv, SingleInv
<1>6. PrivateInv(t)'
  BY <1>1, <1>2, <1>4 DEF PrivateInv
<1>7. NodeInv(t)'
  BY <1>1, <1>2, <1>3 DEF AccountInv, NodeInv
<1>8. MemberOf(t)' = MemberOf(t) => MemberInv(t)'
  BY <1>1, <1>2, <1>3 DEF MemberInv
<1>9. NodesSame(t)
  BY <1>1, NodesUnchanged DEF Inv
<1> QED
  BY <1>1, <1>2, <1>5, <1>6, <1>7, <1>8, <1>9, QuietStep

LEMMA NewRecordKeepsInv ==
  ASSUME NamesApart, Inv, NEW t \in Threads, NewRecord(t)
  PROVE  Inv' /\ OthersSame(t) /\ pc[t] = "new4" /\ pc'[t] = "new5"
<1>1. /\ pc[t] = "new4" /\ pc' = [pc EXCEPT ![t] = "new5"]
      /\ Record(t, sessionCnt)
      /\ UNCHANGED <<arg, known, sessJoined, userLoggedin, sessionList, sessionCnt>>
  BY DEF NewRecord, Step, Goto, private
<1>2. sessionCnt \in Ids
  BY DEF Inv, ListInv
<1>3. OthersSame(t) /\ pc'[t] = "new5"
  BY <1>1, <1>2, RecordIs DEF OthersSame, Inv, ListInv
<1> USE DEF Before, After, Settled, Counting, CreatingLabels, Parting
<1>4. /\ AccountInv(t) /\ MemberOf(t) = Range(sessJoined[t]) /\ sessionCnt \notin known[t]
      /\ nodeSess[t] \in Seq(Ids) /\ IsInjective(nodeSess[t])
      /\ Contains(userLoggedin, t) => Range(nodeSess[t]) = known[t]
  BY <1>1 DEF Inv, AccountInv, ClientInv, MemberInv, NodeInv
<1>5. /\ nodeSess'[t] \in Seq(Ids) /\ IsInjective(nodeSess'[t])
      /\ Contains(userLoggedin, t) => Range(nodeSess'[t]) = known[t] \cup {sessionCnt}
  <2>1. CASE Contains(userLoggedin, t)
    <3>1. nodeSess'[t] = <<sessionCnt>> \o nodeSess[t]
      BY <1>1, <1>2, <2>1, RecordIs
    <3> QED
      BY <1>2, <1>4, <2>1, <3>1, Prefixed
  <2>2. CASE ~Contains(userLoggedin, t)
    BY <1>1, <1>2, <1>4, <2>2, RecordIs
  <2> QED
    BY <2>1, <2>2
<1>6. ClientInv(t)' /\ SingleInv(t)' /\ PrivateInv(t)'
  BY <1>1, <1>3, <1>4 DEF AccountInv, ClientInv, SingleInv, PrivateInv
<1>7. NodeInv(t)'
  BY <1>1, <1>3, <1>5 DEF NodeInv
<1>8. MemberOf(t)' = MemberOf(t) => MemberInv(t)'
  BY <1>1, <1>3, <1>4 DEF MemberInv
<1>9. NodesSame(t)
  BY <1>1, NodesUnchanged DEF Inv
<1> QED
  BY <1>1, <1>3, <1>6, <1>7, <1>8, <1>9, QuietStep

LEMMA NewAnswerKeepsInv ==
  ASSUME Inv, NEW t \in Threads, NewAnswer(t)
  PROVE  Inv' /\ OthersSame(t) /\ pc[t] = "new5" /\ pc'[t] = "new6"
<1>1. /\ pc[t] = "new5" /\ pc' = [pc EXCEPT ![t] = "new6"]
      /\ arg' = [arg EXCEPT ![t] = sessionCnt]
      /\ UNCHANGED <<known, sessJoined, nodeSess, userLoggedin, sessionList, sessionCnt>>
  BY DEF NewAnswer, Step, Goto, shared
<1>2. OthersSame(t) /\ pc'[t] = "new6" /\ arg'[t] = sessionCnt
  BY <1>1 DEF OthersSame, Inv, ListInv
<1>3. AccountInv(t)
  BY DEF Inv
<1> USE DEF Before, After, Settled, Counting, CreatingLabels, Parting
<1>4. ClientInv(t)' /\ SingleInv(t)' /\ PrivateInv(t)'
  BY <1>1, <1>2, <1>3 DEF AccountInv, ClientInv, SingleInv, PrivateInv
<1>5. NodeInv(t)'
  BY <1>1, <1>2, <1>3 DEF AccountInv, NodeInv
<1>6. MemberOf(t)' = MemberOf(t) => MemberInv(t)'
  BY <1>1, <1>2, <1>3 DEF AccountInv, MemberInv
<1>7. NodesSame(t)
  BY <1>1, NodesUnchanged DEF Inv
<1> QED
  BY <1>1, <1>2, <1>4, <1>5, <1>6, <1>7, QuietStep

-----------------------------------------------------------------------------
(***************************************************************************)
(* The steps that change sessionList or sessionCnt.                        *)
(***************************************************************************)
LEMMA CreatorIs ==
  ASSUME OneCreates, Inv, NEW t \in Threads, "NEW_SESS" \in Commands[t],
         Serial => Alone(t), NEW u \in Threads \ {t}
  PROVE  pc[u] \notin CreatingLabels
<1>1. CASE OneCreator
  BY <1>1 DEF OneCreator, Inv, AccountInv, ClientInv
<1>2. CASE Serial /\ OneActive
  BY <1>2, OthersQuiet DEF Quiet, CreatingLabels, Counting
<1> QED
  BY <1>1, <1>2 DEF OneCreates

LEMMA NewCountKeepsInv ==
  ASSUME OneCreates, Inv, NEW t \in Threads, NewCount(t)
  PROVE  /\ Inv' /\ OthersSame(t) /\ pc[t] = "new6" /\ pc'[t] = "recv"
         /\ sessionList' = sessionList /\ sessionCnt' = sessionCnt + 1 /\ Creating' = {}
<1>1. /\ pc[t] = "new6" /\ pc' = [pc EXCEPT ![t] = "recv"]
      /\ arg' = [arg EXCEPT ![t] = 0]
      /\ known' = [known EXCEPT ![t] = @ \cup {arg[t]}]
      /\ sessionCnt' = sessionCnt + 1
      /\ UNCHANGED <<sessJoined, nodeSess, userLoggedin, sessionList>>
  BY DEF NewCount, Step, Goto, Return
<1> USE DEF Before, After, Settled, Counting, CreatingLabels, Parting
<1>2. /\ AccountInv(t) /\ arg[t] = sessionCnt /\ sessionCnt \in Ids /\ sessionCnt <= MaxCreated
      /\ "NEW_SESS" \in Commands[t]
      /\ known[t] \in SUBSET Ids
  BY <1>1 DEF Inv, ListInv, AccountInv, ClientInv
<1>3. OthersSame(t) /\ pc'[t] = "recv" /\ known'[t] = known[t] \cup {sessionCnt}
  BY <1>1, <1>2 DEF OthersSame, Inv, ListInv
<1>4. \A u \in Threads \ {t} : pc[u] \notin CreatingLabels
  <2>1. Alone(t)
    BY <1>1 DEF Alone, Quiet
  <2> HIDE DEF CreatingLabels
  <2> QED
    BY <1>2, <2>1, CreatorIs
<1>5. Creating' = {}
  <2>1. \A u \in Threads : pc'[u] \notin CreatingLabels
    BY <1>3, <1>4 DEF OthersSame
  <2> QED
    BY <2>1 DEF Creating
<1>6. ListInv'
  <2>1. sessionCnt' \in Ids /\ \A id \in Ids : id <= sessionCnt => id < sessionCnt'
    BY <1>1, <1>2, ServerAssumption DEF Ids
  <2>2. \A id \in Ids : isValidSession(sessionList, id) => id < sessionCnt'
    <3>1. \A id \in Ids : isValidSession(sessionList, id) => id < sessionCnt \/ id = sessionCnt
      BY DEF Inv, ListInv
    <3>2. \A id \in Ids : id < sessionCnt \/ id = sessionCnt => id <= sessionCnt
      BY <1>2 DEF Ids
    <3> QED
      BY <2>1, <3>1, <3>2
  <2> QED
    BY <1>1, <1>3, <2>1, <2>2 DEF Inv, ListInv, OthersSame
<1>7. \A u : MemberOf(u)' = MemberOf(u)
  BY <1>1 DEF MemberOf
<1>8. NodesSame(t)
  BY <1>1, NodesUnchanged DEF Inv
<1>9. \A u \in Threads \ {t} : AccountInv(u)'
  BY <1>3, <1>4, <1>7, <1>8, OthersKept
<1>10. AccountInv(t)'
  <2>1. ClientInv(t)' /\ PrivateInv(t)'
    BY <1>1, <1>2, <1>3 DEF AccountInv, ClientInv, PrivateInv
  <2>2. NodeInv(t)'
    BY <1>1, <1>2, <1>3 DEF AccountInv, NodeInv
  <2>3. SingleInv(t)'
    BY <1>1, <1>2, <1>3 DEF AccountInv, SingleInv
  <2>4. MemberInv(t)'
    BY <1>1, <1>2, <1>3, <1>7 DEF AccountInv, MemberInv
  <2> QED
    BY <2>1, <2>2, <2>3, <2>4 DEF AccountInv
<1> QED
  BY <1>1, <1>3, <1>5, <1>6, <1>9, <1>10 DEF Inv

\* A step that changes who is in a session only for t.
LEMMA ListStep ==
  ASSUME Inv, NEW t \in Threads, OthersSame(t), NodesSame(t),
         sessionCnt' = sessionCnt, WellFormed(sessionList'),
         \A id \in Ids : isValidSession(sessionList', id) =>
           isValidSession(sessionList, id) \/ (id = sessionCnt /\ pc'[t] \in CreatingLabels),
         \A u \in Threads \ {t} : \A id \in Ids :
           In(sessionList', u, id) <=> In(sessionList, u, id),
         pc[t] \in CreatingLabels => pc'[t] \in CreatingLabels,
         AccountInv(t)'
  PROVE  Inv'
<1>1. \A u \in Threads \ {t} : MemberOf(u)' = MemberOf(u)
  BY DEF MemberOf
<1>2. Creating # {} => Creating' # {}
  <2>1. ASSUME NEW u \in Creating PROVE u \in Creating'
    <3>1. u \in Threads /\ pc[u] \in CreatingLabels
      BY CreatingIs
    <3>2. pc'[u] \in CreatingLabels
      BY <3>1 DEF OthersSame
    <3> QED
      BY <3>1, <3>2 DEF Creating, CreatingLabels, Counting
  <2> QED
    BY <2>1
<1>3. pc'[t] \in CreatingLabels => Creating' # {}
  BY DEF Creating, CreatingLabels, Counting
<1>4. ListInv'
  <2>1. \A id \in Ids : isValidSession(sessionList', id) =>
          id < sessionCnt' \/ (id = sessionCnt' /\ Creating' # {})
    BY <1>2, <1>3 DEF Inv, ListInv
  <2> QED
    BY <2>1 DEF Inv, ListInv, OthersSame, NodesSame
<1>5. \A u \in Threads \ {t} : AccountInv(u)'
  BY <1>1, OthersKept
<1> QED
  BY <1>4, <1>5 DEF Inv

\* What a request to join finds in sessionList is what join_session() changes.
LEMMA JoinSessionKeepsInv ==
  ASSUME Inv, NEW t \in Threads, JoinSession(t), isValidSession(sessionList, arg[t])
  PROVE  /\ Inv' /\ OthersSame(t) /\ pc[t] = "join" /\ pc'[t] = "joinRecord"
         /\ arg[t] \in Ids \ MemberOf(t) /\ sessionCnt' = sessionCnt
         /\ \A n : isValidSession(sessionList', n) <=> isValidSession(sessionList, n)
         /\ \A u, n : In(sessionList', u, n) <=> In(sessionList, u, n) \/ (u = t /\ n = arg[t])
<1>1. /\ pc[t] = "join" /\ pc' = [pc EXCEPT ![t] = "joinRecord"]
      /\ sessionList' = join_session(sessionList, arg[t], t)
      /\ UNCHANGED <<arg, known, sessJoined, nodeSess, userLoggedin, sessionCnt>>
  BY DEF JoinSession, Step, Goto, private
<1> USE DEF Before, After, Settled, Counting, CreatingLabels, Parting
<1>2. OthersSame(t) /\ pc'[t] = "joinRecord"
  BY <1>1 DEF OthersSame, Inv, ListInv
<1>3. /\ AccountInv(t) /\ arg[t] \in Ids \ known[t] /\ MemberOf(t) = known[t]
  BY <1>1 DEF Inv, AccountInv, ClientInv, PrivateInv, MemberInv
<1>4. WellFormed(sessionList) /\ ~In(sessionList, t, arg[t])
  BY <1>3 DEF Inv, ListInv, MemberOf
<1>5. /\ WellFormed(sessionList')
      /\ \A n : isValidSession(sessionList', n) <=> isValidSession(sessionList, n)
      /\ \A u, n : In(sessionList', u, n) <=> In(sessionList, u, n) \/ (u = t /\ n = arg[t])
  BY <1>1, <1>4, JoinSessionIs
<1>6. MemberOf(t)' = known[t] \cup {arg[t]}
  <2>1. MemberOf(t)' = {id \in Ids : In(sessionList', t, id)}
    BY DEF MemberOf
  <2>2. {id \in Ids : In(sessionList', t, id)} = MemberOf(t) \cup {arg[t]}
    BY <1>3, <1>5 DEF MemberOf
  <2> QED
    BY <1>3, <2>1, <2>2
<1>7. AccountInv(t)'
  <2>1. ClientInv(t)' /\ PrivateInv(t)' /\ SingleInv(t)'
    BY <1>1, <1>2, <1>3 DEF AccountInv, ClientInv, PrivateInv, SingleInv
  <2>2. NodeInv(t)'
    BY <1>1, <1>2, <1>3 DEF AccountInv, NodeInv
  <2>3. MemberInv(t)'
    BY <1>1, <1>2, <1>6 DEF MemberInv
  <2> QED
    BY <2>1, <2>2, <2>3 DEF AccountInv
<1>8. NodesSame(t)
  BY <1>1, NodesUnchanged DEF Inv
<1>9. Inv'
  BY <1>1, <1>2, <1>5, <1>7, <1>8, ListStep
<1> QED
  BY <1>1, <1>2, <1>3, <1>5, <1>9

LEMMA NewJoinKeepsInv ==
  ASSUME Inv, NEW t \in Threads, NewJoin(t), isValidSession(sessionList, sessionCnt)
  PROVE  /\ Inv' /\ OthersSame(t) /\ pc[t] = "new3" /\ pc'[t] = "new4"
         /\ sessionCnt \in Ids \ MemberOf(t) /\ sessionCnt' = sessionCnt
         /\ \A n : isValidSession(sessionList', n) <=> isValidSession(sessionList, n)
         /\ \A u, n : In(sessionList', u, n) <=> In(sessionList, u, n) \/ (u = t /\ n = sessionCnt)
<1>1. /\ pc[t] = "new3" /\ pc' = [pc EXCEPT ![t] = "new4"]
      /\ sessionList' = join_session(sessionList, sessionCnt, t)
      /\ UNCHANGED <<arg, known, sessJoined, nodeSess, userLoggedin, sessionCnt>>
  BY DEF NewJoin, Step, Goto, private
<1> USE DEF Before, After, Settled, Counting, CreatingLabels, Parting
<1>2. OthersSame(t) /\ pc'[t] = "new4"
  BY <1>1 DEF OthersSame, Inv, ListInv
<1>3. /\ AccountInv(t) /\ sessionCnt \in Ids \ known[t] /\ MemberOf(t) = known[t]
      /\ Range(sessJoined[t]) = known[t] \cup {sessionCnt}
  BY <1>1 DEF Inv, ListInv, AccountInv, ClientInv, PrivateInv, MemberInv
<1>4. WellFormed(sessionList) /\ ~In(sessionList, t, sessionCnt)
  BY <1>3 DEF Inv, ListInv, MemberOf
<1>5. /\ WellFormed(sessionList')
      /\ \A n : isValidSession(sessionList', n) <=> isValidSession(sessionList, n)
      /\ \A u, n : In(sessionList', u, n) <=> In(sessionList, u, n) \/ (u = t /\ n = sessionCnt)
  BY <1>1, <1>4, JoinSessionIs
<1>6. MemberOf(t)' = known[t] \cup {sessionCnt}
  <2>1. MemberOf(t)' = {id \in Ids : In(sessionList', t, id)}
    BY DEF MemberOf
  <2>2. {id \in Ids : In(sessionList', t, id)} = MemberOf(t) \cup {sessionCnt}
    BY <1>3, <1>5 DEF MemberOf
  <2> QED
    BY <1>3, <2>1, <2>2
<1>7. AccountInv(t)'
  <2>1. ClientInv(t)' /\ PrivateInv(t)' /\ SingleInv(t)'
    BY <1>1, <1>2, <1>3 DEF AccountInv, ClientInv, PrivateInv, SingleInv
  <2>2. NodeInv(t)'
    BY <1>1, <1>2, <1>3 DEF AccountInv, NodeInv
  <2>3. MemberInv(t)'
    BY <1>1, <1>2, <1>3, <1>6 DEF MemberInv
  <2> QED
    BY <2>1, <2>2, <2>3 DEF AccountInv
<1>8. NodesSame(t)
  BY <1>1, NodesUnchanged DEF Inv
<1>9. Inv'
  BY <1>1, <1>2, <1>5, <1>7, <1>8, ListStep
<1> QED
  BY <1>1, <1>2, <1>3, <1>5, <1>9

\* No session has the number sessionCnt while nobody creates one.
LEMMA NewSessionKeepsInv ==
  ASSUME OneCreates, Inv, NEW t \in Threads, NewSession(t)
  PROVE  /\ Inv' /\ OthersSame(t) /\ pc[t] = "recv" /\ pc'[t] = "new2"
         /\ sessionCnt \in Ids /\ sessionCnt' = sessionCnt
         /\ Creating = {} /\ Creating' # {} /\ ~isValidSession(sessionList, sessionCnt)
         /\ \A n : isValidSession(sessionList', n) <=>
                     isValidSession(sessionList, n) \/ n = sessionCnt
         /\ \A u, n : In(sessionList', u, n) <=> In(sessionList, u, n)
<1>1. /\ pc[t] = "recv" /\ pc' = [pc EXCEPT ![t] = "new2"]
      /\ sessionList' = init_session(sessionList, sessionCnt)
      /\ "NEW_SESS" \in Commands[t] /\ Cardinality(known[t]) < MAX_SESSION
      /\ sessionCnt + Cardinality(Creating) <= MaxCreated
      /\ UNCHANGED <<arg, known, sessJoined, nodeSess, userLoggedin, sessionCnt>>
  BY DEF NewSession, Begin, Goto, private
<1> USE DEF Before, After, Settled, Counting, CreatingLabels, Parting
<1>2. OthersSame(t) /\ pc'[t] = "new2"
  BY <1>1 DEF OthersSame, Inv, ListInv
<1>3. Creating = {}
  <2>1. Serial => Alone(t)
    BY DEF NewSession, Begin, Alone
  <2> HIDE DEF CreatingLabels
  <2>2. \A u \in Threads \ {t} : pc[u] \notin CreatingLabels
    BY <1>1, <2>1, CreatorIs
  <2>3. pc[t] \notin CreatingLabels
    BY <1>1 DEF CreatingLabels, Counting
  <2> QED
    BY <2>2, <2>3, CreatingIs
<1>4. sessionCnt \in Ids /\ sessionCnt <= MaxCreated
  <2>1. Cardinality(Creating) = 0
    BY <1>3, FS_EmptySet
  <2>2. sessionCnt \in Ids
    BY DEF Inv, ListInv
  <2> QED
    BY <1>1, <2>1, <2>2 DEF Ids
<1>5. WellFormed(sessionList) /\ ~isValidSession(sessionList, sessionCnt)
  <2>1. ~(sessionCnt < sessionCnt)
    BY <1>4 DEF Ids
  <2> QED
    BY <1>3, <1>4, <2>1 DEF Inv, ListInv
<1>6. /\ WellFormed(sessionList')
      /\ \A n : isValidSession(sessionList', n) <=> isValidSession(sessionList, n) \/ n = sessionCnt
      /\ \A u, n : In(sessionList', u, n) <=> In(sessionList, u, n)
  BY <1>1, <1>4, <1>5, InitSessionIs
<1>7. MemberOf(t)' = MemberOf(t)
  BY <1>6 DEF MemberOf
<1>8. /\ AccountInv(t) /\ MemberOf(t) = known[t] /\ known[t] \in SUBSET Ids
      /\ Range(sessJoined[t]) = known[t]
  BY <1>1 DEF Inv, AccountInv, ClientInv, PrivateInv, MemberInv
<1>9. sessionCnt \notin known[t]
  BY <1>5, <1>8, InIsValid DEF MemberOf
<1>10. AccountInv(t)'
  <2>1. ClientInv(t)'
    BY <1>1, <1>2, <1>4, <1>8, <1>9 DEF AccountInv, ClientInv
  <2>2. PrivateInv(t)'
    BY <1>1, <1>2, <1>8 DEF AccountInv, PrivateInv
  <2>3. NodeInv(t)'
    BY <1>1, <1>2, <1>8 DEF AccountInv, NodeInv
  <2>4. MemberInv(t)'
    BY <1>1, <1>2, <1>7, <1>8 DEF MemberInv
  <2>5. SingleInv(t)'
    BY <1>1, <1>2, <1>8, NothingYet DEF AccountInv, SingleInv
  <2> QED
    BY <2>1, <2>2, <2>3, <2>4, <2>5 DEF AccountInv
<1>11. NodesSame(t)
  BY <1>1, NodesUnchanged DEF Inv
<1>12. Inv'
  BY <1>1, <1>2, <1>6, <1>10, <1>11, ListStep
<1>13. Creating' # {}
  BY <1>2 DEF Creating
<1> QED
  BY <1>1, <1>2, <1>3, <1>4, <1>5, <1>6, <1>12, <1>13

\* LEAVE_SESS in the first version, and EXIT, leave the sessions of the private
\* list one at a time: t is in each of them, and no assertion fails.
LEMMA HeadIsLeft ==
  ASSUME NamesApart, Inv, NEW t \in Threads,
         \/ LeaveNext(t)
         \/ LeaveAllSession(t) /\ sessJoined[t] # <<>>
  PROVE  /\ Inv' /\ UNCHANGED <<pc, sessionCnt>> /\ pc[t] \in {"leave", "leaving"}
         /\ OthersSame(t)
         /\ \E id \in Ids :
              /\ In(sessionList, t, id)
              /\ \A u, n : In(sessionList', u, n) <=> In(sessionList, u, n) /\ ~(u = t /\ n = id)
              /\ \A n : isValidSession(sessionList', n) <=>
                          /\ isValidSession(sessionList, n)
                          /\ ~(n = id /\ \A u \in Threads : In(sessionList, u, id) => u = t)
<1> DEFINE id == Head(sessJoined[t])
<1>1. /\ pc[t] \in {"leave", "leaving"} /\ sessJoined[t] # <<>> /\ sessJoined[t] \in Seq(Ids)
      /\ IsInjective(sessJoined[t]) /\ known[t] = {} /\ MemberOf(t) = Range(sessJoined[t])
      /\ AccountInv(t)
  <2>1. pc[t] \in {"leave", "leaving"} /\ sessJoined[t] # <<>>
    BY DEF LeaveNext, LeaveAllSession, Step
  <2> QED
    BY <2>1 DEF Inv, AccountInv, ClientInv, PrivateInv, MemberInv, Parting
<1>2. /\ id \in Ids /\ Tail(sessJoined[t]) \in Seq(Ids) /\ IsInjective(Tail(sessJoined[t]))
      /\ Range(Tail(sessJoined[t])) = MemberOf(t) \ {id}
      /\ id \in MemberOf(t)
  <2>1. /\ id \in Range(sessJoined[t]) /\ Tail(sessJoined[t]) \in Seq(Ids)
        /\ IsInjective(Tail(sessJoined[t]))
        /\ Range(Tail(sessJoined[t])) = Range(sessJoined[t]) \ {id}
    BY <1>1, TailIs
  <2> QED
    BY <1>1, <2>1 DEF MemberOf
<1>3. WellFormed(sessionList) /\ In(sessionList, t, id) /\ inSession(sessionList, id, t)
  <2>1. WellFormed(sessionList) /\ KnownBy(sessionList, t)
    BY <1>1, Apart DEF Inv, ListInv
  <2> QED
    BY <1>2, <2>1, inSessionIs DEF MemberOf
<1>4. /\ sessJoined' = [sessJoined EXCEPT ![t] = Tail(@)]
      /\ sessionList' = leave_session(sessionList, id, t)
      /\ UNCHANGED <<pc, arg, known, nodeSess, userLoggedin, sessionCnt>>
  <2>1. FirstNode(sessJoined[t]) = id
    BY <1>1 DEF FirstNode
  <2>2. CASE LeaveNext(t)
    BY <1>3, <2>2 DEF LeaveNext
  <2>3. CASE LeaveAllSession(t)
    BY <1>1, <1>3, <2>1, <2>3 DEF LeaveAllSession
  <2> QED
    BY <2>2, <2>3
<1>5. /\ WellFormed(sessionList')
      /\ \A u, n : In(sessionList', u, n) <=> In(sessionList, u, n) /\ ~(u = t /\ n = id)
      /\ \A n : isValidSession(sessionList', n) <=>
                  /\ isValidSession(sessionList, n)
                  /\ ~(n = id /\ \A u \in Threads : In(sessionList, u, id) => u = t)
  <2>1. KnownBy(sessionList, t)
    BY <1>1, Apart
  <2> QED
    BY <1>3, <1>4, <2>1, LeaveSessionIs
<1> HIDE DEF id
<1>6. OthersSame(t) /\ sessJoined'[t] = Tail(sessJoined[t])
  BY <1>4 DEF OthersSame, Inv, ListInv
<1>7. MemberOf(t)' = Range(sessJoined'[t])
  <2>1. MemberOf(t)' = {n \in Ids : In(sessionList', t, n)}
    BY DEF MemberOf
  <2>2. {n \in Ids : In(sessionList', t, n)} = MemberOf(t) \ {id}
    BY <1>5 DEF MemberOf
  <2> QED
    BY <1>2, <1>6, <2>1, <2>2
<1>8. AccountInv(t)'
  <2> USE DEF Before, After, Settled, Counting, CreatingLabels, Parting
  <2>1. ClientInv(t)' /\ SingleInv(t)'
    BY <1>1, <1>4 DEF AccountInv, ClientInv, SingleInv
  <2>2. PrivateInv(t)'
    BY <1>1, <1>2, <1>4, <1>6 DEF PrivateInv
  <2>3. NodeInv(t)'
    BY <1>1, <1>4 DEF AccountInv, NodeInv
  <2>4. MemberInv(t)'
    BY <1>1, <1>4, <1>7 DEF MemberInv
  <2> QED
    BY <2>1, <2>2, <2>3, <2>4 DEF AccountInv
<1>9. NodesSame(t)
  BY <1>4, NodesUnchanged DEF Inv
<1>10. Inv'
  <2>1. \A n \in Ids : isValidSession(sessionList', n) =>
          isValidSession(sessionList, n) \/ (n = sessionCnt /\ pc'[t] \in CreatingLabels)
    BY <1>5
  <2>2. \A u \in Threads \ {t} : \A n \in Ids :
          In(sessionList', u, n) <=> In(sessionList, u, n)
    BY <1>5
  <2> QED
    BY <1>4, <1>5, <1>6, <1>8, <1>9, <2>1, <2>2, ListStep
<1> QED
  BY <1>1, <1>2, <1>3, <1>4, <1>5, <1>6, <1>10

LEMMA LeaveAllEndsKeepsInv ==
  ASSUME Inv, NEW t \in Threads, LeaveAllSession(t), sessJoined[t] = <<>>
  PROVE  /\ Inv' /\ OthersSame(t) /\ pc[t] = "leave" /\ pc'[t] = "leaveRecord"
         /\ UNCHANGED <<sessionList, sessionCnt>>
<1>1. /\ pc[t] = "leave" /\ pc' = [pc EXCEPT ![t] = "leaveRecord"]
      /\ UNCHANGED <<arg, known, sessJoined, nodeSess, userLoggedin, sessionList, sessionCnt>>
  BY DEF LeaveAllSession, Step, Goto
<1>2. OthersSame(t) /\ pc'[t] = "leaveRecord"
  BY <1>1 DEF OthersSame, Inv, ListInv
<1>3. AccountInv(t)
  BY DEF Inv
<1> USE DEF Before, After, Settled, Counting, CreatingLabels, Parting
<1>4. ClientInv(t)' /\ SingleInv(t)' /\ PrivateInv(t)'
  BY <1>1, <1>2, <1>3 DEF AccountInv, ClientInv, SingleInv, PrivateInv
<1>5. NodeInv(t)'
  BY <1>1, <1>2, <1>3 DEF AccountInv, NodeInv
<1>6. MemberOf(t)' = MemberOf(t) => MemberInv(t)'
  BY <1>1, <1>2, <1>3 DEF AccountInv, MemberInv
<1>7. NodesSame(t)
  BY <1>1, NodesUnchanged DEF Inv
<1> QED
  BY <1>1, <1>2, <1>4, <1>5, <1>6, <1>7, QuietStep

-----------------------------------------------------------------------------
(***************************************************************************)
(* The first version keeps the invariant.                                  *)
(***************************************************************************)
LEMMA InitInv == Init => Inv
<1> SUFFICES ASSUME Init PROVE Inv
  OBVIOUS
<1> USE DEF Init
<1>1. ListInv
  <2>1. WellFormed(sessionList) /\ ~\E id : isValidSession(sessionList, id)
    BY DEF WellFormed, isValidSession
  <2>2. sessionCnt \in Ids
    BY ServerAssumption DEF Ids
  <2> QED
    BY <2>1, <2>2 DEF ListInv
<1>2. ASSUME NEW t \in Threads PROVE AccountInv(t)
  <2> USE DEF Before, After, Settled, Counting, CreatingLabels, Parting
  <2>1. MemberOf(t) = {}
    BY DEF MemberOf, In
  <2>2. ClientInv(t) /\ SingleInv(t)
    BY DEF ClientInv, SingleInv
  <2>3. PrivateInv(t) /\ NodeInv(t) /\ MemberInv(t)
    BY <2>1, RangeOfNone DEF PrivateInv, NodeInv, MemberInv
  <2> QED
    BY <2>2, <2>3 DEF AccountInv
<1> QED
  BY <1>1, <1>2 DEF Inv

\* Both versions share the steps of JOIN, NEW_SESS and EXIT.
SharedStep(t) ==
  \/ Accept(t) \/ LoginBranch(t) \/ JoinBranch(t) \/ NewBranch(t) \/ ExitBranch(t)

LEMMA StepUntouched ==
  ASSUME NEW t \in Threads,
         \/ AcceptTimeout \/ Abort \/ Reset(t)
  PROVE  UNCHANGED accounts
  BY DEF AcceptTimeout, Abort, Reset, accounts, shared, private

LEMMA SharedKeepsInv ==
  ASSUME NamesApart, OneCreates, Inv, NEW t \in Threads, SharedStep(t)
  PROVE  Inv'
<1>1. CASE \/ Accept(t) \/ Login(t) \/ HangUp(t) \/ LoginAdd(t) \/ LoginLink(t) \/ Reject(t)
           \/ Relink(t) \/ Uncount(t)
  BY <1>1, OutsideSteps
<1>2. CASE Reset(t)
  BY <1>2, StepUntouched, Untouched
<1>3. CASE \E id \in Ids : Join(t, id)
  BY <1>3, JoinKeepsInv
<1>4. CASE JoinSession(t)
  <2>1. isValidSession(sessionList, arg[t]) \/ Abort
    BY <1>4 DEF JoinSession
  <2> QED
    BY <1>4, <2>1, JoinSessionKeepsInv, StepUntouched, Untouched
<1>5. CASE JoinRecord(t)
  BY <1>5, JoinRecordKeepsInv
<1>6. CASE NewSession(t)
  BY <1>6, NewSessionKeepsInv
<1>7. CASE NewPrivate(t)
  BY <1>7, NewPrivateKeepsInv
<1>8. CASE NewJoin(t)
  <2>1. isValidSession(sessionList, sessionCnt) \/ Abort
    BY <1>8 DEF NewJoin
  <2> QED
    BY <1>8, <2>1, NewJoinKeepsInv, StepUntouched, Untouched
<1>9. CASE NewRecord(t)
  BY <1>9, NewRecordKeepsInv
<1>10. CASE NewAnswer(t)
  BY <1>10, NewAnswerKeepsInv
<1>11. CASE NewCount(t)
  BY <1>11, NewCountKeepsInv
<1>12. CASE Exit(t)
  BY <1>12, PartKeepsInv
<1>13. CASE LeaveNext(t)
  BY <1>13, HeadIsLeft
<1>14. CASE Unlink(t)
  BY <1>14, UnlinkKeepsInv
<1> QED
  BY <1>1, <1>2, <1>3, <1>4, <1>5, <1>6, <1>7, <1>8, <1>9, <1>10, <1>11, <1>12, <1>13, <1>14
     DEF SharedStep, LoginBranch, JoinBranch, NewBranch, ExitBranch

LEMMA Lab1KeepsInv ==
  ASSUME Terms, Orderly, Inv, [Lab1Next]_vars
  PROVE  Inv'
<1>1. CASE AcceptTimeout \/ UNCHANGED vars
  <2>1. UNCHANGED accounts
    BY <1>1 DEF AcceptTimeout, vars, accounts, shared, private
  <2> QED
    BY <2>1, Untouched
<1>2. ASSUME NEW t \in Threads, SharedStep(t) PROVE Inv'
  BY <1>2, TermsGive, SharedKeepsInv
<1>3. ASSUME NEW t \in Threads, LeaveBranch(t) PROVE Inv'
  <2>1. CASE LeaveAll(t)
    BY <2>1, PartKeepsInv
  <2>2. CASE LeaveAllSession(t)
    BY <2>2, TermsGive, HeadIsLeft, LeaveAllEndsKeepsInv
  <2>3. CASE LeaveAllRecord(t)
    BY <2>3, TermsGive, LeaveAllRecordKeepsInv
  <2> QED
    BY <1>3, <2>1, <2>2, <2>3 DEF LeaveBranch
<1>4. ASSUME NEW t \in Threads, MessageBranch(t) PROVE Inv'
  BY <1>4, MessageKeepsInv DEF MessageBranch
<1> QED
  BY <1>1, <1>2, <1>3, <1>4 DEF Lab1Next, SharedStep

\* The invariant says what the runs check.
LEMMA InvAgrees == Inv => ListsAgree
<1> SUFFICES ASSUME Inv, NEW t \in Threads, pc[t] = "recv"
             PROVE  /\ known[t] = Range(sessJoined[t])
                    /\ \A id \in Ids : Member(t, id) <=> id \in known[t]
                    /\ Contains(userLoggedin, t) => Range(nodeSess[t]) = known[t]
  BY DEF ListsAgree, Ready
<1>1. AccountInv(t)
  BY DEF Inv
<1>2. known[t] = Range(sessJoined[t]) /\ MemberOf(t) = known[t]
  BY <1>1 DEF AccountInv, PrivateInv, MemberInv, Settled
<1>3. \A id : Member(t, id) <=> In(sessionList, t, id)
  BY DEF Member, In
<1>4. known[t] \in SUBSET Ids
  BY <1>1 DEF AccountInv, ClientInv
<1>5. Contains(userLoggedin, t) => Range(nodeSess[t]) = known[t]
  BY <1>1 DEF AccountInv, NodeInv, Settled
<1> QED
  BY <1>2, <1>3, <1>4, <1>5 DEF MemberOf

LEMMA InvBroadcasts == Inv => BroadcastFindsSender
<1> SUFFICES ASSUME Inv, NEW t \in Threads, pc[t] = "send", NEW id \in ToSet(sessJoined[t])
             PROVE  Member(t, id)
  BY DEF BroadcastFindsSender
<1>1. id \in Range(sessJoined[t])
  BY DEF ToSet, Range
<1>2. MemberOf(t) = Range(sessJoined[t])
  BY DEF Inv, AccountInv, MemberInv
<1> QED
  BY <1>1, <1>2 DEF MemberOf, Member, In

LEMMA Lab1Invariance == Terms => (Lab1Spec => [](Orderly /\ Inv))
<1> SUFFICES ASSUME Terms PROVE Lab1Spec => [](Orderly /\ Inv)
  OBVIOUS
<1>1. Orderly /\ Inv /\ [Lab1Next]_vars => Inv'
  BY Lab1KeepsInv
<1>2. Orderly /\ [Lab1Next]_vars => Orderly'
  BY SerialLab1Next DEF Orderly
<1>3. Init => Orderly
  BY SerialInit DEF Orderly
<1> QED
  BY <1>1, <1>2, <1>3, InitInv, PTL DEF Lab1Spec

\* In the first version the client, the thread, the shared list and the node in
\* userLoggedin agree on who is in which session whenever the thread waits for
\* a request (LAB1/server.c:79): whatever the other threads are doing, if names
\* differ and one connection creates; with any names if requests are serial.
THEOREM Lab1Accounts == Terms => (Lab1Spec => []ListsAgree)
  BY Lab1Invariance, InvAgrees, PTL

\* In the first version no session of the sender disappears while the message
\* goes to all of them, one after the other (LAB1/server.c:303).
THEOREM Lab1Broadcast == Terms => (Lab1Spec => []BroadcastFindsSender)
  BY Lab1Invariance, InvBroadcasts, PTL

-----------------------------------------------------------------------------
(***************************************************************************)
(* The abstract conference: what a step does to its three variables.       *)
(***************************************************************************)
OnlineNow == {t \in Threads : Online(t)}
StatesNow == [id \in Ids |-> State(id)]
MembersNow == [id \in Ids |-> {t \in Threads : Member(t, id)}]

\* A number is in use from init_session() on.
Used(id) == id < sessionCnt \/ (id = sessionCnt /\ Creating # {})

LEMMA StateIs ==
  ASSUME NEW id
  PROVE  /\ State(id) = IF isValidSession(sessionList, id) THEN "open"
                        ELSE IF Used(id) THEN "closed" ELSE "unused"
         /\ State(id)' = IF isValidSession(sessionList', id) THEN "open"
                         ELSE IF Used(id)' THEN "closed" ELSE "unused"
  BY DEF State, Used

LEMMA MembersIs ==
  /\ MembersNow = [id \in Ids |-> {t \in Threads : In(sessionList, t, id)}]
  /\ MembersNow' = [id \in Ids |-> {t \in Threads : In(sessionList', t, id)}]
  BY DEF MembersNow, Member, In

LEMMA OnlineIs ==
  ASSUME NEW t \in Threads, OthersSame(t)
  PROVE  /\ (Online(t)' <=> Online(t)) => OnlineNow' = OnlineNow
         /\ ~Online(t) /\ Online(t)' => t \notin OnlineNow /\ OnlineNow' = OnlineNow \cup {t}
         /\ Online(t) /\ ~Online(t)' => t \in OnlineNow /\ OnlineNow' = OnlineNow \ {t}
<1>1. \A u \in Threads \ {t} : Online(u)' <=> Online(u)
  BY DEF OthersSame, Online
<1>2. OnlineNow' = {u \in Threads : Online(u)'}
  BY DEF OnlineNow
<1> QED
  BY <1>1, <1>2 DEF OnlineNow

LEMMA CreatingSame ==
  ASSUME NEW t \in Threads, OthersSame(t), pc'[t] \in CreatingLabels <=> pc[t] \in CreatingLabels
  PROVE  Creating' = Creating
<1>1. \A u \in Threads : pc'[u] \in CreatingLabels <=> pc[u] \in CreatingLabels
  BY DEF OthersSame
<1>2. Creating' = {u \in Threads : pc'[u] \in CreatingLabels}
  BY DEF Creating, CreatingLabels, Counting
<1> QED
  BY <1>1, <1>2, CreatingIs

\* A step that leaves the sessions alone.
LEMMA QuietMaps ==
  ASSUME NEW t \in Threads, OthersSame(t), UNCHANGED <<sessionList, sessionCnt>>,
         pc'[t] \in CreatingLabels <=> pc[t] \in CreatingLabels
  PROVE  UNCHANGED <<StatesNow, MembersNow>>
<1>1. Creating' = Creating
  BY CreatingSame
<1>2. \A id : State(id)' = State(id)
  BY <1>1, StateIs DEF Used
<1> QED
  BY <1>2, MembersIs DEF StatesNow

LEMMA UntouchedMaps ==
  ASSUME UNCHANGED accounts
  PROVE  UNCHANGED <<OnlineNow, StatesNow, MembersNow>>
  BY DEF accounts, OnlineNow, Online, StatesNow, State, MembersNow, Member, Creating

LEMMA Stutters ==
  ASSUME UNCHANGED <<OnlineNow, StatesNow, MembersNow>>
  PROVE  [Promise!Next]_(Promise!vars)
  BY DEF OnlineNow, StatesNow, MembersNow, Promise!vars

LEMMA LogInMaps ==
  ASSUME NEW t \in Threads, OthersSame(t), UNCHANGED <<sessionList, sessionCnt>>,
         pc[t] = "loginLink", pc'[t] = "recv"
  PROVE  Promise!LogIn(t)
<1>1. t \notin OnlineNow /\ OnlineNow' = OnlineNow \cup {t}
  BY OnlineIs DEF Online
<1>2. UNCHANGED <<StatesNow, MembersNow>>
  BY QuietMaps DEF CreatingLabels, Counting
<1> QED
  BY <1>1, <1>2 DEF Promise!LogIn, OnlineNow, StatesNow, MembersNow

LEMMA LogOutMaps ==
  ASSUME NEW t \in Threads, OthersSame(t), UNCHANGED <<sessionList, sessionCnt>>,
         pc[t] = "leaving", pc'[t] = "relink", MemberOf(t) = {}
  PROVE  Promise!LogOut(t)
<1>1. t \in OnlineNow /\ OnlineNow' = OnlineNow \ {t}
  BY OnlineIs DEF Online
<1>2. UNCHANGED <<StatesNow, MembersNow>>
  BY QuietMaps DEF CreatingLabels, Counting
<1>3. \A n \in Ids : t \notin MembersNow[n]
  BY MembersIs DEF MemberOf
<1> QED
  BY <1>1, <1>2, <1>3 DEF Promise!LogOut, OnlineNow, StatesNow, MembersNow

LEMMA CreateMaps ==
  ASSUME OneCreates, Inv, NEW t \in Threads, NewSession(t)
  PROVE  sessionCnt \in Ids /\ Promise!Create(sessionCnt)
<1>1. /\ Inv' /\ OthersSame(t) /\ pc[t] = "recv" /\ pc'[t] = "new2"
      /\ sessionCnt \in Ids /\ sessionCnt' = sessionCnt
      /\ Creating = {} /\ Creating' # {} /\ ~isValidSession(sessionList, sessionCnt)
      /\ \A n : isValidSession(sessionList', n) <=> isValidSession(sessionList, n) \/ n = sessionCnt
      /\ \A u, n : In(sessionList', u, n) <=> In(sessionList, u, n)
  BY NewSessionKeepsInv
<1>2. OnlineNow' = OnlineNow
  BY <1>1, OnlineIs DEF Online
<1>3. MembersNow' = MembersNow
  BY <1>1, MembersIs
<1>4. State(sessionCnt) = "unused"
  <2>1. ~(sessionCnt < sessionCnt)
    BY <1>1 DEF Ids
  <2> QED
    BY <1>1, <2>1, StateIs DEF Used
<1>5. State(sessionCnt)' = "open"
  BY <1>1, StateIs
<1>6. ASSUME NEW n \in Ids, n # sessionCnt PROVE State(n)' = State(n)
  BY <1>1, <1>6, StateIs DEF Used
<1>7. StatesNow[sessionCnt] = "unused" /\ StatesNow' = [StatesNow EXCEPT ![sessionCnt] = "open"]
  <2>1. StatesNow' = [n \in Ids |-> State(n)']
    BY DEF StatesNow
  <2> QED
    BY <1>1, <1>4, <1>5, <1>6, <2>1 DEF StatesNow
<1> QED
  BY <1>1, <1>2, <1>3, <1>7 DEF Promise!Create, OnlineNow, StatesNow, MembersNow

LEMMA JoinMaps ==
  ASSUME NEW t \in Threads, NEW n \in Ids, OthersSame(t), sessionCnt' = sessionCnt,
         \/ pc[t] = "join" /\ pc'[t] = "joinRecord"
         \/ pc[t] = "new3" /\ pc'[t] = "new4",
         n \notin MemberOf(t), isValidSession(sessionList, n),
         \A m : isValidSession(sessionList', m) <=> isValidSession(sessionList, m),
         \A u, m : In(sessionList', u, m) <=> In(sessionList, u, m) \/ (u = t /\ m = n)
  PROVE  Promise!Join(t, n)
<1>1. t \in OnlineNow /\ OnlineNow' = OnlineNow
  <2>1. Online(t) /\ Online(t)'
    BY DEF Online
  <2> QED
    BY <2>1, OnlineIs DEF OnlineNow
<1>2. StatesNow' = StatesNow
  <2>1. Creating' = Creating
    BY CreatingSame DEF CreatingLabels, Counting
  <2>2. \A m : State(m)' = State(m)
    BY <2>1, StateIs DEF Used
  <2> QED
    BY <2>2 DEF StatesNow
<1>3. StatesNow[n] = "open"
  BY StateIs DEF StatesNow
<1>4. t \notin MembersNow[n] /\ MembersNow' = [MembersNow EXCEPT ![n] = @ \cup {t}]
  <2>1. t \notin MembersNow[n]
    BY MembersIs DEF MemberOf
  <2>2. \A m \in Ids : {u \in Threads : In(sessionList', u, m)} =
                        {u \in Threads : In(sessionList, u, m)} \cup (IF m = n THEN {t} ELSE {})
    OBVIOUS
  <2>3. \A m \in Ids : MembersNow'[m] = IF m = n THEN MembersNow[n] \cup {t} ELSE MembersNow[m]
    BY <2>2, MembersIs
  <2>4. MembersNow' = [m \in Ids |-> MembersNow'[m]] /\ MembersNow = [m \in Ids |-> MembersNow[m]]
    BY MembersIs
  <2> QED
    BY <2>1, <2>3, <2>4
<1> QED
  BY <1>1, <1>2, <1>3, <1>4 DEF Promise!Join, OnlineNow, StatesNow, MembersNow

LEMMA LeaveMaps ==
  ASSUME Inv, NEW t \in Threads, NEW n \in Ids, UNCHANGED <<pc, sessionCnt>>,
         In(sessionList, t, n),
         \A u, m : In(sessionList', u, m) <=> In(sessionList, u, m) /\ ~(u = t /\ m = n),
         \A m : isValidSession(sessionList', m) <=>
                  /\ isValidSession(sessionList, m)
                  /\ ~(m = n /\ \A u \in Threads : In(sessionList, u, n) => u = t)
  PROVE  Promise!Leave(t, n)
<1>1. OnlineNow' = OnlineNow
  BY DEF OnlineNow, Online
<1>2. t \in MembersNow[n] /\ MembersNow' = [MembersNow EXCEPT ![n] = @ \ {t}]
  BY MembersIs
<1>3. Used(n) /\ \A m : Used(m)' <=> Used(m)
  <2>1. isValidSession(sessionList, n)
    BY InIsValid
  <2> QED
    BY <2>1 DEF Inv, ListInv, Used, Creating
<1>4. MembersNow[n] = {t} <=> \A u \in Threads : In(sessionList, u, n) => u = t
  BY MembersIs
<1>5. StatesNow' = IF MembersNow[n] = {t} THEN [StatesNow EXCEPT ![n] = "closed"] ELSE StatesNow
  <2>1. StatesNow' = [m \in Ids |-> State(m)']
    BY DEF StatesNow
  <2>2. \A m \in Ids : m # n => State(m)' = State(m)
    BY <1>3, StateIs
  <2>3. State(n)' = IF MembersNow[n] = {t} THEN "closed" ELSE State(n)
    BY <1>3, <1>4, StateIs
  <2> QED
    BY <2>1, <2>2, <2>3 DEF StatesNow
<1> QED
  BY <1>1, <1>2, <1>5 DEF Promise!Leave, OnlineNow, StatesNow, MembersNow

LEMMA SharedMaps ==
  ASSUME NamesApart, OneCreates, Inv, NEW t \in Threads, SharedStep(t)
  PROVE  [Promise!Next]_(Promise!vars)
<1> USE DEF CreatingLabels, Counting
<1>1. CASE LoginLink(t)
  <2>1. OthersSame(t) /\ UNCHANGED <<sessionList, sessionCnt>>
    BY <1>1, OutsideSteps
  <2>2. pc[t] = "loginLink" /\ pc'[t] = "recv"
    BY <1>1 DEF LoginLink, Step, Goto, Inv, ListInv
  <2>3. Promise!LogIn(t)
    BY <2>1, <2>2, LogInMaps
  <2> QED
    BY <2>3 DEF Promise!Next
<1>2. CASE \/ Accept(t) \/ Login(t) \/ HangUp(t) \/ LoginAdd(t) \/ Reject(t)
           \/ Relink(t) \/ Uncount(t)
  <2>1. OthersSame(t) /\ UNCHANGED <<sessionList, sessionCnt>>
    BY <1>2, OutsideSteps
  <2>2. /\ Online(t)' <=> Online(t)
        /\ pc'[t] \in CreatingLabels <=> pc[t] \in CreatingLabels
    BY <1>2 DEF Online, Step, Begin, Goto, Inv, ListInv,
                Accept, Login, HangUp, LoginAdd, Reject, Relink, Uncount
  <2> QED
    BY <2>1, <2>2, OnlineIs, QuietMaps, Stutters
<1>3. CASE Reset(t)
  BY <1>3, StepUntouched, UntouchedMaps, Stutters
<1>4. CASE \/ \E id \in Ids : Join(t, id)
           \/ JoinRecord(t) \/ NewPrivate(t) \/ NewRecord(t) \/ NewAnswer(t) \/ Exit(t)
  <2>1. OthersSame(t)
    BY <1>4, JoinKeepsInv, JoinRecordKeepsInv, NewPrivateKeepsInv, NewRecordKeepsInv,
       NewAnswerKeepsInv, PartKeepsInv
  <2>2. UNCHANGED <<sessionList, sessionCnt>>
    BY <1>4 DEF Join, JoinRecord, NewPrivate, NewRecord, NewAnswer, Exit, shared
  <2>3. /\ Online(t)' <=> Online(t)
        /\ pc'[t] \in CreatingLabels <=> pc[t] \in CreatingLabels
    BY <1>4 DEF Online, Step, Begin, Goto, Return, Inv, ListInv,
                Join, JoinRecord, NewPrivate, NewRecord, NewAnswer, Exit
  <2> QED
    BY <2>1, <2>2, <2>3, OnlineIs, QuietMaps, Stutters
<1>5. CASE JoinSession(t)
  <2>1. CASE isValidSession(sessionList, arg[t])
    <3>1. Promise!Join(t, arg[t]) /\ arg[t] \in Ids
      BY <1>5, <2>1, JoinSessionKeepsInv, JoinMaps
    <3> QED
      BY <3>1 DEF Promise!Next
  <2>2. CASE ~isValidSession(sessionList, arg[t])
    BY <1>5, <2>2, StepUntouched, UntouchedMaps, Stutters DEF JoinSession
  <2> QED
    BY <2>1, <2>2
<1>6. CASE NewSession(t)
  <2>1. sessionCnt \in Ids /\ Promise!Create(sessionCnt)
    BY <1>6, CreateMaps
  <2> QED
    BY <2>1 DEF Promise!Next
<1>7. CASE NewJoin(t)
  <2>1. CASE isValidSession(sessionList, sessionCnt)
    <3>1. Promise!Join(t, sessionCnt) /\ sessionCnt \in Ids
      BY <1>7, <2>1, NewJoinKeepsInv, JoinMaps
    <3> QED
      BY <3>1 DEF Promise!Next
  <2>2. CASE ~isValidSession(sessionList, sessionCnt)
    BY <1>7, <2>2, StepUntouched, UntouchedMaps, Stutters DEF NewJoin
  <2> QED
    BY <2>1, <2>2
<1>8. CASE NewCount(t)
  <2>1. /\ OthersSame(t) /\ pc[t] = "new6" /\ pc'[t] = "recv"
        /\ sessionList' = sessionList /\ sessionCnt' = sessionCnt + 1 /\ Creating' = {}
    BY <1>8, NewCountKeepsInv
  <2>2. OnlineNow' = OnlineNow
    BY <2>1, OnlineIs DEF Online
  <2>3. \A id \in Ids : Used(id)' <=> Used(id)
    <3>1. Creating # {} /\ sessionCnt \in Ids
      BY <2>1 DEF Creating, Inv, ListInv
    <3>2. \A id \in Ids : id < sessionCnt + 1 <=> id < sessionCnt \/ id = sessionCnt
      BY <3>1 DEF Ids
    <3> QED
      BY <2>1, <3>1, <3>2 DEF Used
  <2>4. \A id \in Ids : State(id)' = State(id)
    BY <2>1, <2>3, StateIs
  <2>5. StatesNow' = StatesNow /\ MembersNow' = MembersNow
    BY <2>1, <2>4, MembersIs DEF StatesNow
  <2> QED
    BY <2>2, <2>5, Stutters
<1>9. CASE LeaveNext(t)
  <2>1. PICK id \in Ids : Promise!Leave(t, id)
    BY <1>9, HeadIsLeft, LeaveMaps
  <2> QED
    BY <2>1 DEF Promise!Next
<1>10. CASE Unlink(t)
  <2>1. Promise!LogOut(t)
    BY <1>10, UnlinkKeepsInv, LogOutMaps
  <2> QED
    BY <2>1 DEF Promise!Next
<1> QED
  BY <1>1, <1>2, <1>3, <1>4, <1>5, <1>6, <1>7, <1>8, <1>9, <1>10
     DEF SharedStep, LoginBranch, JoinBranch, NewBranch, ExitBranch

LEMMA InitMaps == Init => Promise!Init
<1> SUFFICES ASSUME Init PROVE Promise!Init
  OBVIOUS
<1> USE DEF Init
<1>1. OnlineNow = {}
  BY DEF OnlineNow, Online
<1>2. \A id \in Ids : State(id) = "unused"
  <2>1. \A id : ~isValidSession(sessionList, id)
    BY DEF isValidSession
  <2>2. \A id \in Ids : ~(id < 1)
    BY DEF Ids
  <2>3. Creating = {}
    BY DEF Creating
  <2> QED
    BY <2>1, <2>2, <2>3, StateIs DEF Used
<1>3. \A id \in Ids : {t \in Threads : In(sessionList, t, id)} = {}
  BY DEF In
<1>4. MembersNow = [id \in Ids |-> {}]
  BY <1>3, MembersIs
<1>5. StatesNow = [id \in Ids |-> "unused"]
  BY <1>2 DEF StatesNow
<1> QED
  BY <1>1, <1>4, <1>5 DEF Promise!Init, OnlineNow, StatesNow, MembersNow

LEMMA Lab1Maps ==
  ASSUME Terms, Orderly, Inv, [Lab1Next]_vars
  PROVE  [Promise!Next]_(Promise!vars)
<1>1. CASE AcceptTimeout \/ UNCHANGED vars
  <2>1. UNCHANGED accounts
    BY <1>1 DEF AcceptTimeout, vars, accounts, shared, private
  <2> QED
    BY <2>1, UntouchedMaps, Stutters
<1>2. ASSUME NEW t \in Threads, SharedStep(t) PROVE [Promise!Next]_(Promise!vars)
  BY <1>2, TermsGive, SharedMaps
<1>3. ASSUME NEW t \in Threads,
             \/ LeaveAll(t) \/ LeaveAllRecord(t) \/ MessageBranch(t)
             \/ LeaveAllSession(t) /\ sessJoined[t] = <<>>
      PROVE  [Promise!Next]_(Promise!vars)
  <2>1. OthersSame(t)
    BY <1>3, TermsGive, PartKeepsInv, LeaveAllRecordKeepsInv, MessageKeepsInv, LeaveAllEndsKeepsInv
       DEF MessageBranch
  <2>2. UNCHANGED <<sessionList, sessionCnt>>
    BY <1>3 DEF LeaveAll, LeaveAllRecord, MessageBranch, MessageAll, SendNextOfAll,
                LeaveAllSession, shared
  <2>3. /\ Online(t)' <=> Online(t)
        /\ pc'[t] \in CreatingLabels <=> pc[t] \in CreatingLabels
    BY <1>3 DEF CreatingLabels, Counting, Online, Step, Begin, Goto, Return, Inv, ListInv,
                LeaveAll, LeaveAllRecord, MessageBranch, MessageAll, SendNextOfAll, LeaveAllSession
  <2> QED
    BY <2>1, <2>2, <2>3, OnlineIs, QuietMaps, Stutters
<1>4. ASSUME NEW t \in Threads, LeaveAllSession(t), sessJoined[t] # <<>>
      PROVE  [Promise!Next]_(Promise!vars)
  <2>1. PICK id \in Ids : Promise!Leave(t, id)
    BY <1>4, TermsGive, HeadIsLeft, LeaveMaps
  <2> QED
    BY <2>1 DEF Promise!Next
<1> QED
  BY <1>1, <1>2, <1>3, <1>4 DEF Lab1Next, SharedStep, LeaveBranch

\* The first version implements the abstract conference: whatever the threads do
\* at once, members are online, a departure takes out one user of one session at
\* a time, a session closes with its last member (user.h:235), and no number is
\* used twice (LAB1/server.c:249).
THEOREM Lab1Refinement == Terms => (Lab1Spec => Implements)
<1> SUFFICES ASSUME Terms PROVE Lab1Spec => Implements
  OBVIOUS
<1>1. Orderly /\ Inv /\ [Lab1Next]_vars => [Promise!Next]_(Promise!vars)
  BY Lab1Maps
<1> QED
  BY <1>1, Lab1Invariance, InitMaps, PTL DEF Lab1Spec, Implements, Promise!Spec

-----------------------------------------------------------------------------
(***************************************************************************)
(* The second version leaves one session at a time.  The request names it, *)
(* and it is struck off the private list, the shared list and the node.    *)
(***************************************************************************)
LeaveInv(t) ==
  /\ pc[t] = "leave" => arg[t] \in Ids /\ Range(sessJoined[t]) \subseteq {arg[t]}
  /\ Contains(userLoggedin, t) =>
       /\ pc[t] \in {"leave", "leaveRecord"} => Range(nodeSess[t]) = {arg[t]}
       /\ pc[t] = "leaveUnlock" => nodeSess[t] = <<>>

Inv2 == Inv /\ \A t \in Threads : LeaveInv(t)

LEMMA LeaveKept ==
  ASSUME Inv2, NEW t \in Threads, OthersSame(t), NodesSame(t), LeaveInv(t)'
  PROVE  \A u \in Threads : LeaveInv(u)'
<1> SUFFICES ASSUME NEW u \in Threads \ {t} PROVE LeaveInv(u)'
  OBVIOUS
<1>1. Contains(userLoggedin, u)' => Contains(userLoggedin, u)
  BY OthersListed DEF Inv2, Inv
<1>2. LeaveInv(u)
  BY DEF Inv2
<1> QED
  BY <1>1, <1>2 DEF LeaveInv, OthersSame

LEMMA ElsewhereKept ==
  ASSUME Inv2, NEW t \in Threads, OthersSame(t), NodesSame(t), pc'[t] \notin LeaveLabels
  PROVE  \A u \in Threads : LeaveInv(u)'
<1>1. LeaveInv(t)'
  BY DEF LeaveInv, LeaveLabels
<1> QED
  BY <1>1, LeaveKept

LEMMA UntouchedLeaves ==
  ASSUME Inv2, UNCHANGED accounts
  PROVE  Inv2'
<1>1. \A t \in Threads : LeaveInv(t)'
  BY DEF Inv2, LeaveInv, accounts
<1> QED
  BY <1>1, Untouched DEF Inv2

\* A sequence without repetitions that has nothing but e.
LEMMA OnlyOne ==
  ASSUME NEW S, NEW s \in Seq(S), IsInjective(s), NEW e, Range(s) \subseteq {e}
  PROVE  s = <<>> \/ (Len(s) = 1 /\ s[1] = e /\ s # <<>>)
<1>1. Len(s) \in Nat /\ DOMAIN s = 1 .. Len(s)
  BY LenProperties
<1>2. \A i, k \in 1 .. Len(s) : i = k
  <2>1. \A i \in DOMAIN s : s[i] = e
    BY DEF Range
  <2> QED
    BY <1>1, <2>1 DEF IsInjective
<1>3. Len(s) = 0 \/ Len(s) = 1
  <2>1. ASSUME Len(s) > 1 PROVE FALSE
    <3>1. 1 \in 1 .. Len(s) /\ 2 \in 1 .. Len(s)
      BY <1>1, <2>1
    <3> QED
      BY <1>2, <3>1
  <2> QED
    BY <1>1, <2>1
<1>4. CASE Len(s) = 0
  BY <1>4, EmptySeq
<1>5. CASE Len(s) = 1
  <2>1. s[1] = e
    BY <1>1, <1>5 DEF Range
  <2> QED
    BY <1>5, <2>1, EmptySeq
<1> QED
  BY <1>3, <1>4, <1>5

LEMMA LeaveKeepsInv ==
  ASSUME LeavesOnly, Inv2, NEW t \in Threads, NEW id \in Ids, Leave(t, id)
  PROVE  Inv2' /\ OthersSame(t) /\ pc[t] = "recv" /\ pc'[t] = "leave"
<1>1. /\ pc[t] = "recv" /\ pc' = [pc EXCEPT ![t] = "leave"] /\ id \in known[t]
      /\ "LEAVE_SESS" \in Commands[t] \/ known[t] = {id}
      /\ known' = [known EXCEPT ![t] = @ \ {id}] /\ arg' = [arg EXCEPT ![t] = id]
      /\ UNCHANGED <<sessJoined, nodeSess, userLoggedin, sessionList, sessionCnt>>
  BY DEF Leave, Begin, Goto, shared
<1>2. AccountInv(t) /\ Inv
  BY DEF Inv2, Inv
<1>3. known[t] = {id}
  BY <1>1, <1>2 DEF LeavesOnly, AccountInv, SingleInv
<1>4. OthersSame(t) /\ pc'[t] = "leave" /\ known'[t] = {} /\ arg'[t] = id
  BY <1>1, <1>3 DEF OthersSame, Inv2, Inv, ListInv
<1>5. Inv'
  BY <1>1, <1>2, <1>4, Listening
<1>6. LeaveInv(t)'
  <2>1. Range(sessJoined[t]) = {id} /\ (Contains(userLoggedin, t) => Range(nodeSess[t]) = {id})
    BY <1>1, <1>2, <1>3 DEF AccountInv, PrivateInv, NodeInv, Settled
  <2> QED
    BY <1>1, <1>4, <2>1 DEF LeaveInv
<1>7. NodesSame(t)
  BY <1>1, <1>2, NodesUnchanged DEF Inv
<1> QED
  BY <1>1, <1>4, <1>5, <1>6, <1>7, LeaveKept DEF Inv2

\* The session asked for is the only one in the private list, or it has been
\* struck off already.
LEMMA LeaveSessionFinds ==
  ASSUME NamesApart, Inv2, NEW t \in Threads, pc[t] = "leave", NEW i,
         i = SelectInSeq(sessJoined[t], LAMBDA id : id = arg[t])
  PROVE  /\ arg[t] \in Ids
         /\ i = 0 => sessJoined[t] = <<>>
         /\ i # 0 => /\ SubSeq(sessJoined[t], i + 1, Len(sessJoined[t])) = <<>>
                     /\ MemberOf(t) = {arg[t]}
<1> DEFINE s == sessJoined[t]
           I == {k \in 1 .. Len(s) : s[k] = arg[t]}
<1>1. /\ s \in Seq(Ids) /\ IsInjective(s) /\ Range(s) \subseteq {arg[t]} /\ arg[t] \in Ids
      /\ MemberOf(t) = Range(s)
  BY DEF Inv2, Inv, LeaveInv, AccountInv, PrivateInv, MemberInv
<1>2. s = <<>> \/ (Len(s) = 1 /\ s[1] = arg[t] /\ s # <<>>)
  <2> HIDE DEF s
  <2> QED
    BY <1>1, OnlyOne
<1>3. CASE s = <<>>
  <2>1. I = {}
    BY <1>3
  <2>2. i = 0
    BY <2>1 DEF SelectInSeq
  <2> QED
    BY <1>1, <1>3, <2>2
<1>4. CASE Len(s) = 1 /\ s[1] = arg[t]
  <2>1. I = {1}
    BY <1>4
  <2>2. i = Min(I)
    BY <2>1 DEF SelectInSeq
  <2>3. Min(I) \in I
    <3> HIDE DEF I
    <3> QED
      BY <2>1, MinIs
  <2>4. i = 1
    BY <2>1, <2>2, <2>3
  <2>5. SubSeq(s, 2, 1) = <<>>
    <3>1. /\ SubSeq(s, 2, 1) \in Seq(Ids)
          /\ Len(SubSeq(s, 2, 1)) = IF 2 <= 1 THEN 1 - 2 + 1 ELSE 0
      <4>1. \A k \in 2 .. 1 : s[k] \in Ids
        OBVIOUS
      <4> HIDE DEF s
      <4> QED
        BY <1>1, <4>1, SubSeqProperties
    <3> HIDE DEF s
    <3> QED
      BY <3>1, EmptySeq
  <2>6. Range(s) = {arg[t]}
    <3>1. 1 \in DOMAIN s
      BY <1>1, <1>4, LenProperties
    <3> HIDE DEF s
    <3> QED
      BY <1>1, <1>4, <3>1 DEF Range
  <2>7. i + 1 = 2 /\ i # 0
    BY <2>4
  <2>8. SubSeq(s, i + 1, Len(s)) = <<>>
    BY <1>4, <2>5, <2>7
  <2> QED
    BY <1>1, <2>6, <2>7, <2>8
<1> QED
  BY <1>2, <1>3, <1>4

LEMMA LeaveSessionKeepsInv ==
  ASSUME NamesApart, Inv2, NEW t \in Threads, LeaveSession(t)
  PROVE  /\ Inv2' /\ OthersSame(t) /\ pc[t] = "leave" /\ sessionCnt' = sessionCnt
         /\ \/ pc'[t] = "leaveRecord" /\ sessionList' = sessionList
            \/ /\ pc' = pc /\ arg[t] \in Ids /\ In(sessionList, t, arg[t])
               /\ \A u, n : In(sessionList', u, n) <=>
                              In(sessionList, u, n) /\ ~(u = t /\ n = arg[t])
               /\ \A n : isValidSession(sessionList', n) <=>
                           /\ isValidSession(sessionList, n)
                           /\ ~(n = arg[t] /\ \A u \in Threads : In(sessionList, u, arg[t]) => u = t)
<1> DEFINE i == SelectInSeq(sessJoined[t], LAMBDA id : id = arg[t])
           left == SubSeq(sessJoined[t], i + 1, Len(sessJoined[t]))
<1>1. /\ pc[t] = "leave"
      /\ \/ /\ i = 0 /\ sessJoined' = [sessJoined EXCEPT ![t] = <<>>]
            /\ pc' = [pc EXCEPT ![t] = "leaveRecord"]
            /\ UNCHANGED <<arg, known, nodeSess, userLoggedin, sessionList, sessionCnt>>
         \/ /\ i # 0 /\ inSession(sessionList, arg[t], t)
            /\ sessJoined' = [sessJoined EXCEPT ![t] = left]
            /\ sessionList' = leave_session(sessionList, arg[t], t)
            /\ UNCHANGED <<pc, arg, known, nodeSess, userLoggedin, sessionCnt>>
         \/ i # 0 /\ ~inSession(sessionList, arg[t], t)
  BY DEF LeaveSession, Step, Goto, shared
<1>2. /\ arg[t] \in Ids
      /\ i = 0 => sessJoined[t] = <<>>
      /\ i # 0 => left = <<>> /\ MemberOf(t) = {arg[t]}
  <2> HIDE DEF i
  <2>1. i = SelectInSeq(sessJoined[t], LAMBDA id : id = arg[t])
    BY DEF i
  <2> QED
    BY <1>1, <2>1, LeaveSessionFinds
<1> HIDE DEF i, left
<1>3. i # 0 => In(sessionList, t, arg[t]) /\ inSession(sessionList, arg[t], t)
  <2>1. WellFormed(sessionList) /\ KnownBy(sessionList, t)
    BY <1>1, Apart DEF Inv2, Inv, ListInv
  <2> QED
    BY <1>2, <2>1, inSessionIs DEF MemberOf
<1>4. /\ OthersSame(t) /\ sessJoined'[t] = <<>> /\ UNCHANGED <<arg, known, nodeSess>>
      /\ i = 0 => pc'[t] = "leaveRecord"
      /\ i # 0 => pc'[t] = "leave"
  BY <1>1, <1>2, <1>3 DEF OthersSame, Inv2, Inv, ListInv
<1>5. AccountInv(t) /\ LeaveInv(t) /\ Inv /\ known[t] = {} /\ MemberOf(t) = Range(sessJoined[t])
  BY <1>1 DEF Inv2, Inv, AccountInv, ClientInv, MemberInv, Parting
<1>6. NodesSame(t)
  BY <1>1, <1>3, NodesUnchanged DEF Inv2, Inv
<1>7. \A u \in Threads : LeaveInv(u)'
  <2>1. LeaveInv(t)'
    BY <1>1, <1>2, <1>3, <1>4, <1>5, RangeOfNone DEF LeaveInv
  <2> QED
    BY <1>4, <1>6, <2>1, LeaveKept
<1> USE DEF Before, After, Settled, Counting, CreatingLabels, Parting
<1>8. ClientInv(t)' /\ PrivateInv(t)' /\ SingleInv(t)'
  BY <1>1, <1>3, <1>4, <1>5, RangeOfNone DEF AccountInv, ClientInv, PrivateInv, SingleInv
<1>9. NodeInv(t)'
  BY <1>1, <1>3, <1>4, <1>5 DEF AccountInv, NodeInv
<1>10. CASE i = 0
  <2>1. MemberOf(t)' = MemberOf(t) => MemberInv(t)'
    BY <1>2, <1>4, <1>5, <1>10, RangeOfNone DEF MemberInv
  <2>2. UNCHANGED <<sessionList, sessionCnt>>
    BY <1>1, <1>10
  <2>3. pc[t] \in CreatingLabels => pc'[t] \in CreatingLabels
    BY <1>1
  <2>4. Inv'
    <3> HIDE DEF CreatingLabels
    <3> QED
      BY <1>4, <1>5, <1>6, <1>8, <1>9, <2>1, <2>2, <2>3, QuietStep
  <2> QED
    BY <1>1, <1>4, <1>7, <1>10, <2>2, <2>4 DEF Inv2
<1>11. CASE i # 0
  <2>1. sessionList' = leave_session(sessionList, arg[t], t) /\ pc' = pc /\ sessionCnt' = sessionCnt
    BY <1>1, <1>3, <1>11
  <2>2. /\ WellFormed(sessionList')
        /\ \A u, n : In(sessionList', u, n) <=> In(sessionList, u, n) /\ ~(u = t /\ n = arg[t])
        /\ \A n : isValidSession(sessionList', n) <=>
                    /\ isValidSession(sessionList, n)
                    /\ ~(n = arg[t] /\ \A u \in Threads : In(sessionList, u, arg[t]) => u = t)
    <3>1. WellFormed(sessionList) /\ In(sessionList, t, arg[t]) /\ KnownBy(sessionList, t)
      BY <1>1, <1>3, <1>11, Apart DEF Inv2, Inv, ListInv
    <3> QED
      BY <2>1, <3>1, LeaveSessionIs
  <2>3. MemberOf(t)' = {}
    <3>1. MemberOf(t)' = {n \in Ids : In(sessionList', t, n)}
      BY DEF MemberOf
    <3> QED
      BY <1>2, <1>11, <2>2, <3>1 DEF MemberOf
  <2>4. MemberInv(t)'
    BY <1>4, <1>11, <2>3, RangeOfNone DEF MemberInv
  <2>5. AccountInv(t)'
    BY <1>8, <1>9, <2>4 DEF AccountInv
  <2>6. /\ \A n \in Ids : isValidSession(sessionList', n) =>
             isValidSession(sessionList, n) \/ (n = sessionCnt /\ pc'[t] \in CreatingLabels)
        /\ \A u \in Threads \ {t} : \A n \in Ids : In(sessionList', u, n) <=> In(sessionList, u, n)
    BY <2>2
  <2>7. Inv'
    <3> HIDE DEF CreatingLabels
    <3> QED
      BY <1>4, <1>5, <1>6, <2>1, <2>2, <2>5, <2>6, ListStep
  <2> QED
    BY <1>1, <1>2, <1>3, <1>4, <1>7, <1>11, <2>1, <2>2, <2>7 DEF Inv2
<1> QED
  BY <1>10, <1>11

\* The node loses the only session it records.
LEMMA RemoveOnlyOne ==
  ASSUME NEW S, NEW s \in Seq(S), IsInjective(s), NEW e, Range(s) = {e}
  PROVE  RemoveFirst(s, e) = <<>>
<1> DEFINE I == {k \in 1 .. Len(s) : s[k] = e}
           i == SelectInSeq(s, LAMBDA v : v = e)
<1>1. Len(s) = 1 /\ s[1] = e
  <2>1. s # <<>>
    BY RangeOfNone
  <2> QED
    BY <2>1, OnlyOne
<1>2. i = 1
  <2>1. I = {1}
    BY <1>1
  <2>2. i = Min(I)
    BY <2>1 DEF SelectInSeq
  <2>3. Min(I) \in I
    <3> HIDE DEF I
    <3> QED
      BY <2>1, MinIs
  <2> QED
    BY <2>1, <2>2, <2>3
<1>3. RemoveFirst(s, e) = RemoveAt(s, i)
  BY <1>1 DEF RemoveFirst
<1>4. RemoveAt(s, 1) \in Seq(S) /\ Len(RemoveAt(s, 1)) = 0
  <2>1. 1 \in 1 .. Len(s)
    BY <1>1
  <2>2. RemoveAt(s, 1) \in Seq(S) /\ Len(RemoveAt(s, 1)) = Len(s) - 1
    BY <2>1, RemoveAtIs
  <2> QED
    BY <1>1, <2>2
<1> HIDE DEF i
<1> QED
  BY <1>2, <1>3, <1>4, EmptySeq

LEMMA LeaveRecordKeepsInv ==
  ASSUME NamesApart, Inv2, NEW t \in Threads, LeaveRecord(t)
  PROVE  Inv2' /\ OthersSame(t) /\ pc[t] = "leaveRecord" /\ pc'[t] \in {"leaveRecord", "leaveUnlock", "recv"}
<1> DEFINE i == SelectInSeq(userLoggedin, LAMBDA u : SameName(u, t))
           left == RemoveFirst(nodeSess[userLoggedin[i]], arg[t])
<1>1. pc[t] = "leaveRecord" /\ UNCHANGED <<known, sessJoined, userLoggedin, sessionList, sessionCnt>>
  BY DEF LeaveRecord, Step
<1>2. \/ /\ i = 0 /\ pc' = [pc EXCEPT ![t] = "recv"] /\ arg' = [arg EXCEPT ![t] = 0]
         /\ nodeSess' = nodeSess
      \/ /\ i # 0
         /\ nodeSess' = [nodeSess EXCEPT ![userLoggedin[i]] = left]
         /\ IF nodeSess'[userLoggedin[i]] = <<>>
              THEN pc' = [pc EXCEPT ![t] = "leaveUnlock"] /\ arg' = arg
              ELSE pc' = [pc EXCEPT ![t] = "recv"] /\ arg' = [arg EXCEPT ![t] = 0]
      \/ UNCHANGED accounts
  BY DEF LeaveRecord, Step, Goto, Return, accounts
<1>3. /\ i = 0 => ~Contains(userLoggedin, t)
      /\ i # 0 => userLoggedin[i] = t /\ Contains(userLoggedin, t)
  <2>1. userLoggedin \in Seq(Nodes) /\ DOMAIN userLoggedin = 1 .. Len(userLoggedin)
    BY LenProperties DEF Inv2, Inv, ListInv
  <2> HIDE DEF i
  <2>2. i = SelectInSeq(userLoggedin, LAMBDA u : SameName(u, t))
    BY DEF i
  <2>3. /\ i = 0 => ~Contains(userLoggedin, t)
        /\ i # 0 => i \in 1 .. Len(userLoggedin) /\ userLoggedin[i] = t
    BY <1>1, <2>1, <2>2, NodeFound, Apart
  <2>4. i # 0 => Contains(userLoggedin, t)
    BY <2>1, <2>3 DEF Contains
  <2> QED
    BY <2>3, <2>4
<1>4. /\ AccountInv(t) /\ Inv /\ known[t] = {} /\ sessJoined[t] = <<>> /\ MemberOf(t) = {}
      /\ nodeSess[t] \in Seq(Ids) /\ IsInjective(nodeSess[t])
      /\ Contains(userLoggedin, t) => Range(nodeSess[t]) = {arg[t]}
  BY <1>1, RangeOfNone
     DEF Inv2, Inv, AccountInv, ClientInv, PrivateInv, MemberInv, NodeInv, LeaveInv, Parting
<1>5. i # 0 => left = <<>>
  <2>1. i # 0 => left = RemoveFirst(nodeSess[t], arg[t])
    BY <1>3
  <2> HIDE DEF i, left
  <2> QED
    BY <1>3, <1>4, <2>1, RemoveOnlyOne
<1> HIDE DEF i, left
<1>6. CASE UNCHANGED accounts
  <2>1. OthersSame(t) /\ pc'[t] = "leaveRecord"
    BY <1>1, <1>6 DEF OthersSame, Inv2, Inv, ListInv, accounts
  <2> QED
    BY <1>1, <1>6, <2>1, UntouchedLeaves
<1>7. CASE ~UNCHANGED accounts
  <2>1. /\ OthersSame(t) /\ pc'[t] \in {"leaveUnlock", "recv"} /\ UNCHANGED <<known, sessJoined>>
        /\ nodeSess'[t] \in Seq(Ids) /\ IsInjective(nodeSess'[t])
        /\ Contains(userLoggedin, t) => nodeSess'[t] = <<>>
    <3>1. /\ DOMAIN pc = Threads /\ DOMAIN arg = Threads /\ DOMAIN known = Threads
          /\ DOMAIN sessJoined = Threads /\ DOMAIN nodeSess = Threads
      BY DEF Inv2, Inv, ListInv
    <3>2. CASE i = 0
      BY <1>1, <1>2, <1>3, <1>4, <1>7, <3>1, <3>2 DEF OthersSame
    <3>3. CASE i # 0
      <4>1. nodeSess' = [nodeSess EXCEPT ![t] = <<>>] /\ nodeSess'[userLoggedin[i]] = <<>>
        BY <1>2, <1>3, <1>5, <1>7, <3>1, <3>3
      <4>2. pc' = [pc EXCEPT ![t] = "leaveUnlock"] /\ arg' = arg
        BY <1>2, <1>7, <3>3, <4>1
      <4>3. <<>> \in Seq(Ids)
        OBVIOUS
      <4> QED
        BY <1>1, <3>1, <4>1, <4>2, <4>3, RangeOfNone DEF OthersSame
    <3> QED
      BY <3>2, <3>3
  <2>2. NodesSame(t)
    BY <1>1, <1>4, NodesUnchanged DEF Inv
  <2>3. \A u \in Threads : LeaveInv(u)'
    <3>1. LeaveInv(t)'
      BY <1>1, <2>1 DEF LeaveInv
    <3> QED
      BY <2>1, <2>2, <3>1, LeaveKept
  <2> USE DEF Before, After, Settled, Counting, CreatingLabels, Parting
  <2>4. ClientInv(t)' /\ PrivateInv(t)' /\ SingleInv(t)'
    BY <1>4, <2>1, RangeOfNone DEF AccountInv, ClientInv, PrivateInv, SingleInv
  <2>5. NodeInv(t)'
    BY <1>1, <1>4, <2>1, RangeOfNone DEF NodeInv
  <2>6. MemberOf(t)' = MemberOf(t) => MemberInv(t)'
    BY <1>4, <2>1, RangeOfNone DEF MemberInv
  <2>7. pc[t] \in CreatingLabels => pc'[t] \in CreatingLabels
    BY <1>1
  <2> HIDE DEF CreatingLabels
  <2>8. Inv'
    BY <1>1, <1>4, <2>1, <2>2, <2>4, <2>5, <2>6, <2>7, QuietStep
  <2> QED
    BY <1>1, <2>1, <2>3, <2>8 DEF Inv2
<1> QED
  BY <1>6, <1>7

LEMMA LeaveUnlockKeepsInv ==
  ASSUME Inv2, NEW t \in Threads, LeaveUnlock(t)
  PROVE  Inv2' /\ OthersSame(t) /\ pc[t] = "leaveUnlock" /\ pc'[t] = "recv"
<1>1. /\ pc[t] = "leaveUnlock" /\ pc' = [pc EXCEPT ![t] = "recv"] /\ arg' = [arg EXCEPT ![t] = 0]
      /\ UNCHANGED <<known, sessJoined, nodeSess, userLoggedin, sessionList, sessionCnt>>
  BY DEF LeaveUnlock, Step, Goto, Return
<1>2. OthersSame(t) /\ pc'[t] = "recv"
  BY <1>1 DEF OthersSame, Inv2, Inv, ListInv
<1>3. /\ AccountInv(t) /\ LeaveInv(t) /\ Inv /\ known[t] = {} /\ sessJoined[t] = <<>>
      /\ MemberOf(t) = {}
  BY <1>1, RangeOfNone
     DEF Inv2, Inv, AccountInv, ClientInv, PrivateInv, MemberInv, Parting
<1>4. NodesSame(t)
  BY <1>1, <1>3, NodesUnchanged DEF Inv
<1>5. \A u \in Threads : LeaveInv(u)'
  BY <1>2, <1>4, ElsewhereKept DEF LeaveLabels
<1> USE DEF Before, After, Settled, Counting, CreatingLabels, Parting
<1>6. ClientInv(t)' /\ PrivateInv(t)' /\ SingleInv(t)'
  BY <1>1, <1>2, <1>3, RangeOfNone DEF AccountInv, ClientInv, PrivateInv, SingleInv
<1>7. NodeInv(t)'
  BY <1>1, <1>2, <1>3, RangeOfNone DEF AccountInv, LeaveInv, NodeInv
<1>8. MemberOf(t)' = MemberOf(t) => MemberInv(t)'
  BY <1>1, <1>2, <1>3, RangeOfNone DEF MemberInv
<1>9. pc[t] \in CreatingLabels => pc'[t] \in CreatingLabels
  BY <1>1
<1> HIDE DEF CreatingLabels
<1>10. Inv'
  BY <1>1, <1>2, <1>3, <1>4, <1>6, <1>7, <1>8, <1>9, QuietStep
<1> QED
  BY <1>1, <1>2, <1>5, <1>10 DEF Inv2

LEMMA SendKeepsInv ==
  ASSUME Inv2, NEW t \in Threads, (\E id \in Ids : Message(t, id)) \/ SendNext(t)
  PROVE  /\ Inv2' /\ OthersSame(t) /\ pc[t] \in {"recv", "send"} /\ pc'[t] \in {"recv", "send"}
         /\ UNCHANGED <<sessionList, sessionCnt>>
<1>1. /\ pc[t] \in {"recv", "send"}
      /\ pc' = pc \/ (\E l \in {"recv", "send"} : pc' = [pc EXCEPT ![t] = l])
      /\ arg' = arg \/ \E n : arg' = [arg EXCEPT ![t] = n]
      /\ UNCHANGED <<known, sessJoined, nodeSess, userLoggedin, sessionList, sessionCnt>>
  <2> USE DEF Begin, Step, Goto, Return, shared
  <2>1. CASE \E id \in Ids : Message(t, id)
    BY <2>1 DEF Message
  <2>2. CASE SendNext(t)
    BY <2>2 DEF SendNext
  <2> QED
    BY <2>1, <2>2
<1>2. OthersSame(t) /\ pc'[t] \in {"recv", "send"} /\ known'[t] = known[t]
  BY <1>1 DEF OthersSame, Inv2, Inv, ListInv
<1>3. Inv'
  BY <1>1, <1>2, Listening DEF Inv2
<1>4. NodesSame(t)
  BY <1>1, NodesUnchanged DEF Inv2, Inv
<1>5. \A u \in Threads : LeaveInv(u)'
  BY <1>2, <1>4, ElsewhereKept DEF LeaveLabels
<1> QED
  BY <1>1, <1>2, <1>3, <1>5 DEF Inv2

\* The shared steps take no thread into LEAVE_SESS.
LEMMA SharedFrame ==
  ASSUME NamesApart, OneCreates, Inv, NEW t \in Threads, SharedStep(t)
  PROVE  UNCHANGED accounts \/ (OthersSame(t) /\ NodesSame(t) /\ pc'[t] \notin LeaveLabels)
<1> USE DEF LeaveLabels
<1>1. CASE \/ Accept(t) \/ Login(t) \/ HangUp(t) \/ LoginAdd(t) \/ LoginLink(t) \/ Reject(t)
           \/ Relink(t) \/ Uncount(t)
  BY <1>1, OutsideSteps
<1>2. CASE Reset(t)
  BY <1>2, StepUntouched
<1>3. CASE JoinSession(t)
  <2>1. CASE isValidSession(sessionList, arg[t])
    <3>1. userLoggedin' = userLoggedin
      BY <1>3, <2>1 DEF JoinSession
    <3> QED
      BY <1>3, <2>1, <3>1, JoinSessionKeepsInv, NodesUnchanged DEF Inv
  <2>2. CASE ~isValidSession(sessionList, arg[t])
    BY <1>3, <2>2, StepUntouched DEF JoinSession
  <2> QED
    BY <2>1, <2>2
<1>4. CASE NewJoin(t)
  <2>1. CASE isValidSession(sessionList, sessionCnt)
    <3>1. userLoggedin' = userLoggedin
      BY <1>4, <2>1 DEF NewJoin
    <3> QED
      BY <1>4, <2>1, <3>1, NewJoinKeepsInv, NodesUnchanged DEF Inv
  <2>2. CASE ~isValidSession(sessionList, sessionCnt)
    BY <1>4, <2>2, StepUntouched DEF NewJoin
  <2> QED
    BY <2>1, <2>2
<1>5. CASE Unlink(t)
  <2>1. NodesSame(t)
    BY <1>5, UnlinkedIs DEF Unlink, Inv, ListInv
  <2> QED
    BY <1>5, <2>1, UnlinkKeepsInv
<1>6. CASE LeaveNext(t)
  <2>1. pc[t] = "leaving" /\ (Abort \/ userLoggedin' = userLoggedin)
    BY <1>6 DEF LeaveNext, Step
  <2>2. CASE Abort
    BY <2>2, StepUntouched
  <2>3. CASE userLoggedin' = userLoggedin
    BY <1>6, <2>1, <2>3, HeadIsLeft, NodesUnchanged DEF Inv
  <2> QED
    BY <2>1, <2>2, <2>3
<1>7. CASE \/ \E id \in Ids : Join(t, id)
           \/ JoinRecord(t) \/ NewSession(t) \/ NewPrivate(t) \/ NewRecord(t) \/ NewAnswer(t)
           \/ NewCount(t) \/ Exit(t)
  <2>1. userLoggedin' = userLoggedin
    BY <1>7 DEF Join, JoinRecord, NewSession, NewPrivate, NewRecord, NewAnswer, NewCount, Exit, shared
  <2>2. NodesSame(t)
    BY <2>1, NodesUnchanged DEF Inv
  <2>3. OthersSame(t)
    BY <1>7, JoinKeepsInv, JoinRecordKeepsInv, NewSessionKeepsInv, NewPrivateKeepsInv,
       NewRecordKeepsInv, NewAnswerKeepsInv, NewCountKeepsInv, PartKeepsInv
  <2>4. pc'[t] \notin LeaveLabels
    BY <1>7 DEF Begin, Step, Goto, Return, Inv, ListInv, Join, JoinRecord, NewSession,
                NewPrivate, NewRecord, NewAnswer, NewCount, Exit
  <2> QED
    BY <2>2, <2>3, <2>4
<1> QED
  BY <1>1, <1>2, <1>3, <1>4, <1>5, <1>6, <1>7
     DEF SharedStep, LoginBranch, JoinBranch, NewBranch, ExitBranch

LEMMA NextIsStep ==
  ASSUME Next
  PROVE  \/ AcceptTimeout
         \/ \E t \in Threads :
              \/ SharedStep(t)
              \/ \E id \in Ids : Leave(t, id) \/ Message(t, id)
              \/ \E u \in Threads : Invite(t, u)
              \/ LeaveSession(t) \/ LeaveRecord(t) \/ LeaveUnlock(t) \/ SendNext(t)
  BY DEF Next, Request, Serve, SharedStep, LoginBranch, JoinBranch, NewBranch, ExitBranch

LEMMA NextKeepsInv ==
  ASSUME Terms, Orderly, LeavesOnly, Inv2, [Next]_vars
  PROVE  Inv2'
<1>1. CASE AcceptTimeout \/ UNCHANGED vars
  <2>1. UNCHANGED accounts
    BY <1>1 DEF AcceptTimeout, vars, accounts, shared, private
  <2> QED
    BY <2>1, UntouchedLeaves
<1>2. ASSUME NEW t \in Threads, SharedStep(t) PROVE Inv2'
  <2>1. Inv'
    BY <1>2, TermsGive, SharedKeepsInv DEF Inv2
  <2>2. UNCHANGED accounts \/ (OthersSame(t) /\ NodesSame(t) /\ pc'[t] \notin LeaveLabels)
    BY <1>2, TermsGive, SharedFrame DEF Inv2
  <2> QED
    BY <2>1, <2>2, UntouchedLeaves, ElsewhereKept DEF Inv2
<1>3. ASSUME NEW t \in Threads, NEW id \in Ids, Leave(t, id) PROVE Inv2'
  BY <1>3, LeaveKeepsInv
<1>4. ASSUME NEW t \in Threads, NEW id \in Ids, Message(t, id) PROVE Inv2'
  BY <1>4, SendKeepsInv
<1>5. ASSUME NEW t \in Threads, NEW u \in Threads, Invite(t, u) PROVE Inv2'
  <2>1. UNCHANGED accounts
    BY <1>5 DEF Invite, accounts, shared, private
  <2> QED
    BY <2>1, UntouchedLeaves
<1>6. ASSUME NEW t \in Threads,
             LeaveSession(t) \/ LeaveRecord(t) \/ LeaveUnlock(t) \/ SendNext(t)
      PROVE  Inv2'
  <2>1. NamesApart
    BY TermsGive DEF Inv2
  <2> QED
    BY <1>6, <2>1, LeaveSessionKeepsInv, LeaveRecordKeepsInv, LeaveUnlockKeepsInv, SendKeepsInv
<1> QED
  BY <1>1, <1>2, <1>3, <1>4, <1>5, <1>6, NextIsStep

LEMMA InitInv2 == Init => Inv2
<1>1. Init => \A t \in Threads : LeaveInv(t)
  BY DEF Init, LeaveInv
<1> QED
  BY <1>1, InitInv DEF Inv2

LEMMA Invariance == Terms /\ LeavesOnly => (Spec => [](Orderly /\ Inv2))
<1> SUFFICES ASSUME Terms /\ LeavesOnly PROVE Spec => [](Orderly /\ Inv2)
  OBVIOUS
<1>1. Orderly /\ Inv2 /\ [Next]_vars => Inv2'
  BY NextKeepsInv
<1>2. Orderly /\ [Next]_vars => Orderly'
  BY SerialNext DEF Orderly
<1>3. Init => Orderly
  BY SerialInit DEF Orderly
<1> QED
  BY <1>1, <1>2, <1>3, InitInv2, PTL DEF Spec

\* The second version agrees with itself and with the client in the same way
\* (LAB2/server.c:105), if a client with several sessions leaves them only by
\* EXIT: the walk of LEAVE_SESS drops the sessions it passes (server.c:220).
THEOREM Accounts == Terms /\ LeavesOnly => (Spec => []ListsAgree)
<1>1. Inv2 => ListsAgree
  BY InvAgrees DEF Inv2
<1> QED
  BY <1>1, Invariance, PTL

LEMMA NextMaps ==
  ASSUME Terms, Orderly, LeavesOnly, Inv2, [Next]_vars
  PROVE  [Promise!Next]_(Promise!vars)
<1>1. CASE AcceptTimeout \/ UNCHANGED vars
  <2>1. UNCHANGED accounts
    BY <1>1 DEF AcceptTimeout, vars, accounts, shared, private
  <2> QED
    BY <2>1, UntouchedMaps, Stutters
<1>2. ASSUME NEW t \in Threads, SharedStep(t) PROVE [Promise!Next]_(Promise!vars)
  BY <1>2, TermsGive, SharedMaps DEF Inv2
<1>3. ASSUME NEW t \in Threads, OthersSame(t), UNCHANGED <<sessionList, sessionCnt>>,
             pc[t] \in LeaveLabels \cup {"recv", "send"},
             pc'[t] \in LeaveLabels \cup {"recv", "send"}
      PROVE  [Promise!Next]_(Promise!vars)
  <2>1. /\ Online(t)' <=> Online(t)
        /\ pc'[t] \in CreatingLabels <=> pc[t] \in CreatingLabels
    BY <1>3 DEF CreatingLabels, Counting, Online, LeaveLabels
  <2> QED
    BY <1>3, <2>1, OnlineIs, QuietMaps, Stutters
<1>4. ASSUME NEW t \in Threads,
             \/ \E id \in Ids : Leave(t, id) \/ Message(t, id)
             \/ LeaveRecord(t) \/ LeaveUnlock(t) \/ SendNext(t)
      PROVE  [Promise!Next]_(Promise!vars)
  <2>1. UNCHANGED <<sessionList, sessionCnt>>
    BY <1>4 DEF Leave, Message, LeaveRecord, LeaveUnlock, SendNext, shared
  <2>2. /\ OthersSame(t)
        /\ pc[t] \in LeaveLabels \cup {"recv", "send"}
        /\ pc'[t] \in LeaveLabels \cup {"recv", "send"}
    <3>1. NamesApart
      BY TermsGive DEF Inv2
    <3> QED
      BY <1>4, <3>1, LeaveKeepsInv, LeaveRecordKeepsInv, LeaveUnlockKeepsInv, SendKeepsInv
         DEF LeaveLabels
  <2> QED
    BY <1>3, <2>1, <2>2
<1>5. ASSUME NEW t \in Threads, LeaveSession(t) PROVE [Promise!Next]_(Promise!vars)
  <2>1. /\ OthersSame(t) /\ pc[t] = "leave" /\ sessionCnt' = sessionCnt
        /\ \/ pc'[t] = "leaveRecord" /\ sessionList' = sessionList
           \/ /\ pc' = pc /\ arg[t] \in Ids /\ In(sessionList, t, arg[t])
              /\ \A u, n : In(sessionList', u, n) <=>
                             In(sessionList, u, n) /\ ~(u = t /\ n = arg[t])
              /\ \A n : isValidSession(sessionList', n) <=>
                          /\ isValidSession(sessionList, n)
                          /\ ~(n = arg[t] /\ \A u \in Threads : In(sessionList, u, arg[t]) => u = t)
    BY <1>5, TermsGive, LeaveSessionKeepsInv DEF Inv2
  <2>2. CASE pc'[t] = "leaveRecord" /\ sessionList' = sessionList
    BY <1>3, <2>1, <2>2 DEF LeaveLabels
  <2>3. CASE ~(pc'[t] = "leaveRecord" /\ sessionList' = sessionList)
    <3>1. arg[t] \in Ids /\ Promise!Leave(t, arg[t])
      BY <2>1, <2>3, LeaveMaps DEF Inv2
    <3> QED
      BY <3>1 DEF Promise!Next
  <2> QED
    BY <2>2, <2>3
<1>6. ASSUME NEW t \in Threads, NEW u \in Threads, Invite(t, u)
      PROVE  [Promise!Next]_(Promise!vars)
  <2>1. UNCHANGED accounts
    BY <1>6 DEF Invite, accounts, shared, private
  <2> QED
    BY <2>1, UntouchedMaps, Stutters
<1> QED
  BY <1>1, <1>2, <1>4, <1>5, <1>6, NextIsStep

\* The second version implements the abstract conference, on the same terms.
THEOREM Refinement == Terms /\ LeavesOnly => (Spec => Implements)
<1> SUFFICES ASSUME Terms /\ LeavesOnly PROVE Spec => Implements
  OBVIOUS
<1>1. Orderly /\ Inv2 /\ [Next]_vars => [Promise!Next]_(Promise!vars)
  BY NextMaps
<1> QED
  BY <1>1, Invariance, InitMaps, PTL DEF Spec, Implements, Promise!Spec

-----------------------------------------------------------------------------
\* What the accounts say of a thread that is about to leave: it is found where
\* it is looked for.
LEMMA LeavingIsSafe ==
  ASSUME NamesApart, Inv2
  PROVE  LeavingNeverAsserts
<1> SUFFICES ASSUME NEW t \in Threads
    PROVE  /\ pc[t] = "leave" /\ Contains(sessJoined[t], arg[t]) =>
                inSession(sessionList, arg[t], t)
           /\ pc[t] = "leaving" /\ sessJoined[t] # <<>> =>
                inSession(sessionList, Head(sessJoined[t]), t)
           /\ pc[t] = "leaveRecord" =>
                \A u \in ToSet(userLoggedin) : SameName(u, t) => nodeSess[u] # <<>>
    BY DEF LeavingNeverAsserts
<1>1. AccountInv(t) /\ LeaveInv(t) /\ WellFormed(sessionList)
      /\ sessJoined[t] \in Seq(Ids) /\ userLoggedin \in Seq(Nodes)
  BY DEF Inv2, Inv, ListInv, AccountInv, PrivateInv
<1>2. ASSUME pc[t] \in {"leave", "leaving"}, NEW id \in Range(sessJoined[t])
      PROVE  inSession(sessionList, id, t)
  <2>1. MemberOf(t) = Range(sessJoined[t])
    BY <1>1, <1>2 DEF AccountInv, MemberInv
  <2>2. In(sessionList, t, id)
    BY <2>1 DEF MemberOf
  <2>3. KnownBy(sessionList, t)
    BY <1>2, Apart
  <2> QED
    BY <1>1, <2>2, <2>3, inSessionIs
<1>3. ASSUME pc[t] = "leave", Contains(sessJoined[t], arg[t])
      PROVE  inSession(sessionList, arg[t], t)
  <2>1. arg[t] \in Range(sessJoined[t])
    BY <1>1, <1>3, ContainsIsRange
  <2> QED
    BY <1>2, <1>3, <2>1
<1>4. ASSUME pc[t] = "leaving", sessJoined[t] # <<>>
      PROVE  inSession(sessionList, Head(sessJoined[t]), t)
  <2>1. Head(sessJoined[t]) \in Range(sessJoined[t])
    BY <1>1, <1>4, TailIs DEF AccountInv, PrivateInv
  <2> QED
    BY <1>2, <1>4, <2>1
<1>5. ASSUME pc[t] = "leaveRecord", NEW u \in ToSet(userLoggedin), SameName(u, t)
      PROVE  nodeSess[u] # <<>>
  <2>1. ToSet(userLoggedin) = Range(userLoggedin)
    BY DEF ToSet, Range
  <2>2. u = t
    BY <1>5, <2>1, Apart
  <2>3. Contains(userLoggedin, t)
    BY <1>1, <2>1, <2>2, ContainsIsRange
  <2>4. Range(nodeSess[t]) = {arg[t]}
    BY <1>1, <1>5, <2>3 DEF LeaveInv
  <2> QED
    BY <2>2, <2>4, RangeOfNone
<1> QED
  BY <1>3, <1>4, <1>5

\* However the threads interleave, leaving fails no assertion: a session that a
\* thread leaves, by request or at its end, has it among its users, and its node
\* records what is struck off (LAB2/user.h:198, 228, 231).  Joining has no such
\* theorem: there the assertion does fail (server.c:187).
THEOREM LeavingIsAssertFree == Terms /\ LeavesOnly => (Spec => []LeavingNeverAsserts)
<1> SUFFICES ASSUME Terms /\ LeavesOnly PROVE Spec => []LeavingNeverAsserts
  OBVIOUS
<1>1. Orderly /\ Inv2 => LeavingNeverAsserts
  BY TermsGive, LeavingIsSafe DEF Inv2
<1> QED
  BY <1>1, Invariance, PTL
=============================================================================
