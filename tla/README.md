# Verification of the Computer Networks labs

TLA+ models of the two programs in this repository, the model-checking runs on
small instances, and machine-checked proofs for all instances.

* **File transfer** (`src/FileTransferLab/LAB4`): a stop-and-wait transfer of one
  file over UDP, client `deliver.c`, server `server.c`, packets `packet.h`; and its
  predecessor (`LAB3`), which has no closing phase.
* **Text conferencing** (`src/TextConferencingLab/LAB2`): a chat server with one
  thread per connection (`server.c`, `user.h`) and a two-threaded client
  (`client.c`), packets `packet.h`; and the first version of the server (`LAB1`).

## Inventory

| Component | State | Operations | What is hard |
|---|---|---|---|
| File transfer client, `deliver.c` | control point, `packet_num`, `timesent`, `rec_buf`, the receive timeout | handshake, send, wait for ACK, timeout and resend, FIN | loss, stale and repeated ACKs, bounded retries, a timer that may become zero |
| Retransmission timer, `deliver.c:85-137` | `estimatedRTT`, `devRTT`, `SO_RCVTIMEO` | one update per wait | integer truncation, `setsockopt()` limits |
| Fragmentation, `deliver.c:32-70` | `total_frag`, file position, declared sizes | one packet per turn | lengths at multiples of the packet size, the empty file |
| File transfer server, `server.c` | control point, `fragRecv`, output file, `buf` | handshake, store and acknowledge, second loop until FIN or timeout | repeated and late datagrams, the index `frag_no - 1`, lost FIN |
| Conference server, `server.c`, `user.h` | `userLoggedin`, `sessionList`, `sessionCnt`, `userConnectedCnt`, and per thread `sessJoined` and the socket | login, join, leave, create, message, invite, query, exit; `main()` accepts and goes down | threads that read shared lists without the mutex, checks made before the lock, four accounts of who is in which session |
| Conference client, `client.c` | `buf`, `insessions`, `insession`, `session_count`, the invitation and its mutex | one command per line; the second thread handles replies | one buffer for two threads, replies that arrive later, a thread cancelled while it holds the mutex |
| File transfer without FIN, `LAB3` | as above without the timer; one flag of `fragRecv` uninitialised | one datagram read per wait, resend on anything unexpected, stop at the last fragment | resends that breed resends, a server that does not look for what is missing |
| First conference server, `LAB1/server.c` | as LAB2's | as LAB2's; leave everything, send to every session | three lists emptied in several steps, an unlocked walk over two levels of lists |
| File transfer LAB1 and LAB2, first conference client, `session.h`, Wireshark labs | | | not modelled, see below |

Client and server of each program interact by messages only (UDP datagrams that
may be lost, reordered and repeated; a TCP connection each). The server's
threads interact through the shared lists, and its sends reach whoever owns a
file descriptor at the time.

What makes each correct:

* *file transfer*: the output is a prefix of the file in order, nobody reports
  completion before the whole file is there, both sides stop;
* *timer*: the timeout stays positive and within the range of what was measured;
* *fragmentation*: nothing is left out, and the length of the output is known;
* *conference server*: the accounts of who is in which session agree, a session
  lives from its creation to the departure of its last member and its number is
  not used again, members are online, names are unique, no request is left
  unfinished, no assertion fails;
* *conference client*: the sessions it lists are those it was granted, the current
  one is among them, their number keeps to the limit, and only an invitation that
  has arrived is answered.

## Modules

| Module | Models | Used by |
|---|---|---|
| `ReliableTransfer` | what a file transfer promises: in order, once, one verdict, success only when complete | refinement target of `FileTransfer` and `FileTransferLab3` |
| `Datagrams` | the datagrams of the file transfer, the network that carries them, what `stringToPacket()` makes of them | `FileTransfer`, `FileTransferLab3`, `DatagramsProofs` |
| `FileTransfer` | `deliver.c` and `server.c` of LAB4 and the network between them | `MCFileTransfer`, `FileTransferProofs` |
| `FileTransferLab3` | `deliver.c` and `server.c` of LAB3 | `MCFileTransferLab3`, `FileTransferLab3Proofs` |
| `RttEstimator` | the timer arithmetic | `MCRttEstimator`, `RttProofs` |
| `Fragmentation` | the packet-building loop | `MCFragmentation`, `FragmentationProofs` |
| `Conference` | what the conference server promises: who is online, which sessions are open, who is in them | refinement target of `ConferenceServer` and `ConferenceLab1` |
| `ConferenceServer` | all threads of the conference server and its shared lists | `ConferenceLab1`, `MCConferenceServer` |
| `ConferenceLab1` | the first version: `ConferenceServer` with its own way to leave and to send | `MCConferenceLab1`, `ConferenceProofs`, `ConferenceAccountsProofs` |
| `ConferenceClient` | both threads of one client and its share of the server | `MCConferenceClient`, `ConferenceClientProofs` |
| `MC*` | values of the constants for TLC | the `.cfg` files |
| `*Proofs` | theorems and proofs | |

A definition called *Mutant* in a comment is a faulty variant of the one after
it. No specification uses it; it shows that a property notices the fault.

### FileTransfer

`cli` and `srv` are the control points of the two `main()` functions, the other
variables have the names of the source. `c2s` and `s2c` count the copies of each
datagram in flight (at most `NetCap`, further ones are dropped; loss is free,
at most `MaxDup` duplications). Receiving takes any datagram, which covers every
reordering. One action is what a process does between two receives or sends:
`CliSend` is lines 95-102 of `deliver.c`, `CliAck` a pass of the inner loop,
`CliTimeout` its timeout branch with the update of the timer, `SrvData` a pass
of the server's first loop, `SrvFin` and `SrvTimeout` the second one.

A fragment is its number (`Datagrams`). Text matters in two places. `Parse` says what
`stringToPacket()` makes of a handshake word that arrives late: the buffer still
holds an older packet behind the word, so the result is that packet's number or
no packet, in which case the process exits. `FinText` says which fragments hold
data equal to `FIN`: such a fragment, received again, ends the server's second loop
while the client may still be sending it. `FinMeansDone` says what is true of that end: the file
is complete, and all the client can lack is its last acknowledgement. The value the timer is set to is abstracted to zero or
positive (`TimerChoices`); `RttEstimator` says when each can happen.

### FileTransferLab3

The variables are those of `FileTransfer`. One wait reads one datagram: a stale
acknowledgement (`CliAck`) ends the wait as a timeout does, and the loop sends
again. `timesent` counts sends but is compared with `ALIVE` only at a timeout. The
server indexes `fragRecv` with the fragment number while it clears it from 0, so
the flag of the last fragment starts as any value (`LastFlag`); it leaves after
the last fragment whatever it has (`SrvStores`). The refinement therefore speaks of the fragments before the last
(`Certain`). The packets are cut as in LAB4 (`Fragmentation`).

### ConferenceServer

A step ends where another thread can get in: at a mutex, at a read of shared data
without one, at a send. So `NEW_SESS` is six steps, `JOIN` three (check, join
under the mutex, record), a departure one per session and then `Unlink` and
`Relink`, the two halves of `userLoggedin = remove_user(...)` without the mutex.
A traversal of a list without its mutex is one step.

The four mutexes are never nested, and what three of them guard is written
nowhere else: their sections are one step each. `userLoggedin_mutex` is a variable
(`mutex`): a login reads the head of the list under it (`LoginAdd`) and writes the
new one (`LoginLink`), between which a departing thread, which does not take it,
may move the head; and a thread that leaves its last session unlocks it twice
(`LeaveRecord`, `LeaveUnlock`), the second time for whoever holds it then. The
other sections under it (`JoinRecord`, `NewRecord`, `LeaveRecord`) touch nodes
only, are one step, and wait until it is free.

A broadcast remembers the list of users it walks (`todo`), passes over nodes of the
sender's own name (`NextOther`) and writes to the next one (`Addressee`). If that
member left meanwhile it skips it or sends to the descriptor
found in its node. A node of `userLoggedin` that was freed but is still pointed to (`Freed`) has no
name any more and keeps its link. A
descriptor is the lowest free one, as the kernel gives them. A client is in
`known` what it was told; it makes a request after the reply to the last one.
`LOGIN`, `EXIT` and the end of the connection go through the same branches as in
the code: `HangUp` stands for every departure before a login, `Exit` for every one
after it. A failed assertion, `exit(1)` and a freed head of a list end the
behaviour (`status`).

`Implements` maps this to `Conference`: a client is online from the entry of its
node into `userLoggedin` to `remove_user()`, the members of a session are its list
of users, and a session is closed when it is off the list and its number is used
up. The abstract steps say what no single request shows: one step changes one
membership, members are online throughout, whoever goes offline is a member of
nothing, a session closes with its last member, and no number opens twice.

### ConferenceLab1

The two versions of `server.c` differ in three requests. `LeaveAll` strikes every
session off the private list, one at a time, then off the node, and unlocks once.
`MessageAll` and `SendNextOfAll` walk the private list and the members of each
session, the sender included, while others come and go. There is no `INVIT`. The
rest is taken from `ConferenceServer`; the `...Branch` operators put the steps
together per branch of `new_client()`, and the map gives their lines in LAB1.
The server itself does not limit the sessions of a client, and the client's own
limit of one is tested before the replies to earlier lines are in, so two sessions
per client is what the server can be asked for.

### ConferenceClient

`main` and `receive` are the control points of the threads. `buf` is the shared
buffer and holds a line or a packet; each thread interprets what it finds there,
not what it put there, and `typed`, `packet` and `rcvd` remember what was meant.
Steps of `main()` end where `buf` has been filled, where the mutex is awaited and
after the send, so that `recv()` may fall between `packetToString()` and `send()`.
Steps of `receive()` end after `recv()`, before a printed reply takes effect
(`Store`) and around the mutex. `logout()` cancels the thread: at once in `recv()`,
else at the next output, which is inside the mutex if an invitation is being
announced (`EndLocked`). `Invite` reads a missing argument, as the code does after
its usage line, and asks for no connection. The server is the part of `server.c`
that this client sees: its thread's list, its membership and the replies, in order.
Other users send messages and invitations at any time.

With `Waits` the user reads the answer to a request before typing the next line.
It restrains nothing else: the threads interleave, packets of others arrive
between a line and its interpretation, between building and sending, and while a
logout is on its way.

## Runs

Passing runs:

| Run | Instance | Shows |
|---|---|---|
| `transfer` | 3 fragments, the last two with data that reads `FIN`, 2 retries, 2 copies of a datagram, 1 duplication, timer may be zero, fair | safety of the transfer, refinement of `ReliableTransfer`, a verdict of the client, and an end of both loops of the server |
| `transfer_lab3` | 3 fragments, 3 sends, 3 copies of a datagram, 1 duplication, any uninitialised flag, client fair | the same of the predecessor, as far as the fragments before the last |
| `rtt_usual` | samples 8 to 301, limit 5000 | the estimator stays in range, the timer armed, also when the limit refuses values |
| `fragmentation` | all lengths to 60, packets of 5 | nothing is left out; the output is as long as the input except at positive multiples of the packet size |
| `conference_concurrent` | 3 threads at once, 1 creator of a session, 2 guests | refinement of `Conference`, the four accounts agree, leaving fails no assertion, the server does not go down under a client |
| `conference_liveness` | 2 threads, fully concurrent, with resets, and a third that never logs in, fair | every request is served to its end although the mutex is unlocked twice, an idle server goes down |
| `conference_lab1` | 3 threads at once, 1 creator of 2 sessions, 1 guest, 1 login at any time | the first version: refinement of `Conference`, the accounts agree, a broadcast finds all sessions of its sender, logins at once lose no node |
| `client_waits` | 6 lines of 19, 1 packet of another user, 2 slots, the user waits for replies | the current session is listed, the server agrees with the list, the limit holds, only an invitation that has arrived is answered |

Three fragments give a first, a middle and a last one, two copies and one
duplication an old acknowledgement beside a new one, and two retries a stale
acknowledgement left over from each. `transfer_lab3` has three sends and three
copies, so that a resend caused by a stale acknowledgement can meet one caused by
a timeout. Packets of 5 bytes have every remainder.
Three threads are a sender, a member that leaves and a newcomer on its
descriptor, or a thread that unlocks twice and two that log in; two sessions are
needed for a stale one beside a live one. Six lines are a login, two sessions, a
leave and two more commands, seven a session after that, which `client_count`
needs; one packet of another user is enough to overwrite the buffer at any point. In
`conference_concurrent` the two guests are interchangeable, names included, which
is the symmetry used. In `conference_liveness` the third client either hangs up or is
refused; `IdleServerExits` exempts the states in which that has happened, and says so
(`LeftUncounted`). The safety runs of the server that pass have one creator of sessions and a name for
everyone: without these the properties fail, as the tables below say.
`conference_concurrent` has one session because a client of LAB2 that leaves one of
two loses the other; `conference_lab1` has two.

The types of `RttEstimator` and `Fragmentation` are proved (`RttTypes`,
`SizesInRange`) and are not checked again.

Runs that TLC refutes, each a disagreement between the code and a text of the
repository (quoted in `PROJECT.json`):

| Run | What happens |
|---|---|
| `conference_join_race` | a session ends between the check and the join, the assertion ends the server |
| `conference_leave_many` | leaving one session drops the others from the thread's list |
| `client_count` | a join after a leave overwrites another session |
| `fragmentation_multiple` | a file of 1000, 2000, ... bytes arrives with 1000 zero bytes more |

The model shows more of the same with other constants. They tell why the passing
runs are restricted as they are, and can be reproduced by changing the setting:

| Property that fails | Setting | What happens |
|---|---|---|
| `HandshakeEnds` | `transfer` | the answer to `ftp` is awaited without a timeout (`deliver.c:237`): a lost handshake datagram stops the transfer |
| `SendingEnds` without `~armed` | `transfer` | the timeout truncates to zero (`deliver.c:132`) and a lost datagram is not sent again |
| `TimeoutPositive` | `rtt_usual` with `TinySamples`, `TinyInitRTTs` | samples below 8 microseconds drive the timeout to zero |
| `DoneMeansDelivered` as in `FileTransfer` | `transfer_lab3` | the last fragment is acknowledged and not written when its flag happens to read as set (`LAB3/server.c:85`, `89`) |
| `LoggedInOnce` | `conference_concurrent` with `OneNameTwice`, without symmetry | two logins under one name succeed: the list is searched without the mutex (`server.c:104`) |
| `ListsAgree` | the same | a departure strikes off the other client of its name |
| `Implements` | `conference_concurrent` with `NobodyRefused` and `MaxCreated = 2`, without symmetry | `sessionCnt` is read outside its mutex (`server.c:264`): one number for two sessions |
| `LoginsLoseNobody` of `ConferenceLab1` | `conference_lab1` with `Spec` for `Lab1Spec` | the second unlock of LAB2 (`server.c:246`) frees the mutex a login holds, a second login enters, and one of the two nodes is lost |
| `ListedWhenLoggedIn` | `conference_concurrent` | a login during a departure is lost from the list (`server.c:438`) |
| `NothingBeforeLogin`, `NoExit` | `conference_concurrent` | the socket is closed before the sessions are left (`server.c:420`): a message reaches a newcomer on that descriptor, or nobody, which ends the server (`server.c:334`) |
| `IdleServerExits` without `LeftUncounted` | `conference_liveness` | a connection that never logged in is not counted off (`server.c:446`), the server stays up |
| `EngagedIsListed`, `ListedIsMember`, `StaysBelowLimit` | `client_waits` with `Waits = FALSE`, `MaxLines = 4` | joins under way pass the limit (`client.c:235`) and are stored behind the array; a reply stored while `/leavesession` or a logout is under way is struck off in place of another, or outlives it |
| `SendsWhatItBuilt` | `client_waits` | a packet received between `packetToString()` and `send()` goes to the server instead of the request (`client.c:51`) |
| `SendsTheTextTyped` | `client_waits` | a packet received after a line was read replaces the command by text (`client.c:51`) |
| `MutexIsReleased` | `client_waits` | the thread is cancelled while it announces an invitation and keeps the mutex (`client.c:216`); the next line waits for ever |
| `0 <= session_count` | `client_waits` | `/leavesession -1` finds a free place, which holds -1 (`client.c:277`), and counts a session off; the next one is stored before the array |

## Fairness

`FileTransfer!FairSpec` is weak fairness of each process: it runs while it has a
datagram to read or an expired timer. Nothing is assumed of the network, so the
client may well end in failure. It is enough for the server's first loop, which
has no timeout: the client repeats a fragment until it is acknowledged or gives
up. `FileTransferLab3!FairSpec` is weak fairness of the client alone. `ConferenceServer!FairSpec` is weak fairness of
every thread that is serving a request (the scheduler runs it and its sends
return) and of the timeout of `accept()`, which `SO_RCVTIMEO` repeats; nothing is
assumed of the clients. The other specifications are checked for safety only.

## Proofs

All theorems are proved by TLAPS for every value of the constants that satisfies
the assumptions of their module.

* `FileTransferProofs`. `FileInOrder` is not inductive: the server appends
  whatever number it reads first, so the order rests on what can be in flight.
  `IInv` adds that: nothing but handshake words before the handshake is answered
  (`HandshakeInv`); no fragment the client has not reached, no ACK of a fragment
  not yet written, no FIN of a client still sending, no newer text in a buffer
  (`WireInv`); `fragRecv` and the file agree (`FileInv`); and both control points
  match the progress (`PhaseInv`). Each action preserves each part; the safety
  properties of `transfer` follow, and `Refinement` shows every step to be
  a step or a stutter of `ReliableTransfer`. `FinIsTrue` says
  of any `FinText` how far a fragment that reads `FIN` can mislead the server: it is in its second
  loop only when everything is written, and by then the client has reached its last fragment.
  `DatagramsProofs` holds the lemmas about the network that both transfers use.
* `FileTransferLab3Proofs`. `CompleteBeforeLast`: the server does not look for what
  is missing, so the completeness of its file rests on the client. `Inv` says that
  the client passes only fragments that are written, that acknowledgements and flags
  are of written fragments, all up to the last one, and that no fragment is in flight
  before the client reached it; hence whoever sees the last one has the others.
  `Refinement` adds the fragments the server has flagged and shows that every step is one of
  `ReliableTransfer` or a stutter: the file without the last fragment, its numbers below
  it taken in order (`Certain`), grows by one fragment at a time.
* `RttProofs`. Bounds on the two averages are preserved because each new value is a
  rounded mean of old values; `TimerStaysArmed` assumes samples and initial values
  of at least 8; below, TLC finds the timeout at zero.
* `FragmentationProofs`. The loop invariant gives position and declared size after
  any number of packets; `LengthOffMultiples` and `NothingLeftUnread` follow from
  the division of the length by the packet size, whose uniqueness is a lemma.
* `ConferenceProofs`. `GoesDownIdle` and `Lab1GoesDownIdle`: `userConnectedCnt` is not
  the number of threads being served, because a connection that never logged in is
  not counted off; `CountInv` says it is at least that number, which is enough for
  the server not to go down under a client. The lemmas sort the steps of a
  request by whether they touch the count or the mutex, so that the proofs are about
  four kinds of step and not about forty. `LoginsKeepNodes`: in LAB1 whoever is
  inside a login holds the mutex and only the holder frees it (`MutexInv`), so the head that a
  login has read is still the head when it is written (`LoginInv`), until a departure, which
  does not take the mutex, moves it; in LAB2 the second unlock breaks this, and the property with it.
  `Types` is about the counters: `TypeOK` is not inductive, because nothing in it keeps
  `sessionCnt` and `userConnectedCnt` from passing their bounds, nor accounts for a free
  descriptor when a client is accepted. `TypeInv` adds
  that a number is kept for everyone who is creating a session
  (`sessionCnt + Cardinality(Creating) <= MaxCreated + 1`), that a connection not made yet
  is not counted (`userConnectedCnt + Cardinality(Absent) <= Cardinality(Threads)`), and
  that open connections have different descriptors (`SocketInv`). It has no hypotheses.
  `SerialInv` is about servers that serve one request at a time, and serves `Terms` below: names
  are online once, and the list of users has a node for everyone.
  The module begins with what the lists of `user.h` do, as facts about sequences.
* `ConferenceAccountsProofs`. Who is in which session, for any number of threads that
  interleave freely. `ListsAgree` says what holds between requests; the invariant says how
  far the four accounts may differ within one. `AccountInv(t)` has a part per account:
  what the client was told (`ClientInv`), the private list (`PrivateInv`), the shared
  list (`MemberInv`), the node (`NodeInv`), each by where thread `t` is; `ListInv` says that
  session numbers on the list are distinct and used up, nobody is in a session
  twice, and a number is as high as `sessionCnt` only while its session is being created. It is
  enough, because a step of another thread changes no account of `t`
  (`OthersKept`): that is the content of the proof, and the step lemmas say it of every
  step of both versions. The operators of `user.h` are characterised first, as
  sets (`RemoveUserIs`, `InitSessionIs`, `JoinSessionIs`, `LeaveSessionIs`). From the
  invariant follow `Lab1Accounts`, `Lab1Broadcast` and `Lab1Refinement`, and with `LeaveInv`
  for the steps of LEAVE_SESS `Accounts` and `Refinement` of LAB2.
  Hypotheses, without which TLC finds the properties violated (see the tables above):
  `Terms`, which is either names of their
  own (`NamesDiffer`: two logins of one name can succeed at once) and one connection that
  creates sessions (`OneCreator`: `sessionCnt`), or one request served at a time (`Serial`)
  with any names and creators, where `SerialInv` gives the two facts the argument needs, that
  no two who are online share a name and that no two create at once; and in LAB2 that a
  client leaves a session by LEAVE_SESS only if it is in no other (`LeavesOnly`).
  `conference_lab1` and `conference_concurrent` are instances of the first form of `Terms`.

  `LeavingIsAssertFree` is what the accounts are good for: a thread about to leave a session, by
  LEAVE_SESS or at its end, is among its users, so the session exists; and the node it strikes the
  session off has it. No such theorem holds of joining (`conference_join_race`).
* `ConferenceClientProofs`. `Typed` and `Invitations` hold of any user and any interleaving
  (`BaseInv`). An invitation is announced in three steps, the first of which sets `invit`; `InvitInv`
  says that until the session is stored the announcement holds the mutex, cancelled or not, so
  that an answer finds either a session that was stored or a mutex that is never free.
  `Engaged`, `Members` and `BelowLimit` have the hypothesis `Waits`, a user who types the next line
  when the answer to the last request has been handled; without it they fail, as the table above
  says. It leaves the threads and the other users free, so the invariant `WaitInv` is about
  what they may do to each other. `PipeInv`: at most one request or reply is on its way, behind
  everything sent before it, and what `main()` passes to `send()` is what it built or a packet
  that the server takes for nothing. `ListInv`: the count leaves room for what was asked for;
  what is listed or granted is in the server's list, once, unless the request to leave it is
  already sent; a listed place that is being left is the one that was looked up.

Least elements (`SelectInSeq` takes the first place of several) come from
`LeastNatural`: strict inclusion of finite sets is a well-founded relation, and the library
states well-founded minima about sets, so no induction scheme has to be instantiated.

Only model-checked are the liveness properties, which are out of reach of the prover:
`SendingEnds` (both transfers), `FinWaitEnds` and `ServerLeavesLoop` of the file
transfer, `RequestsEnd` and `IdleServerExits` of the conference server. Every other
property of a passing run is stated by a theorem.

## Not modelled, and why

* The layout of packets: an overflow by a long file name, text with colons, a
  packet that TCP delivers in two parts.
* The choice of the output name among existing files.
* A thread that stands on a node of `sessionList` while another one frees it
  (`server.c:163`, `328`, which read without the mutex): traversals are single
  steps, between which lists change, and so is a section under the mutex.
* `QUERY`, which only reads, and the loading of `userlist.txt`.
* The end of the connection by the server as the client sees it (`client.c:55`).
* The behaviour of a mutex that is unlocked while nobody holds it: it stays free,
  as the usual implementation does.
* File transfer LAB1 and LAB2 are the handshake only; the first conference client
  has one flag instead of a list of sessions and otherwise the threads and the
  buffer of the second; `session.h` is not included by any file; the Wireshark labs
  contain no program.

## Plan

1. Done: the file transfer of LAB4 with its abstract specification, timer,
   fragmentation, and their proofs; the file transfer of LAB3 against the same
   abstract specification; the conference server of both versions with
   `userLoggedin_mutex`, against an abstract conference; the conference client.
2. Done: proofs about `FileTransferLab3`, among them its refinement; about the count of
   connections and the mutex of the conference server; about who is in which session, with
   the refinement of `Conference` by both versions; about the conference client.
3. Done: the types of `ConferenceServer`; what leaving and logging in keep while the threads
   interleave (`LeavingNeverAsserts`, `LoginsLoseNobody`); the client with both threads free.
4. Open: the output-name loop (`server.c:70-85`), and the end of the connection as the
   client sees it.
