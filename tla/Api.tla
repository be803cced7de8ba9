---------------------------------- MODULE Api ----------------------------------
(***************************************************************************)
(* Who owns what in the engine: the connections of the API's users         *)
(* (engine/command.c, engine/command2.c), the managers that stand for      *)
(* their sessions (engine/manager.c), the queues that managers are lent to *)
(* and their subscribers (engine/queue.c), and the handler that tells a    *)
(* user of its sessions (handler_withuser of engine/handler.c).            *)
(*                                                                         *)
(* A queue at work is seen from outside here: which of its states it is    *)
(* in, and that it gives its two sessions commands and listings.  Queue.tla *)
(* has the inside of it, Session.tla the inside of a session.              *)
(***************************************************************************)
EXTENDS Naturals, FiniteSets

CONSTANTS
  User,      \* the connections of users; each connects once
  MaxSid,    \* bound: managers ever created
  MaxQid,    \* bound: queues ever created
  MaxAsks,   \* bound: commands of users, or of a queue, waiting in one session
  MaxLost,   \* bound: sessions lost
  SslOnly,   \* whether command_ssl_only is YES
  HasKey     \* whether the engine has a certificate, net_server_SSL

Sid == 1 .. MaxSid
Qid == 1 .. MaxQid
NoUser == "nobody"

ASSUME ApiAssumption ==
  /\ MaxSid \in Nat /\ MaxQid \in Nat /\ MaxAsks \in Nat /\ MaxLost \in Nat
  /\ SslOnly \in BOOLEAN /\ HasKey \in BOOLEAN
  /\ NoUser \notin User

\* A session, or "none": how many commands of users (asks) and of a queue (jobs)
\* wait for their reply, a listing for its 226; whether it has made a listing,
\* which stays in its cache; and which handler hears of it all.
SessionState ==
  [st: {"none", "login", "up"}, asks: 0 .. MaxAsks, jobs: 0 .. MaxAsks,
   listed: BOOLEAN, hear: {"user", "queue"}]

\* A manager: "freed" has id 0 and waits for manager_cleanup; old says that
\* old_session is set; told is what its owner last heard of the session.
ManagerState ==
  [life: {"none", "live", "freed", "gone"}, user: User \cup {NoUser},
   qid: Qid \cup {0}, s: SessionState, old: BOOLEAN,
   told: {"none", "up", "down"}]

\* A queue: IDLE, START, OPEN (QUEUE_ISCONNECTED), WAIT (QUEUE_START_NEXT_ITEM),
\* or in any of the states in which it works on an item.  Its two managers are
\* alike here.
QueueState ==
  [st: {"none", "IDLE", "START", "OPEN", "WAIT", "WORK", "freed"},
   mgrs: SUBSET Sid, subs: SUBSET User]

VARIABLES
  turn,      \* "poll": in lion_poll; "run": queue_run, until manager_cleanup
  engine,    \* "up", "stop" once engine_running is 0, "crash" after a NULL pointer
  conn, tls, \* per connection: its place in the login; whether it is secure
  clients,   \* num_clients
  mgr, queue,
  lost       \* what is left of the bound

vars == <<turn, engine, conn, tls, clients, mgr, queue, lost>>
users == <<conn, tls, clients>>

NoSession == [st |-> "none", asks |-> 0, jobs |-> 0, listed |-> FALSE, hear |-> "user"]
NewSession(h) == [NoSession EXCEPT !.st = "login", !.hear = h]

NoManager ==
  [life |-> "none", user |-> NoUser, qid |-> 0, s |-> NoSession, old |-> FALSE,
   told |-> "none"]
NoQueue == [st |-> "none", mgrs |-> {}, subs |-> {}]

Init ==
  /\ turn = "poll" /\ engine = "up" /\ lost = 0 /\ clients = 0
  /\ conn = [u \in User |-> "off"] /\ tls = [u \in User |-> FALSE]
  /\ mgr = [m \in Sid |-> NoManager]
  /\ queue = [q \in Qid |-> NoQueue]

-----------------------------------------------------------------------------
(* Managers and their sessions. *)

Live(m) == mgr[m].life = "live"
Here(q) == queue[q].st \notin {"none", "freed"}
Members(q) == queue[q].mgrs

IsIdle(s) == s.st = "up" /\ s.asks + s.jobs = 0

\* SESSION_EVENT_IDLE: an owner is told, CONNECT at first, then IDLE.
PostIdle(r) ==
  IF IsIdle(r.s) /\ r.s.hear = "user" /\ r.user # NoUser
  THEN [r EXCEPT !.told = "up"]
  ELSE r

\* Mutant: the owner is not told.
LostSilently(r) == [r EXCEPT !.s = NoSession, !.old = TRUE]

\* SESSION_EVENT_LOST, in either handler.
Lost(r) ==
  [r EXCEPT !.s = NoSession, !.old = TRUE,
            !.told = IF r.s.hear = "user" /\ r.user # NoUser THEN "down" ELSE @]

\* session_set_handler: an idle session says so, unless it has made a listing.
SetHandler(r, h) ==
  LET r1 == [r EXCEPT !.s.hear = h]
  IN  IF r.s.listed THEN r1 ELSE PostIdle(r1)

SetUser(r, u) == [r EXCEPT !.user = u, !.told = "none"]
Unlink(r) == [r EXCEPT !.user = NoUser, !.told = "none"]

\* The session is closed, and freed with the manager by manager_cleanup.
Release(r) ==
  [Unlink(r) EXCEPT !.life = "freed", !.qid = 0, !.s = NoSession,
                    !.old = r.old \/ r.s.st # "none"]

NewManager(u) ==
  [SetUser(NoManager, u) EXCEPT !.life = "live", !.s = NewSession("user")]

\* Mutant: a manager that nobody owns is kept.
ReleaseUnownedNot(r) == [r EXCEPT !.qid = 0]

\* What a queue that is freed does to its managers.
ReleaseUnowned(r) ==
  LET r1 == [r EXCEPT !.qid = 0]
  IN  IF r.user = NoUser THEN Release(r1) ELSE r1

CmdqNew(r) == [r EXCEPT !.s.asks = @ + 1]
AskDone(r) == [r EXCEPT !.s.asks = @ - 1]
JobDone(r) == [r EXCEPT !.s.jobs = @ - 1]
Room(m) == mgr[m].s.asks < MaxAsks

SetMgr(ms, Op(_)) == mgr' = [m \in Sid |-> IF m \in ms THEN Op(mgr[m]) ELSE mgr[m]]

FreshSid == {m \in Sid : mgr[m].life = "none" /\ \A k \in 1 .. m - 1 : mgr[k].life # "none"}
FreshQid == {q \in Qid : queue[q].st = "none" /\ \A k \in 1 .. q - 1 : queue[k].st # "none"}

-----------------------------------------------------------------------------
(* Connections. *)

Polls == turn = "poll" /\ engine # "crash"
Says(u) == Polls /\ conn[u] = "auth"

Connect(u) ==
  /\ Polls /\ conn[u] = "off"
  /\ conn' = [conn EXCEPT ![u] = "anon"]
  /\ UNCHANGED <<turn, engine, tls, clients, mgr, queue, lost>>

\* SSL and the negotiation, which may fail and leave the connection as it is.
Ssl(u) ==
  /\ Polls /\ conn[u] = "anon" /\ HasKey
  /\ tls' = [tls EXCEPT ![u] = TRUE]
  /\ UNCHANGED <<turn, engine, conn, clients, mgr, queue, lost>>

\* AUTH with the right password, then command2_register.
Auth(u) ==
  /\ Polls /\ conn[u] = "anon" /\ (SslOnly => tls[u])
  /\ conn' = [conn EXCEPT ![u] = "auth"]
  /\ clients' = clients + 1
  /\ UNCHANGED <<turn, engine, tls, mgr, queue, lost>>

\* QUIT closes the connection; its handler is called for it later.
Quit(u) ==
  /\ Says(u)
  /\ conn' = [conn EXCEPT ![u] = "closing"]
  /\ UNCHANGED <<turn, engine, tls, clients, mgr, queue, lost>>

\* The connection of an anonymous user ends.
ClosedAnon(u) ==
  /\ Polls /\ conn[u] = "anon"
  /\ conn' = [conn EXCEPT ![u] = "gone"]
  /\ UNCHANGED <<turn, engine, tls, clients, mgr, queue, lost>>

UnlinkAll(u) ==
  [m \in Sid |->
     IF mgr[m].user # u THEN mgr[m]
     ELSE IF mgr[m].qid = 0 THEN Release(mgr[m]) ELSE Unlink(mgr[m])]

\* Mutant: the user stays a subscriber.
ClosedSubscribed(u) ==
  /\ Polls /\ conn[u] \in {"auth", "closing"}
  /\ conn' = [conn EXCEPT ![u] = "gone"]
  /\ clients' = clients - 1
  /\ mgr' = UnlinkAll(u)
  /\ UNCHANGED <<turn, engine, tls, queue, lost>>

\* The connection of a user is closed or lost: the managers are released, or
\* left to their queue, and the queues forget the subscriber.
Closed(u) ==
  /\ Polls /\ conn[u] \in {"auth", "closing"}
  /\ conn' = [conn EXCEPT ![u] = "gone"]
  /\ clients' = clients - 1
  /\ mgr' = UnlinkAll(u)
  /\ queue' = [q \in Qid |-> [queue[q] EXCEPT !.subs = @ \ {u}]]
  /\ UNCHANGED <<turn, engine, tls, lost>>

\* SHUTDOWN, with LASTCLIENT or without.
Shutdown(u, last) ==
  /\ Says(u) /\ (last => clients = 1)
  /\ engine' = "stop"
  /\ UNCHANGED <<turn, users, mgr, queue, lost>>

-----------------------------------------------------------------------------
(* Sessions. *)

SessionNew(u) ==
  /\ Says(u)
  /\ \E m \in FreshSid : mgr' = [mgr EXCEPT ![m] = NewManager(u)]
  /\ UNCHANGED <<turn, engine, users, queue, lost>>

\* Whoever owns it.
SessionFree(u, m) ==
  /\ Says(u) /\ Live(m) /\ mgr[m].qid = 0
  /\ SetMgr({m}, Release)
  /\ UNCHANGED <<turn, engine, users, queue, lost>>

Owns(u, m) == Says(u) /\ Live(m) /\ mgr[m].user = u

\* QUOTE, CWD, PWD, SIZE, DELE, MKD, RMD, SITE and MDTM queue a command, REN two
\* in one.
Ask(u, m) ==
  /\ Owns(u, m) /\ mgr[m].s.st # "none" /\ Room(m)
  /\ mgr' = [mgr EXCEPT ![m] = CmdqNew(@)]
  /\ UNCHANGED <<turn, engine, users, queue, lost>>

\* A command that names a file by its FID looks for it before anyone has looked
\* whether there is a session.
AskFidLost(u, m) ==
  /\ Owns(u, m) /\ mgr[m].s.st = "none"
  /\ engine' = "crash"
  /\ UNCHANGED <<turn, users, mgr, queue, lost>>

\* DIRLIST that is not answered from the cache.
Dirlist(u, m) ==
  /\ Owns(u, m) /\ mgr[m].s.st # "none" /\ Room(m)
  /\ mgr' = [mgr EXCEPT ![m] = [CmdqNew(@) EXCEPT !.s.listed = TRUE]]
  /\ UNCHANGED <<turn, engine, users, queue, lost>>

-----------------------------------------------------------------------------
(* Queues. *)

\* Mutant: a manager of another queue is taken.
QueueNewTaken(u, n, s) ==
  /\ Owns(u, n) /\ Owns(u, s) /\ n < s
  /\ \E q \in FreshQid :
       /\ queue' = [queue EXCEPT ![q] = [NoQueue EXCEPT !.st = "IDLE", !.mgrs = {n, s}]]
       /\ SetMgr({n, s}, LAMBDA r : [r EXCEPT !.qid = q])
  /\ UNCHANGED <<turn, engine, users, lost>>

QueueNew(u, n, s) ==
  /\ Owns(u, n) /\ Owns(u, s) /\ n < s /\ mgr[n].qid = 0 /\ mgr[s].qid = 0
  /\ \E q \in FreshQid :
       /\ queue' = [queue EXCEPT ![q] = [NoQueue EXCEPT !.st = "IDLE", !.mgrs = {n, s}]]
       /\ SetMgr({n, s}, LAMBDA r : [r EXCEPT !.qid = q])
  /\ UNCHANGED <<turn, engine, users, lost>>

\* QUEUEFREE, with IFIDLE or without.
QueueFree(u, q, ifidle) ==
  /\ Says(u) /\ Here(q) /\ (ifidle => queue[q].st = "IDLE")
  /\ SetMgr(Members(q), ReleaseUnowned)
  /\ queue' = [queue EXCEPT ![q] = [NoQueue EXCEPT !.st = "freed"]]
  /\ UNCHANGED <<turn, engine, users, lost>>

\* QCLONE: two more managers and a queue of their own, which is started when
\* START asks for it and then belongs to nobody.
QClone(u, q, go, sub) ==
  /\ Says(u) /\ Here(q)
  /\ \E n \in FreshSid : \E k \in FreshQid :
       /\ n + 1 \in Sid
       /\ queue' = [queue EXCEPT ![k] =
            [st |-> IF go THEN "START" ELSE "IDLE", mgrs |-> {n, n + 1},
             subs |-> IF sub THEN {u} ELSE {}]]
       /\ mgr' = [m \in Sid |->
            IF m \notin {n, n + 1} THEN mgr[m]
            ELSE LET r == [NewManager(u) EXCEPT !.qid = k]
                 IN  IF go THEN Unlink(r) ELSE r]
  /\ UNCHANGED <<turn, engine, users, lost>>

\* Mutant: queues at work are handed out too.
QGrabAlways(u, q) ==
  /\ Says(u) /\ Here(q)
  /\ SetMgr(Members(q), LAMBDA r :
       IF r.s.st = "none" THEN SetUser(r, u) ELSE SetHandler(SetUser(r, u), "user"))
  /\ UNCHANGED <<turn, engine, users, queue, lost>>

\* QGRAB takes the managers of an idle queue, whoever owned them; of another
\* queue one may become a subscriber.
QGrab(u, q) ==
  /\ Says(u) /\ Here(q) /\ queue[q].st = "IDLE"
  /\ SetMgr(Members(q), LAMBDA r :
       IF r.s.st = "none" THEN SetUser(r, u) ELSE SetHandler(SetUser(r, u), "user"))
  /\ UNCHANGED <<turn, engine, users, queue, lost>>

\* SUBSCRIBE, and the SUBSCRIBE option of GO and of QGRAB.
Subscribe(u, q) ==
  /\ Says(u) /\ Here(q)
  /\ queue' = [queue EXCEPT ![q].subs = @ \cup {u}]
  /\ UNCHANGED <<turn, engine, users, mgr, lost>>

\* UNSUBSCRIBE, and SUBSCRIBE|TOGGLE of a subscriber.
Unsubscribe(u, q) ==
  /\ Says(u) /\ Here(q)
  /\ queue' = [queue EXCEPT ![q].subs = @ \ {u}]
  /\ UNCHANGED <<turn, engine, users, mgr, lost>>

\* GO, of any user and of any queue.
Go(u, q) ==
  /\ Says(u) /\ Here(q)
  /\ SetMgr(Members(q), Unlink)
  /\ queue' = [queue EXCEPT ![q].st = "START"]
  /\ UNCHANGED <<turn, engine, users, lost>>

\* STOP|DROP in the middle of a transfer closes both sessions, which it expects
\* to be there.
Drop(u, q) ==
  /\ Says(u) /\ Here(q) /\ queue[q].st = "WORK"
  /\ IF \E m \in Members(q) : mgr[m].s.st = "none"
     THEN engine' = "crash" /\ UNCHANGED <<mgr, queue>>
     ELSE /\ SetMgr(Members(q), Lost)
          /\ queue' = [queue EXCEPT ![q].st = "IDLE"]
          /\ UNCHANGED engine
  /\ UNCHANGED <<turn, users, lost>>

\* QCOMPARE reads the other side's directory, session or not.
QCompareLost(u, q) ==
  /\ Says(u) /\ Here(q)
  /\ \E m \in Members(q) : mgr[m].s.listed
  /\ \E m \in Members(q) : mgr[m].s.st = "none"
  /\ engine' = "crash"
  /\ UNCHANGED <<turn, users, mgr, queue, lost>>

-----------------------------------------------------------------------------
(* What sessions do in the poll. *)

\* The login is over: what has been asked for meanwhile is sent first.
LoginDone(m) ==
  /\ Polls /\ mgr[m].s.st = "login"
  /\ mgr' = [mgr EXCEPT ![m] = PostIdle([@ EXCEPT !.s.st = "up"])]
  /\ UNCHANGED <<turn, engine, users, queue, lost>>

\* A command is answered; a listing when its 226 has come and its data channel
\* is closed.
Reply(m) ==
  /\ Polls /\ mgr[m].s.st = "up"
  /\ \/ /\ mgr[m].s.asks > 0
        /\ mgr' = [mgr EXCEPT ![m] = PostIdle(AskDone(@))]
     \/ /\ mgr[m].s.jobs > 0
        /\ mgr' = [mgr EXCEPT ![m] = PostIdle(JobDone(@))]
  /\ UNCHANGED <<turn, engine, users, queue, lost>>

\* The control connection is lost, or closed after a refusal.
Lose(m) ==
  /\ Polls /\ mgr[m].s.st # "none" /\ lost < MaxLost
  /\ mgr' = [mgr EXCEPT ![m] = Lost(@)]
  /\ lost' = lost + 1
  /\ UNCHANGED <<turn, engine, users, queue>>

-----------------------------------------------------------------------------
(* queue_run and manager_cleanup. *)

\* lion_poll returns.
Wake ==
  /\ Polls
  /\ turn' = "run"
  /\ UNCHANGED <<engine, users, mgr, queue, lost>>

Runs(q, st) == turn = "run" /\ engine # "crash" /\ queue[q].st = st
Becomes(q, st) == queue' = [queue EXCEPT ![q].st = st]

\* A queue without items is idle again at once.
QueueStart(q) ==
  /\ Runs(q, "START")
  /\ \E st \in {"OPEN", "IDLE"} : Becomes(q, st)
  /\ UNCHANGED <<turn, engine, users, mgr, lost>>

QueueIsConnected(q) ==
  /\ Runs(q, "OPEN") /\ Becomes(q, "WAIT")
  /\ SetMgr(Members(q), LAMBDA r :
       IF r.s.st = "none" THEN [r EXCEPT !.s = NewSession("queue")]
       ELSE SetHandler(r, "queue"))
  /\ UNCHANGED <<turn, engine, users, lost>>

\* Mutant: the sessions are not waited for.
QueueStartNextItemNow(q) ==
  /\ Runs(q, "WAIT") /\ Becomes(q, "WORK")
  /\ UNCHANGED <<turn, engine, users, mgr, lost>>

\* QUEUE_START_NEXT_ITEM waits until both sessions are idle.
QueueStartNextItem(q) ==
  /\ Runs(q, "WAIT") /\ \A m \in Members(q) : IsIdle(mgr[m].s)
  /\ Becomes(q, "WORK")
  /\ UNCHANGED <<turn, engine, users, mgr, lost>>

\* The phases of an item: a command, or a listing, for one of the sessions.
QueueWorks(q, m, list) ==
  /\ Runs(q, "WORK") /\ m \in Members(q) /\ mgr[m].s.st # "none" /\ mgr[m].s.jobs < MaxAsks
  /\ mgr' = [mgr EXCEPT ![m].s.jobs = @ + 1, ![m].s.listed = @ \/ list]
  /\ UNCHANGED <<turn, engine, users, queue, lost>>

\* The item is done, failed or requeued, or the queue is told to stop.
QueueLeaves(q, st) ==
  /\ turn = "run" /\ engine # "crash" /\ queue[q].st \in {"WAIT", "WORK"}
  /\ Becomes(q, st)
  /\ UNCHANGED <<turn, engine, users, mgr, lost>>

\* The newest freed manager, before which manager_cleanup returns.
Newest == {m \in Sid : mgr[m].life = "freed" /\ \A k \in Sid : k > m => mgr[k].life # "freed"}

Cleaned(m) ==
  [mgr[m] EXCEPT !.s = IF mgr[m].old THEN NoSession ELSE @, !.old = FALSE,
                 !.life = IF @ = "freed" THEN "gone" ELSE @]

\* queue_run has nothing left to do at once: the managers are looked at from
\* the newest on, up to the first that is freed.
Cleanup ==
  /\ turn = "run" /\ engine # "crash"
  /\ \A q \in Qid : queue[q].st \notin {"START", "OPEN"}
  /\ mgr' = [m \in Sid |-> IF \A k \in Newest : m >= k THEN Cleaned(m) ELSE mgr[m]]
  /\ turn' = IF engine = "stop" THEN "exit" ELSE "poll"
  /\ UNCHANGED <<engine, users, queue, lost>>

-----------------------------------------------------------------------------

UserStep(u) ==
  \/ Connect(u) \/ Ssl(u) \/ Auth(u) \/ Quit(u) \/ ClosedAnon(u) \/ Closed(u)
  \/ \E last \in BOOLEAN : Shutdown(u, last)
  \/ SessionNew(u)
  \/ \E m \in Sid :
       SessionFree(u, m) \/ Ask(u, m) \/ AskFidLost(u, m) \/ Dirlist(u, m)
  \/ \E n, s \in Sid : QueueNew(u, n, s)
  \/ \E q \in Qid :
       \/ Go(u, q) \/ Drop(u, q) \/ QGrab(u, q) \/ QCompareLost(u, q)
       \/ Subscribe(u, q) \/ Unsubscribe(u, q)
       \/ \E ifidle \in BOOLEAN : QueueFree(u, q, ifidle)
       \/ \E go, sub \in BOOLEAN : QClone(u, q, go, sub)

SessionStep(m) == LoginDone(m) \/ Reply(m) \/ Lose(m)

RunStep ==
  \/ Wake \/ Cleanup
  \/ \E q \in Qid :
       \/ QueueStart(q) \/ QueueIsConnected(q) \/ QueueStartNextItem(q)
       \/ \E m \in Sid, list \in BOOLEAN : QueueWorks(q, m, list)
       \/ \E st \in {"START", "WAIT", "IDLE"} : QueueLeaves(q, st)

Next == (\E u \in User : UserStep(u)) \/ (\E m \in Sid : SessionStep(m)) \/ RunStep

Spec == Init /\ [][Next]_vars
-----------------------------------------------------------------------------
(* Properties. *)

\* Every variable keeps its type.
TypeOK ==
  /\ turn \in {"poll", "run", "exit"} /\ engine \in {"up", "stop", "crash"}
  /\ conn \in [User -> {"off", "anon", "auth", "closing", "gone"}]
  /\ tls \in [User -> BOOLEAN] /\ clients \in Nat /\ lost \in 0 .. MaxLost
  /\ mgr \in [Sid -> ManagerState] /\ queue \in [Qid -> QueueState]

\* No manager and no queue points to the freed node of a user that has gone,
\* and num_clients, which LASTCLIENT trusts, counts those that are there.
OwnersHere ==
  LET there == {u \in User : conn[u] \in {"auth", "closing"}}
  IN  /\ TypeOK
      /\ \A m \in Sid : mgr[m].user \in there \cup {NoUser}
      /\ \A q \in Qid : queue[q].subs \subseteq there
      /\ clients = Cardinality(there)

\* A queue and its managers point at each other: north_mgr and south_mgr are
\* two live managers that carry the queue's id, and nobody else carries it.
MembersAgree ==
  /\ \A q \in Qid : Here(q) =>
       /\ Cardinality(Members(q)) = 2
       /\ \A m \in Members(q) : Live(m) /\ mgr[m].qid = q
  /\ \A m \in Sid : mgr[m].qid # 0 => Here(mgr[m].qid) /\ m \in Members(mgr[m].qid)

\* A live manager belongs to a user or to a queue: nothing keeps a session open
\* that no one can reach any more.
NoOrphan == \A m \in Sid : Live(m) => mgr[m].user # NoUser \/ mgr[m].qid # 0

\* A queue that is not idle is the only master of its sessions, and a user who
\* owns a session is the one that hears of it.
OneMaster ==
  /\ \A q \in Qid : Here(q) /\ queue[q].st # "IDLE" =>
       \A m \in Members(q) : mgr[m].user = NoUser
  /\ \A m \in Sid : mgr[m].user # NoUser => mgr[m].s.hear = "user"

\* When a queue starts on an item no command or listing of a user is left in
\* its sessions: the replies it counts are its own.
NotMixed ==
  \A q \in Qid : queue[q].st = "WORK" =>
    \A m \in Members(q) : mgr[m].s.asks = 0

\* An owner that was last told CONNECT or IDLE is told when the session goes.
\* It is not when old_session is still set: manager_cleanup then takes the
\* session that has replaced the lost one along with it.
LossIsTold ==
  [][\A m \in Sid :
       (/\ mgr[m].told = "up" /\ mgr'[m].user = mgr[m].user
        /\ mgr[m].s.st = "up" /\ mgr'[m].s.st # "up" /\ ~mgr[m].old)
         => mgr'[m].told = "down"]_vars

=============================================================================
