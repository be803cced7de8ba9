------------------------------- MODULE ApiProofs -------------------------------
(***************************************************************************)
(* What Api promises, proved for any users, any bounds and any settings:   *)
(* no manager or queue points to a user that has gone, a queue and its     *)
(* managers point at each other, no live manager is without an owner, a    *)
(* queue that works is the only master of its sessions and works on them   *)
(* alone, and the loss of a session is told.                               *)
(*                                                                         *)
(* One inductive invariant carries all of them.  They lean on each other:  *)
(* a queue is alone with its sessions because nobody owns its managers,    *)
(* which stays so because each of them is a member of this queue only.     *)
(***************************************************************************)
EXTENDS Api, FiniteSetTheorems, TLAPS

There == {u \in User : conn[u] \in {"auth", "closing"}}

\* What is true of each manager by itself.  A manager that is not live has let
\* go of everything, and only an owner has ever been told anything.
ManagerOK(r) ==
  /\ r \in ManagerState
  /\ r.life # "live" => r.user = NoUser /\ r.qid = 0 /\ r.s = NoSession
  /\ r.life = "live" => r.user # NoUser \/ r.qid # 0
  /\ r.s.st = "none" => r.s = NoSession
  /\ r.told = "up" => r.user # NoUser
  /\ r.user # NoUser => r.s.hear = "user"

ManagersInv ==
  /\ \A m \in Sid : ManagerOK(mgr[m])
  /\ \A m \in Sid : mgr[m].life # "none" => \A k \in 1 .. m - 1 : mgr[k].life # "none"

UsersInv ==
  /\ IsFiniteSet(There) /\ clients = Cardinality(There)
  /\ \A m \in Sid : mgr[m].user \in There \cup {NoUser}
  /\ \A q \in Qid : queue[q].subs \subseteq There

\* A queue that is not idle has its sessions to itself.
QueuesInv ==
  \A q \in Qid, m \in Sid : Here(q) /\ queue[q].st # "IDLE" /\ m \in Members(q) =>
    /\ mgr[m].user = NoUser
    /\ queue[q].st = "WORK" => mgr[m].s.asks = 0

IInv == TypeOK /\ ManagersInv /\ UsersInv /\ MembersAgree /\ QueuesInv

-----------------------------------------------------------------------------
(* Managers one by one. *)

\* A manager that stays in its queue, or in none, may change hands.
SamePlace(r, r1) ==
  /\ ManagerOK(r1) /\ r1.qid = r.qid
  /\ r1.life = "none" <=> r.life = "none"
  /\ r1.life = "live" <=> r.life = "live"

\* Where it does not, its session may change, but a manager without an owner is
\* given no command of a user.
StaysOK(r, r1) ==
  /\ SamePlace(r, r1) /\ r1.user = r.user
  /\ r1.s.asks # 0 => r.s.asks # 0 \/ r.user # NoUser

\* No session, and one that logs in for its user or for its queue.
LEMMA Sessions ==
  /\ NoSession \in SessionState /\ NoSession.st = "none"
  /\ NoSession.hear = "user" /\ NoSession.asks = 0
  /\ \A h \in {"user", "queue"} :
       /\ NewSession(h) \in SessionState /\ NewSession(h).st = "login"
       /\ NewSession(h).hear = h /\ NewSession(h).asks = 0
<1>1. /\ NoSession \in SessionState /\ NoSession.st = "none"
      /\ NoSession.hear = "user" /\ NoSession.asks = 0
  BY ApiAssumption DEF NoSession, SessionState
<1>2. ASSUME NEW h \in {"user", "queue"}
      PROVE  /\ NewSession(h) \in SessionState /\ NewSession(h).st = "login"
             /\ NewSession(h).hear = h /\ NewSession(h).asks = 0
  BY <1>1 DEF NewSession, SessionState
<1> QED
  BY <1>1, <1>2

\* A manager that was never made, and one that has just been made.
LEMMA NewManagerOK ==
  ASSUME NEW u \in User
  PROVE  /\ ManagerOK(NoManager)
         /\ ManagerOK(NewManager(u))
         /\ NewManager(u).life = "live" /\ NewManager(u).user = u
         /\ NewManager(u).qid = 0 /\ NewManager(u).told = "none"
         /\ NewManager(u).s.asks = 0 /\ NewManager(u).s.st = "login"
<1>1. NoSession \in SessionState
  BY Sessions
<1>2. NewSession("user") \in SessionState
  BY Sessions
<1>3. u # NoUser
  BY ApiAssumption
<1>4. ManagerOK(NoManager)
  BY <1>1, ApiAssumption DEF NoManager, ManagerOK, ManagerState
<1> DEFINE r == SetUser(NoManager, u)
<1>5. /\ r \in ManagerState /\ r.life = "none" /\ r.user = u /\ r.qid = 0
      /\ r.told = "none"
  BY <1>1 DEF SetUser, NoManager, ManagerState
<1> HIDE DEF r
<1>6. /\ NewSession("user").st = "login" /\ NewSession("user").hear = "user"
      /\ NewSession("user").asks = 0
  BY Sessions
<1>7. /\ NewManager(u) \in ManagerState /\ NewManager(u).life = "live"
      /\ NewManager(u).user = u /\ NewManager(u).qid = 0
      /\ NewManager(u).told = "none" /\ NewManager(u).s = NewSession("user")
  BY <1>2, <1>5 DEF NewManager, r, ManagerState
<1> QED
  BY <1>3, <1>4, <1>6, <1>7 DEF ManagerOK

\* handler_withuser tells the owner of an idle session and changes nothing else.
LEMMA PostIdleOK ==
  ASSUME NEW r, ManagerOK(r)
  PROVE  StaysOK(r, PostIdle(r)) /\ PostIdle(r).s = r.s
BY DEF PostIdle, ManagerOK, StaysOK, SamePlace, ManagerState, SessionState

\* A session that stays open and answers to the same handler.
LEMMA SessionOK ==
  ASSUME NEW r, ManagerOK(r), r.s.st # "none",
         NEW s \in SessionState, s.st # "none", s.hear = r.s.hear,
         s.asks # 0 => r.s.asks # 0 \/ r.user # NoUser
  PROVE  StaysOK(r, [r EXCEPT !.s = s])
<1>1. NoSession.st = "none"
  BY Sessions
<1>2. /\ [r EXCEPT !.s = s] \in ManagerState
      /\ [r EXCEPT !.s = s].s = s /\ [r EXCEPT !.s = s].life = r.life
      /\ [r EXCEPT !.s = s].user = r.user /\ [r EXCEPT !.s = s].qid = r.qid
      /\ [r EXCEPT !.s = s].told = r.told
  BY DEF ManagerOK, ManagerState
<1> QED
  BY <1>1, <1>2 DEF ManagerOK, StaysOK, SamePlace

\* A session that is lost.
LEMMA LostOK ==
  ASSUME NEW r, ManagerOK(r)
  PROVE  StaysOK(r, Lost(r)) /\ Lost(r).s = NoSession
<1>1. NoSession \in SessionState /\ NoSession.hear = "user" /\ NoSession.asks = 0
  BY Sessions
<1> QED
  BY <1>1 DEF Lost, ManagerOK, StaysOK, SamePlace, ManagerState

\* session_set_handler for an owner, or for the queue of a manager without one.
LEMMA SetHandlerOK ==
  ASSUME NEW r, NEW h \in {"user", "queue"}, ManagerOK(r), r.s.st # "none",
         r.user # NoUser => h = "user"
  PROVE  StaysOK(r, SetHandler(r, h)) /\ SetHandler(r, h).s.asks = r.s.asks
<1> DEFINE r1 == [r EXCEPT !.s.hear = h]
<1>1. /\ ManagerOK(r1) /\ r1.life = r.life /\ r1.user = r.user /\ r1.qid = r.qid
      /\ r1.s.asks = r.s.asks
  BY DEF ManagerOK, ManagerState, SessionState, NoSession
<1> HIDE DEF r1
<1>2. StaysOK(r1, PostIdle(r1)) /\ PostIdle(r1).s = r1.s
  BY <1>1, PostIdleOK
<1> QED
  BY <1>1, <1>2 DEF SetHandler, StaysOK, SamePlace, r1

\* A manager that is released lets go of everything.
LEMMA ReleaseOK ==
  ASSUME NEW r, ManagerOK(r)
  PROVE  /\ ManagerOK(Release(r))
         /\ Release(r).life = "freed" /\ Release(r).user = NoUser
         /\ Release(r).qid = 0 /\ Release(r).s = NoSession
<1>1. NoSession \in SessionState /\ NoSession.hear = "user" /\ NoSession.st = "none"
  BY Sessions
<1>2. (r.old \/ r.s.st # "none") \in BOOLEAN
  OBVIOUS
<1> DEFINE r1 == Unlink(r)
<1>3. r1 \in ManagerState /\ r1.user = NoUser /\ r1.told = "none"
  BY DEF Unlink, ManagerOK, ManagerState
<1> HIDE DEF r1
<1>4. /\ Release(r) \in ManagerState /\ Release(r).life = "freed"
      /\ Release(r).user = NoUser /\ Release(r).qid = 0
      /\ Release(r).s = NoSession /\ Release(r).told = "none"
  BY <1>1, <1>2, <1>3 DEF Release, r1, ManagerState
<1> QED
  BY <1>1, <1>4 DEF ManagerOK

\* A manager of a queue loses its owner and keeps the queue.
LEMMA UnlinkOK ==
  ASSUME NEW r, ManagerOK(r), r.qid # 0
  PROVE  /\ ManagerOK(Unlink(r))
         /\ Unlink(r).life = r.life /\ Unlink(r).user = NoUser
         /\ Unlink(r).qid = r.qid /\ Unlink(r).s = r.s
BY DEF Unlink, ManagerOK, ManagerState

\* A manager whose queue is freed stays only if someone owns it.
LEMMA ReleaseUnownedOK ==
  ASSUME NEW r, ManagerOK(r), r.life = "live"
  PROVE  /\ ManagerOK(ReleaseUnowned(r)) /\ ReleaseUnowned(r).qid = 0
         /\ ReleaseUnowned(r).user = r.user /\ ReleaseUnowned(r).life # "none"
<1> DEFINE r1 == [r EXCEPT !.qid = 0]
<1>1. CASE r.user = NoUser
  <2>2. Release(r1) = [Release(r) EXCEPT !.qid = 0]
    BY DEF Release, Unlink, ManagerOK, ManagerState
  <2>3. Release(r1) = Release(r)
    BY <2>2, ReleaseOK DEF ManagerOK, ManagerState
  <2> QED
    BY <1>1, <2>3, ReleaseOK DEF ReleaseUnowned
<1>2. CASE r.user # NoUser
  BY <1>2 DEF ReleaseUnowned, ManagerOK, ManagerState
<1> QED
  BY <1>1, <1>2

\* What manager_cleanup does to a manager it looks at.
LEMMA CleanedOK ==
  ASSUME NEW m \in Sid, ManagerOK(mgr[m])
  PROVE  StaysOK(mgr[m], Cleaned(m)) /\ (~mgr[m].old => Cleaned(m).s = mgr[m].s)
<1> DEFINE r == mgr[m]
<1>1. NoSession \in SessionState /\ NoSession.hear = "user" /\ NoSession.asks = 0
  BY Sessions
<1>2. /\ Cleaned(m) \in ManagerState
      /\ Cleaned(m).life = IF r.life = "freed" THEN "gone" ELSE r.life
      /\ Cleaned(m).s = IF r.old THEN NoSession ELSE r.s
      /\ Cleaned(m).user = r.user /\ Cleaned(m).qid = r.qid
      /\ Cleaned(m).told = r.told
  BY <1>1 DEF Cleaned, ManagerOK, ManagerState
<1> QED
  BY <1>1, <1>2 DEF ManagerOK, StaysOK, SamePlace

-----------------------------------------------------------------------------
(* All of them. *)

\* A queue and its managers go on agreeing while no manager changes its queue.
LEMMA MembersKept ==
  ASSUME IInv,
         \A m \in Sid : /\ mgr'[m].qid = mgr[m].qid
                        /\ mgr[m].qid # 0 => (mgr'[m].life = "live" <=> mgr[m].life = "live"),
         \A q \in Qid : queue'[q].mgrs = queue[q].mgrs /\ Here(q)' = Here(q)
  PROVE  MembersAgree'
<1>1. MembersAgree
  BY DEF IInv
<1>2. \A m \in Sid : mgr[m].qid \in Qid \cup {0}
  BY DEF IInv, TypeOK, ManagerState
<1>3. \A q \in Qid : q # 0 /\ Members(q)' = Members(q) /\ Members(q) \subseteq Sid
  BY DEF Members, IInv, TypeOK, QueueState, Qid
<1>4. \A q \in Qid : Here(q)' <=> Here(q)
  OBVIOUS
<1>5. ASSUME NEW q \in Qid, Here(q)'
      PROVE  /\ Cardinality(Members(q)') = 2
             /\ \A m \in Members(q)' : Live(m)' /\ mgr'[m].qid = q
  <2>1. /\ Cardinality(Members(q)) = 2
        /\ \A m \in Members(q) : mgr[m].life = "live" /\ mgr[m].qid = q
    BY <1>1, <1>4, <1>5 DEF MembersAgree, Live
  <2>2. ASSUME NEW m \in Members(q)
        PROVE  mgr'[m].life = "live" /\ mgr'[m].qid = q
    BY <1>3, <2>1
  <2> QED
    BY <1>3, <2>1, <2>2 DEF Live
<1>6. ASSUME NEW m \in Sid, mgr'[m].qid # 0
      PROVE  (Here(mgr[m].qid) /\ m \in Members(mgr[m].qid))'
  <2>1. PICK q \in Qid : q = mgr[m].qid /\ mgr'[m].qid = q
    BY <1>2, <1>6
  <2>2. Here(q) /\ m \in Members(q)
    <3>1. mgr[m].qid # 0 => Here(mgr[m].qid) /\ m \in Members(mgr[m].qid)
      BY <1>1 DEF MembersAgree
    <3> QED
      BY <1>6, <2>1, <3>1
  <2>3. Here(q)' /\ m \in Members(q)'
    BY <1>3, <1>4, <2>2
  <2> QED
    BY <2>1, <2>3 DEF Here, Members
<1> QED
  BY <1>5, <1>6 DEF MembersAgree

\* A step in which managers keep their places and queues their members.
LEMMA PlacesKept ==
  ASSUME IInv, UNCHANGED users,
         turn' \in {"poll", "run", "exit"}, engine' \in {"up", "stop", "crash"},
         lost' \in 0 .. MaxLost,
         mgr' \in [Sid -> ManagerState],
         \A m \in Sid : /\ SamePlace(mgr[m], mgr'[m])
                        /\ mgr'[m].user \in There \cup {NoUser},
         queue' \in [Qid -> QueueState],
         \A q \in Qid : /\ queue'[q].mgrs = queue[q].mgrs
                        /\ queue'[q].subs \subseteq There
                        /\ Here(q)' = Here(q),
         QueuesInv'
  PROVE  IInv'
<1>1. There' = There /\ clients' = clients
  BY DEF There, users
<1>2. TypeOK'
  BY DEF IInv, TypeOK, users
<1>3. ManagersInv'
  <2>1. \A m \in Sid : ManagerOK(mgr[m])'
    BY DEF SamePlace
  <2>2. ASSUME NEW m \in Sid, mgr'[m].life # "none", NEW k \in 1 .. m - 1
        PROVE  mgr'[k].life # "none"
    <3>1. k \in Sid
      BY ApiAssumption DEF Sid
    <3>2. mgr[m].life # "none"
      BY <2>2 DEF SamePlace
    <3>3. mgr[k].life # "none"
      BY <3>2 DEF IInv, ManagersInv
    <3> QED
      BY <3>1, <3>3 DEF SamePlace
  <2> QED
    BY <2>1, <2>2 DEF ManagersInv
<1>4. UsersInv'
  BY <1>1 DEF IInv, UsersInv
<1>5. MembersAgree'
  BY MembersKept DEF SamePlace
<1> QED
  BY <1>2, <1>3, <1>4, <1>5 DEF IInv

\* While nobody changes hands, a queue that works keeps its sessions to itself.
LEMMA QueuesKept ==
  ASSUME IInv,
         \A m \in Sid : StaysOK(mgr[m], mgr'[m]),
         \A q \in Qid :
           /\ queue'[q].mgrs = queue[q].mgrs
           /\ Here(q)' /\ queue'[q].st # "IDLE" => Here(q) /\ queue[q].st # "IDLE"
           /\ queue'[q].st = "WORK" => queue[q].st = "WORK"
  PROVE  QueuesInv'
<1> SUFFICES ASSUME NEW q \in Qid, NEW m \in Sid,
                    Here(q)', queue'[q].st # "IDLE", m \in Members(q)'
             PROVE  /\ mgr'[m].user = NoUser
                    /\ queue'[q].st = "WORK" => mgr'[m].s.asks = 0
  BY DEF QueuesInv
<1>1. Here(q) /\ queue[q].st # "IDLE" /\ m \in Members(q)
  BY DEF Members
<1>2. mgr[m].user = NoUser /\ (queue[q].st = "WORK" => mgr[m].s.asks = 0)
  BY <1>1 DEF IInv, QueuesInv
<1> QED
  BY <1>2 DEF StaysOK

\* A step of one session.
LEMMA OneSession ==
  ASSUME IInv, UNCHANGED <<turn, engine, users, queue>>, lost' \in 0 .. MaxLost,
         NEW m \in Sid, NEW r, StaysOK(mgr[m], r), mgr' = [mgr EXCEPT ![m] = r]
  PROVE  IInv'
<1>1. \A k \in Sid : ManagerOK(mgr[k]) /\ mgr[k].user \in There \cup {NoUser}
  BY DEF IInv, ManagersInv, UsersInv
<1>2. mgr' \in [Sid -> ManagerState] /\ \A k \in Sid : mgr'[k] = IF k = m THEN r ELSE mgr[k]
  BY DEF IInv, TypeOK, StaysOK, SamePlace, ManagerOK
<1>3. \A k \in Sid : StaysOK(mgr[k], mgr'[k])
  BY <1>1, <1>2 DEF StaysOK, SamePlace
<1>4. QueuesInv'
  BY <1>3, QueuesKept DEF Here
<1>5. \A k \in Sid : SamePlace(mgr[k], mgr'[k]) /\ mgr'[k].user \in There \cup {NoUser}
  BY <1>1, <1>3 DEF StaysOK
<1>6. /\ turn' \in {"poll", "run", "exit"} /\ engine' \in {"up", "stop", "crash"}
      /\ queue' \in [Qid -> QueueState]
  BY DEF IInv, TypeOK
<1>7. \A q \in Qid : /\ queue'[q].mgrs = queue[q].mgrs /\ queue'[q].subs \subseteq There
                     /\ Here(q)' = Here(q)
  BY DEF IInv, UsersInv, Here
<1> QED
  BY <1>2, <1>4, <1>5, <1>6, <1>7, PlacesKept

-----------------------------------------------------------------------------
(* The steps. *)

\* Nothing has been made yet.
LEMMA Begins == Init => IInv
<1> SUFFICES ASSUME Init PROVE IInv
  OBVIOUS
<1>1. NoSession \in SessionState /\ NoManager \in ManagerState /\ NoQueue \in QueueState
  BY Sessions, ApiAssumption DEF NoManager, ManagerState, NoQueue, QueueState
<1>2. TypeOK
  BY <1>1, ApiAssumption DEF Init, TypeOK
<1>3. \A m \in Sid : mgr[m] = NoManager
  BY DEF Init
<1>4. \A q \in Qid : queue[q] = NoQueue
  BY DEF Init
<1>5. ManagersInv
  <2>1. ManagerOK(NoManager)
    BY <1>1 DEF ManagerOK, NoManager
  <2>2. NoManager.life = "none"
    BY DEF NoManager
  <2> QED
    BY <1>3, <2>1, <2>2 DEF ManagersInv
<1>6. There = {}
  BY DEF There, Init
<1>7. UsersInv
  BY <1>3, <1>4, <1>6, FS_EmptySet DEF UsersInv, NoManager, NoQueue, Init
<1>8. MembersAgree /\ QueuesInv
  BY <1>3, <1>4 DEF MembersAgree, QueuesInv, Here, Members, NoQueue, NoManager
<1> QED
  BY <1>2, <1>5, <1>7, <1>8 DEF IInv

\* A connection on its way in, and QUIT.
LEMMA Connections ==
  ASSUME IInv, NEW u \in User,
         Connect(u) \/ Ssl(u) \/ Auth(u) \/ Quit(u) \/ ClosedAnon(u)
  PROVE  IInv'
<1>1. UNCHANGED <<turn, engine, mgr, queue, lost>>
  BY DEF Connect, Ssl, Auth, Quit, ClosedAnon
<1>2. ManagersInv' /\ MembersAgree' /\ QueuesInv'
  BY <1>1 DEF IInv, ManagersInv, MembersAgree, QueuesInv, Here, Members, Live
<1>3. conn \in [User -> {"off", "anon", "auth", "closing", "gone"}] /\ clients \in Nat
  BY DEF IInv, TypeOK
<1>4. TypeOK'
  <2>1. /\ conn' \in [User -> {"off", "anon", "auth", "closing", "gone"}]
        /\ clients' \in Nat
    BY <1>3 DEF Connect, Ssl, Auth, Quit, ClosedAnon
  <2>2. tls' \in [User -> BOOLEAN]
    BY DEF IInv, TypeOK, Connect, Ssl, Auth, Quit, ClosedAnon
  <2> QED
    BY <1>1, <2>1, <2>2 DEF IInv, TypeOK
<1>5. UsersInv'
  <2>1. UsersInv /\ IsFiniteSet(There)
    BY DEF IInv, UsersInv
  <2>2. CASE Auth(u)
    <3>1. There' = There \cup {u} /\ u \notin There /\ clients' = clients + 1
      BY <2>2, <1>3 DEF There, Auth
    <3>2. IsFiniteSet(There') /\ Cardinality(There') = Cardinality(There) + 1
      BY <2>1, <3>1, FS_AddElement
    <3> QED
      BY <1>1, <2>1, <3>1, <3>2 DEF UsersInv
  <2>3. CASE Connect(u) \/ Ssl(u) \/ Quit(u) \/ ClosedAnon(u)
    <3>1. There' = There /\ clients' = clients
      BY <2>3, <1>3 DEF There, Connect, Ssl, Quit, ClosedAnon, Says
    <3> QED
      BY <1>1, <2>1, <3>1 DEF UsersInv
  <2> QED
    BY <2>2, <2>3
<1> QED
  BY <1>2, <1>4, <1>5 DEF IInv

\* A step of which managers and queues know nothing.
LEMMA NothingMoves ==
  ASSUME IInv, UNCHANGED <<users, mgr, queue, lost>>,
         turn' \in {"poll", "run", "exit"}, engine' \in {"up", "stop", "crash"}
  PROVE  IInv'
<1>1. UNCHANGED <<conn, tls, clients>>
  BY DEF users
<1> QED
  BY <1>1 DEF IInv, TypeOK, ManagersInv, UsersInv, There, MembersAgree, QueuesInv,
              Here, Members, Live

\* SHUTDOWN, the two ways into a NULL pointer, and the end of lion_poll.
LEMMA EngineSteps ==
  ASSUME IInv,
         \/ Wake
         \/ \E u \in User, last \in BOOLEAN : Shutdown(u, last)
         \/ \E u \in User, m \in Sid : AskFidLost(u, m)
         \/ \E u \in User, q \in Qid : QCompareLost(u, q)
  PROVE  IInv'
<1>1. /\ UNCHANGED <<users, mgr, queue, lost>>
      /\ turn' \in {"poll", "run", "exit"} /\ engine' \in {"up", "stop", "crash"}
  BY DEF Wake, Shutdown, AskFidLost, QCompareLost, IInv, TypeOK
<1> QED
  BY <1>1, NothingMoves

\* The steps of one session: a command of a user or of a queue, a reply, a loss.
LEMMA SessionSteps ==
  ASSUME IInv, NEW m \in Sid,
         \/ \E u \in User : Ask(u, m) \/ Dirlist(u, m)
         \/ LoginDone(m) \/ Reply(m) \/ Lose(m)
         \/ \E q \in Qid, list \in BOOLEAN : QueueWorks(q, m, list)
  PROVE  IInv'
<1> DEFINE r == mgr[m]
<1>1. ManagerOK(r) /\ lost \in 0 .. MaxLost
  BY DEF IInv, ManagersInv, TypeOK
<1>0. r \in ManagerState /\ r.s \in SessionState
  BY <1>1 DEF ManagerOK, ManagerState
<1>2. CASE \E u \in User : Ask(u, m) \/ Dirlist(u, m)
  <2> DEFINE s1 == [r.s EXCEPT !.asks = @ + 1]
             s2 == [s1 EXCEPT !.listed = TRUE]
             r1 == [r EXCEPT !.s = s1]
             r2 == [CmdqNew(r) EXCEPT !.s.listed = TRUE]
  <2>1. r.user # NoUser /\ r.s.st # "none" /\ r.s.asks < MaxAsks
    BY <1>2, ApiAssumption DEF Ask, Dirlist, Owns, Room
  <2>a. s1 \in SessionState /\ s1.st = r.s.st /\ s1.hear = r.s.hear
    BY <1>0, <2>1, ApiAssumption DEF SessionState
  <2>2. StaysOK(r, r1)
    BY <1>1, <2>1, <2>a, SessionOK
  <2>3. StaysOK(r, r2)
    <3>1. s2 \in SessionState /\ s2.st = r.s.st /\ s2.hear = r.s.hear
      BY <2>a DEF SessionState
    <3>2. r1 \in ManagerState /\ r1.s = s1
      BY <1>0, <2>a DEF ManagerState
    <3>3. r2 = [r EXCEPT !.s = s2]
      BY <1>0, <2>a, <3>2 DEF CmdqNew, ManagerState
    <3> HIDE DEF s2
    <3> QED
      BY <1>1, <2>1, <3>1, <3>3, SessionOK
  <2>4. /\ mgr' = [mgr EXCEPT ![m] = r1] \/ mgr' = [mgr EXCEPT ![m] = r2]
        /\ UNCHANGED <<turn, engine, users, queue, lost>>
    BY <1>2 DEF Ask, Dirlist, CmdqNew
  <2> HIDE DEF r, r1, r2
  <2> QED
    BY <1>1, <2>2, <2>3, <2>4, OneSession DEF r
<1>3. CASE LoginDone(m)
  <2> DEFINE s1 == [r.s EXCEPT !.st = "up"]
             r1 == [r EXCEPT !.s = s1]
  <2>0. s1 \in SessionState /\ s1.st = "up" /\ s1.hear = r.s.hear /\ s1.asks = r.s.asks
    BY <1>0 DEF SessionState
  <2>1. StaysOK(r, r1)
    <3> HIDE DEF s1
    <3> QED
      BY <1>1, <1>3, <2>0, SessionOK DEF LoginDone
  <2>2. StaysOK(r, PostIdle(r1))
    BY <2>1, PostIdleOK DEF StaysOK, SamePlace
  <2>3. mgr' = [mgr EXCEPT ![m] = PostIdle(r1)] /\ UNCHANGED <<turn, engine, users, queue, lost>>
    BY <1>3 DEF LoginDone
  <2> HIDE DEF r, r1
  <2> QED
    BY <1>1, <2>2, <2>3, OneSession DEF r
<1>4. CASE Reply(m)
  <2> DEFINE s1 == [r.s EXCEPT !.asks = @ - 1]
             s2 == [r.s EXCEPT !.jobs = @ - 1]
             r1 == [r EXCEPT !.s = s1]
             r2 == [r EXCEPT !.s = s2]
  <2>1. r.s.st = "up"
    BY <1>4 DEF Reply
  <2>2. r.s.asks > 0 => StaysOK(r, PostIdle(r1))
    <3>1. r.s.asks > 0 =>
            s1 \in SessionState /\ s1.st = r.s.st /\ s1.hear = r.s.hear /\ r.s.asks # 0
      BY <1>0, ApiAssumption DEF SessionState
    <3> HIDE DEF s1
    <3>2. r.s.asks > 0 => StaysOK(r, r1)
      BY <1>1, <2>1, <3>1, SessionOK
    <3> QED
      BY <3>2, PostIdleOK DEF StaysOK, SamePlace
  <2>3. r.s.jobs > 0 => StaysOK(r, PostIdle(r2))
    <3>1. r.s.jobs > 0 =>
            /\ s2 \in SessionState /\ s2.st = r.s.st /\ s2.hear = r.s.hear
            /\ s2.asks = r.s.asks
      BY <1>0, ApiAssumption DEF SessionState
    <3> HIDE DEF s2
    <3>2. r.s.jobs > 0 => StaysOK(r, r2)
      BY <1>1, <2>1, <3>1, SessionOK
    <3> QED
      BY <3>2, PostIdleOK DEF StaysOK, SamePlace
  <2>4. /\ \/ r.s.asks > 0 /\ mgr' = [mgr EXCEPT ![m] = PostIdle(r1)]
           \/ r.s.jobs > 0 /\ mgr' = [mgr EXCEPT ![m] = PostIdle(r2)]
        /\ UNCHANGED <<turn, engine, users, queue, lost>>
    BY <1>4 DEF Reply, AskDone, JobDone
  <2> HIDE DEF r, r1, r2
  <2> QED
    BY <1>1, <2>2, <2>3, <2>4, OneSession DEF r
<1>5. CASE Lose(m)
  <2>1. StaysOK(r, Lost(r))
    BY <1>1, LostOK
  <2>2. /\ mgr' = [mgr EXCEPT ![m] = Lost(r)] /\ UNCHANGED <<turn, engine, users, queue>>
        /\ lost' \in 0 .. MaxLost
    BY <1>1, <1>5, ApiAssumption DEF Lose
  <2> HIDE DEF r
  <2> QED
    BY <2>1, <2>2, OneSession DEF r
<1>6. CASE \E q \in Qid, list \in BOOLEAN : QueueWorks(q, m, list)
  <2>1. PICK q \in Qid, list \in BOOLEAN : QueueWorks(q, m, list)
    BY <1>6
  <2> DEFINE s0 == [r.s EXCEPT !.jobs = @ + 1]
             s1 == [s0 EXCEPT !.listed = r.s.listed \/ list]
             r1 == [r EXCEPT !.s = s1]
  <2>a. r.s.st # "none" /\ r.s.jobs < MaxAsks /\ (r.s.listed \/ list) \in BOOLEAN
    BY <2>1 DEF QueueWorks
  <2>b. /\ s0 \in SessionState /\ s0.st = r.s.st /\ s0.hear = r.s.hear
        /\ s0.asks = r.s.asks /\ s0.listed = r.s.listed
    BY <1>0, <2>a, ApiAssumption DEF SessionState
  <2>c. /\ s1 \in SessionState /\ s1.st = r.s.st /\ s1.hear = r.s.hear
        /\ s1.asks = r.s.asks
    <3> HIDE DEF s0
    <3> QED
      BY <2>a, <2>b DEF SessionState
  <2>2. StaysOK(r, r1)
    <3> HIDE DEF s1
    <3> QED
      BY <1>1, <2>a, <2>c, SessionOK
  <2>3. mgr' = [mgr EXCEPT ![m] = r1] /\ UNCHANGED <<turn, engine, users, queue, lost>>
    <3> DEFINE M1 == [mgr EXCEPT ![m].s.jobs = @ + 1]
    <3>1. M1 = [mgr EXCEPT ![m] = [r EXCEPT !.s = s0]]
      OBVIOUS
    <3>2. M1[m] = [r EXCEPT !.s = s0] /\ M1[m].s = s0
      BY <1>0 DEF IInv, TypeOK, ManagerState
    <3>3. mgr' = [M1 EXCEPT ![m] = [M1[m] EXCEPT !.s = [M1[m].s EXCEPT !.listed = M1[m].s.listed \/ list]]]
      BY <2>1 DEF QueueWorks
    <3>4. mgr' = [M1 EXCEPT ![m] = [[r EXCEPT !.s = s0] EXCEPT !.s = s1]]
      <4> HIDE DEF M1, s0
      <4> QED
        BY <2>b, <3>2, <3>3
    <3>5. [[r EXCEPT !.s = s0] EXCEPT !.s = s1] = r1
      <4> HIDE DEF s0, s1
      <4> QED
        BY <1>0, <2>b, <2>c DEF ManagerState
    <3>6. mgr' = [mgr EXCEPT ![m] = r1]
      <4> HIDE DEF s0, s1
      <4> QED
        BY <3>1, <3>4, <3>5 DEF IInv, TypeOK
    <3> QED
      BY <2>1, <3>6 DEF QueueWorks
  <2> HIDE DEF r, r1
  <2> QED
    BY <1>1, <2>2, <2>3, OneSession DEF r
<1> QED
  BY <1>2, <1>3, <1>4, <1>5, <1>6

\* A manager is a member of one queue at most, whose id it carries.
LEMMA MemberOfOne ==
  ASSUME IInv, NEW q \in Qid, Here(q), NEW m \in Members(q)
  PROVE  /\ m \in Sid /\ mgr[m].life = "live" /\ mgr[m].qid = q /\ q # 0
         /\ \A k \in Qid : Here(k) /\ m \in Members(k) => k = q
BY DEF IInv, TypeOK, QueueState, MembersAgree, Members, Live, Qid

\* Every manager is where it is.
LEMMA Stands ==
  ASSUME IInv
  PROVE  \A m \in Sid : /\ mgr[m].user \in There \cup {NoUser} /\ ManagerOK(mgr[m])
                        /\ StaysOK(mgr[m], mgr[m])
BY DEF IInv, UsersInv, ManagersInv, StaysOK, SamePlace

\* Steps of a queue that leave its managers alone.
LEMMA QueueSteps ==
  ASSUME IInv, NEW q \in Qid,
         \/ \E u \in User : Subscribe(u, q) \/ Unsubscribe(u, q)
         \/ QueueStart(q) \/ QueueStartNextItem(q)
         \/ \E st \in {"START", "WAIT", "IDLE"} : QueueLeaves(q, st)
  PROVE  IInv'
<1>1. UNCHANGED <<turn, engine, users, mgr, lost>>
  BY DEF Subscribe, Unsubscribe, QueueStart, QueueStartNextItem, QueueLeaves
<1>2. /\ queue \in [Qid -> QueueState] /\ mgr \in [Sid -> ManagerState]
      /\ turn \in {"poll", "run", "exit"} /\ engine \in {"up", "stop", "crash"}
      /\ lost \in 0 .. MaxLost
  BY DEF IInv, TypeOK
<1>3. \A k \in Qid : queue[k].subs \subseteq There
  BY DEF IInv, UsersInv
<1>4. /\ queue' \in [Qid -> QueueState]
      /\ \A k \in Qid : /\ queue'[k].mgrs = queue[k].mgrs
                        /\ queue'[k].subs \subseteq There /\ Here(k)' = Here(k)
  <2>1. CASE \E u \in User : Subscribe(u, q) \/ Unsubscribe(u, q)
    <3>1. PICK u \in User : Subscribe(u, q) \/ Unsubscribe(u, q)
      BY <2>1
    <3>2. u \in There
      BY <3>1 DEF There, Subscribe, Unsubscribe, Says
    <3>3. /\ queue[q].subs \cup {u} \subseteq There
          /\ queue[q].subs \ {u} \subseteq There /\ There \subseteq User
      BY <1>3, <3>2 DEF There
    <3>4. PICK s \in SUBSET There : queue' = [queue EXCEPT ![q].subs = s]
      BY <3>1, <3>3 DEF Subscribe, Unsubscribe
    <3> QED
      BY <1>2, <1>3, <3>3, <3>4 DEF QueueState, Here
  <2>2. CASE ~\E u \in User : Subscribe(u, q) \/ Unsubscribe(u, q)
    <3>1. PICK st \in {"OPEN", "IDLE", "WORK", "START", "WAIT"} :
             queue' = [queue EXCEPT ![q].st = st]
      BY <2>2 DEF QueueStart, QueueStartNextItem, QueueLeaves, Becomes
    <3>2. Here(q)
      BY <2>2 DEF QueueStart, QueueStartNextItem, QueueLeaves, Runs, Here
    <3> QED
      BY <1>2, <1>3, <3>1, <3>2 DEF QueueState, Here
  <2> QED
    BY <2>1, <2>2
<1>5. QueuesInv'
  <2>1. CASE QueueStartNextItem(q)
    <3> SUFFICES ASSUME NEW k \in Qid, NEW m \in Sid,
                        Here(k)', queue'[k].st # "IDLE", m \in Members(k)'
                 PROVE  /\ mgr'[m].user = NoUser
                        /\ queue'[k].st = "WORK" => mgr'[m].s.asks = 0
      BY DEF QueuesInv
    <3>1. /\ queue[q].st = "WAIT" /\ queue' = [queue EXCEPT ![q].st = "WORK"]
          /\ \A n \in Members(q) : IsIdle(mgr[n].s)
      BY <2>1 DEF QueueStartNextItem, Runs, Becomes
    <3>2. m \in Members(k) /\ Here(k) /\ queue[k].st # "IDLE"
      BY <1>2, <1>4, <3>1 DEF Members, QueueState
    <3>3. mgr[m].user = NoUser /\ (queue[k].st = "WORK" => mgr[m].s.asks = 0)
      BY <3>2 DEF IInv, QueuesInv
    <3>4. mgr[m].s \in SessionState
      BY <1>2 DEF ManagerState
    <3>5. k = q => mgr[m].s.asks = 0
      BY <3>1, <3>2, <3>4, ApiAssumption DEF IsIdle, SessionState
    <3>6. k # q => queue'[k].st = queue[k].st
      BY <1>2, <3>1
    <3> QED
      BY <1>1, <3>3, <3>5, <3>6
  <2>2. CASE ~QueueStartNextItem(q)
    <3>1. \A k \in Qid :
            /\ Here(k)' /\ queue'[k].st # "IDLE" => Here(k) /\ queue[k].st # "IDLE"
            /\ queue'[k].st = "WORK" => queue[k].st = "WORK"
      BY <1>2, <2>2 DEF Subscribe, Unsubscribe, QueueStart, QueueLeaves, Becomes, Runs, Here,
                        QueueState
    <3>2. \A m \in Sid : StaysOK(mgr[m], mgr'[m])
      BY <1>1, Stands
    <3> QED
      BY <1>4, <3>1, <3>2, QueuesKept
  <2> QED
    BY <2>1, <2>2
<1>6. \A m \in Sid : SamePlace(mgr[m], mgr'[m]) /\ mgr'[m].user \in There \cup {NoUser}
  BY <1>1, Stands DEF StaysOK
<1> QED
  BY <1>1, <1>2, <1>4, <1>5, <1>6, PlacesKept

\* STOP|DROP loses both sessions.
LEMMA DropStep ==
  ASSUME IInv, NEW u \in User, NEW q \in Qid, Drop(u, q)
  PROVE  IInv'
<1>0. /\ queue \in [Qid -> QueueState] /\ turn \in {"poll", "run", "exit"}
      /\ engine \in {"up", "stop", "crash"} /\ lost \in 0 .. MaxLost
      /\ \A k \in Qid : queue[k].subs \subseteq There
  BY DEF IInv, TypeOK, UsersInv
<1>1. UNCHANGED <<turn, users, lost>> /\ Here(q) /\ queue[q].st = "WORK"
  BY DEF Drop
<1>2. CASE engine' = "crash" /\ UNCHANGED <<mgr, queue>>
  BY <1>0, <1>1, <1>2, NothingMoves
<1>3. CASE /\ SetMgr(Members(q), Lost) /\ UNCHANGED engine
           /\ queue' = [queue EXCEPT ![q].st = "IDLE"]
  <2>1. mgr' = [m \in Sid |-> IF m \in Members(q) THEN Lost(mgr[m]) ELSE mgr[m]]
    BY <1>3 DEF SetMgr
  <2>2. \A m \in Sid : StaysOK(mgr[m], mgr'[m])
    BY <2>1, LostOK, Stands
  <2>3. /\ queue' \in [Qid -> QueueState]
        /\ \A k \in Qid :
             /\ queue'[k].mgrs = queue[k].mgrs /\ queue'[k].subs \subseteq There
             /\ Here(k)' = Here(k)
             /\ Here(k)' /\ queue'[k].st # "IDLE" => Here(k) /\ queue[k].st # "IDLE"
             /\ queue'[k].st = "WORK" => queue[k].st = "WORK"
    BY <1>0, <1>1, <1>3 DEF QueueState, Here
  <2>4. QueuesInv'
    BY <2>2, <2>3, QueuesKept
  <2>5. /\ mgr' \in [Sid -> ManagerState]
        /\ \A m \in Sid : SamePlace(mgr[m], mgr'[m]) /\ mgr'[m].user \in There \cup {NoUser}
    BY <2>1, <2>2, Stands DEF StaysOK, SamePlace, ManagerOK
  <2> QED
    BY <1>0, <1>1, <1>3, <2>3, <2>4, <2>5, PlacesKept
<1> QED
  BY <1>2, <1>3 DEF Drop

\* QUEUE_ISCONNECTED opens the sessions that are not there and hears of all.
LEMMA QueueIsConnectedStep ==
  ASSUME IInv, NEW q \in Qid, QueueIsConnected(q)
  PROVE  IInv'
<1>0. /\ queue \in [Qid -> QueueState] /\ turn \in {"poll", "run", "exit"}
      /\ engine \in {"up", "stop", "crash"} /\ lost \in 0 .. MaxLost
      /\ \A k \in Qid : queue[k].subs \subseteq There
  BY DEF IInv, TypeOK, UsersInv
<1>1. /\ UNCHANGED <<turn, engine, users, lost>> /\ queue[q].st = "OPEN"
      /\ queue' = [queue EXCEPT ![q].st = "WAIT"]
      /\ mgr' = [m \in Sid |->
           IF m \notin Members(q) THEN mgr[m]
           ELSE IF mgr[m].s.st = "none" THEN [mgr[m] EXCEPT !.s = NewSession("queue")]
           ELSE SetHandler(mgr[m], "queue")]
  BY DEF QueueIsConnected, Runs, Becomes, SetMgr
<1>2. ASSUME NEW m \in Sid
      PROVE  StaysOK(mgr[m], mgr'[m])
  <2>1. CASE m \notin Members(q)
    BY <1>1, <2>1, Stands
  <2>2. CASE m \in Members(q)
    <3>1. Here(q)
      BY <1>1 DEF Here
    <3>2. mgr[m].life = "live" /\ mgr[m].qid # 0
      BY <2>2, <3>1, MemberOfOne
    <3>3. mgr[m].user = NoUser
      BY <1>1, <2>2, <3>1 DEF IInv, QueuesInv
    <3>4. ManagerOK(mgr[m])
      BY Stands
    <3>5. CASE mgr[m].s.st = "none"
      <4>1. /\ NewSession("queue") \in SessionState /\ NewSession("queue").asks = 0
            /\ NewSession("queue").st = "login"
        BY Sessions
      <4>2. mgr'[m] = [mgr[m] EXCEPT !.s = NewSession("queue")]
        BY <1>1, <2>2, <3>5
      <4>3. /\ mgr'[m] \in ManagerState /\ mgr'[m].s = NewSession("queue")
            /\ mgr'[m].life = mgr[m].life /\ mgr'[m].user = mgr[m].user
            /\ mgr'[m].qid = mgr[m].qid /\ mgr'[m].told = mgr[m].told
        BY <3>4, <4>1, <4>2 DEF ManagerOK, ManagerState
      <4> QED
        BY <3>2, <3>3, <3>4, <4>1, <4>3 DEF StaysOK, SamePlace, ManagerOK
    <3>6. CASE mgr[m].s.st # "none"
      <4>1. mgr'[m] = SetHandler(mgr[m], "queue")
        BY <1>1, <2>2, <3>6
      <4> QED
        BY <3>3, <3>4, <3>6, <4>1, SetHandlerOK
    <3> QED
      BY <3>5, <3>6
  <2> QED
    BY <2>1, <2>2
<1>3. /\ queue' \in [Qid -> QueueState]
      /\ \A k \in Qid :
           /\ queue'[k].mgrs = queue[k].mgrs /\ queue'[k].subs \subseteq There
           /\ Here(k)' = Here(k)
           /\ Here(k)' /\ queue'[k].st # "IDLE" => Here(k) /\ queue[k].st # "IDLE"
           /\ queue'[k].st = "WORK" => queue[k].st = "WORK"
  BY <1>0, <1>1 DEF QueueState, Here
<1>4. QueuesInv'
  BY <1>2, <1>3, QueuesKept
<1>5. /\ mgr' \in [Sid -> ManagerState]
      /\ \A m \in Sid : SamePlace(mgr[m], mgr'[m]) /\ mgr'[m].user \in There \cup {NoUser}
  BY <1>1, <1>2, Stands DEF StaysOK, SamePlace, ManagerOK
<1> QED
  BY <1>0, <1>1, <1>3, <1>4, <1>5, PlacesKept

\* manager_cleanup.
LEMMA CleanupStep ==
  ASSUME IInv, Cleanup
  PROVE  IInv'
<1>0. /\ queue \in [Qid -> QueueState] /\ engine \in {"up", "stop", "crash"}
      /\ lost \in 0 .. MaxLost /\ \A k \in Qid : queue[k].subs \subseteq There
  BY DEF IInv, TypeOK, UsersInv
<1>1. /\ UNCHANGED <<engine, users, queue, lost>> /\ turn' \in {"poll", "exit"}
      /\ mgr' = [m \in Sid |-> IF \A k \in Newest : m >= k THEN Cleaned(m) ELSE mgr[m]]
  BY DEF Cleanup
<1>2. \A m \in Sid : StaysOK(mgr[m], mgr'[m])
  BY <1>1, CleanedOK, Stands
<1>3. QueuesInv'
  BY <1>1, <1>2, QueuesKept DEF Here
<1>4. /\ mgr' \in [Sid -> ManagerState]
      /\ \A m \in Sid : SamePlace(mgr[m], mgr'[m]) /\ mgr'[m].user \in There \cup {NoUser}
  BY <1>1, <1>2, Stands DEF StaysOK, SamePlace, ManagerOK
<1>5. \A k \in Qid : Here(k)' = Here(k)
  BY <1>1 DEF Here
<1> QED
  BY <1>0, <1>1, <1>3, <1>4, <1>5, PlacesKept

\* GO takes the managers away from their owners.
LEMMA GoStep ==
  ASSUME IInv, NEW u \in User, NEW q \in Qid, Go(u, q)
  PROVE  IInv'
<1>0. /\ queue \in [Qid -> QueueState] /\ turn \in {"poll", "run", "exit"}
      /\ engine \in {"up", "stop", "crash"} /\ lost \in 0 .. MaxLost
      /\ \A k \in Qid : queue[k].subs \subseteq There
  BY DEF IInv, TypeOK, UsersInv
<1>1. /\ UNCHANGED <<turn, engine, users, lost>> /\ Here(q)
      /\ queue' = [queue EXCEPT ![q].st = "START"]
      /\ mgr' = [m \in Sid |-> IF m \in Members(q) THEN Unlink(mgr[m]) ELSE mgr[m]]
  BY DEF Go, SetMgr
<1>2. /\ queue' \in [Qid -> QueueState]
      /\ \A k \in Qid :
           /\ queue'[k].mgrs = queue[k].mgrs /\ queue'[k].subs \subseteq There
           /\ Here(k)' = Here(k) /\ (k # q => queue'[k] = queue[k])
  BY <1>0, <1>1 DEF QueueState, Here
<1>3. \A m \in Members(q) :
        /\ ManagerOK(mgr[m]) /\ mgr[m].qid # 0
        /\ ManagerOK(mgr'[m]) /\ mgr'[m].life = mgr[m].life /\ mgr'[m].user = NoUser
        /\ mgr'[m].qid = mgr[m].qid
  BY <1>1, MemberOfOne, Stands, UnlinkOK
<1>4. \A m \in Sid \ Members(q) : mgr'[m] = mgr[m]
  BY <1>1
<1>5. /\ mgr' \in [Sid -> ManagerState]
      /\ \A m \in Sid : SamePlace(mgr[m], mgr'[m]) /\ mgr'[m].user \in There \cup {NoUser}
  BY <1>1, <1>3, <1>4, Stands DEF StaysOK, SamePlace, ManagerOK
<1>6. QueuesInv'
  <2> SUFFICES ASSUME NEW k \in Qid, NEW m \in Sid,
                      Here(k)', queue'[k].st # "IDLE", m \in Members(k)'
               PROVE  /\ mgr'[m].user = NoUser
                      /\ queue'[k].st = "WORK" => mgr'[m].s.asks = 0
    BY DEF QueuesInv
  <2>1. m \in Members(k) /\ Here(k)
    BY <1>2 DEF Members
  <2>2. CASE k = q
    <3>1. queue'[k].st = "START"
      BY <1>0, <1>1, <2>2 DEF QueueState
    <3> QED
      BY <1>3, <2>1, <2>2, <3>1
  <2>3. CASE k # q
    <3>1. m \notin Members(q)
      BY <1>1, <2>1, <2>3, MemberOfOne
    <3> QED
      BY <1>2, <1>4, <2>1, <2>3, <3>1 DEF IInv, QueuesInv
  <2> QED
    BY <2>2, <2>3
<1> QED
  BY <1>0, <1>1, <1>2, <1>5, <1>6, PlacesKept

\* QGRAB gives the managers of an idle queue to a user.
LEMMA QGrabStep ==
  ASSUME IInv, NEW u \in User, NEW q \in Qid, QGrab(u, q)
  PROVE  IInv'
<1>0. /\ queue \in [Qid -> QueueState] /\ turn \in {"poll", "run", "exit"}
      /\ engine \in {"up", "stop", "crash"} /\ lost \in 0 .. MaxLost
      /\ \A k \in Qid : queue[k].subs \subseteq There
  BY DEF IInv, TypeOK, UsersInv
<1>1. /\ UNCHANGED <<turn, engine, users, queue, lost>> /\ Here(q) /\ queue[q].st = "IDLE"
      /\ u \in There
      /\ mgr' = [m \in Sid |->
           IF m \notin Members(q) THEN mgr[m]
           ELSE IF mgr[m].s.st = "none" THEN SetUser(mgr[m], u)
           ELSE SetHandler(SetUser(mgr[m], u), "user")]
  BY DEF QGrab, SetMgr, Says, There
<1>2. \A k \in Qid : Here(k)' = Here(k) /\ Members(k)' = Members(k)
  BY <1>1 DEF Here, Members
<1>3. ASSUME NEW m \in Members(q)
      PROVE  SamePlace(mgr[m], mgr'[m]) /\ mgr'[m].user = u
  <2> DEFINE r == mgr[m]
             r1 == SetUser(r, u)
             r2 == [r1 EXCEPT !.s.hear = "user"]
  <2>1. r.life = "live" /\ r.qid # 0 /\ m \in Sid
    BY <1>1, MemberOfOne
  <2>2. ManagerOK(r) /\ u # NoUser
    BY <2>1, Stands, ApiAssumption
  <2>3. /\ r1 \in ManagerState /\ r1.user = u /\ r1.told = "none" /\ r1.s = r.s
        /\ r1.life = r.life /\ r1.qid = r.qid
    BY <2>2 DEF SetUser, ManagerOK, ManagerState
  <2>4. CASE r.s.st = "none"
    <3>1. NoSession.hear = "user"
      BY Sessions
    <3>2. mgr'[m] = r1
      BY <1>1, <2>1, <2>4
    <3> QED
      BY <2>1, <2>2, <2>3, <2>4, <3>1, <3>2 DEF SamePlace, ManagerOK
  <2>5. CASE r.s.st # "none"
    <3>1. mgr'[m] = SetHandler(r1, "user")
      BY <1>1, <2>1, <2>5
    <3>2. SetHandler(r1, "user") = r2 \/ SetHandler(r1, "user") = PostIdle(r2)
      BY DEF SetHandler
    <3>3. [r.s EXCEPT !.hear = "user"] \in SessionState
      BY <2>2 DEF ManagerOK, ManagerState, SessionState
    <3>4. /\ r2 \in ManagerState /\ r2.s.st = r.s.st /\ r2.s.hear = "user"
          /\ r2.user = u /\ r2.life = r.life /\ r2.qid = r.qid
      <4> HIDE DEF r1
      <4> QED
        BY <2>2, <2>3, <3>3 DEF ManagerOK, ManagerState, SessionState
    <3>5. ManagerOK(r2)
      <4> HIDE DEF r2
      <4> QED
        BY <2>1, <2>2, <2>5, <3>4 DEF ManagerOK
    <3> HIDE DEF r1, r2
    <3>6. StaysOK(r2, PostIdle(r2))
      BY <3>5, PostIdleOK
    <3> QED
      BY <3>1, <3>2, <3>4, <3>5, <3>6 DEF StaysOK, SamePlace, r
  <2> QED
    BY <2>4, <2>5
<1>4. \A m \in Sid \ Members(q) : mgr'[m] = mgr[m]
  BY <1>1
<1>5. /\ mgr' \in [Sid -> ManagerState]
      /\ \A m \in Sid : SamePlace(mgr[m], mgr'[m]) /\ mgr'[m].user \in There \cup {NoUser}
  BY <1>1, <1>3, <1>4, Stands DEF StaysOK, SamePlace, ManagerOK
<1>6. QueuesInv'
  <2> SUFFICES ASSUME NEW k \in Qid, NEW m \in Sid,
                      Here(k)', queue'[k].st # "IDLE", m \in Members(k)'
               PROVE  /\ mgr'[m].user = NoUser
                      /\ queue'[k].st = "WORK" => mgr'[m].s.asks = 0
    BY DEF QueuesInv
  <2>1. m \in Members(k) /\ Here(k) /\ k # q
    BY <1>1, <1>2
  <2>2. m \notin Members(q)
    BY <1>1, <2>1, MemberOfOne
  <2> QED
    BY <1>1, <1>4, <2>1, <2>2 DEF IInv, QueuesInv
<1>7. queue' = queue
  BY <1>1
<1> QED
  BY <1>0, <1>1, <1>2, <1>5, <1>6, <1>7, PlacesKept

\* What happens to managers outside every queue does not concern a queue, which
\* keeps its sessions when an owner of its managers goes.
LEMMA OutsideKept ==
  ASSUME IInv,
         \A m \in Sid :
           /\ mgr'[m].qid = mgr[m].qid
           /\ mgr[m].qid # 0 => /\ mgr'[m].life = mgr[m].life /\ mgr'[m].s = mgr[m].s
                                /\ mgr'[m].user \in {mgr[m].user, NoUser},
         \A q \in Qid : queue'[q].mgrs = queue[q].mgrs /\ queue'[q].st = queue[q].st
  PROVE  MembersAgree' /\ QueuesInv'
<1>1. \A q \in Qid : Here(q)' = Here(q) /\ Members(q)' = Members(q)
  BY DEF Here, Members
<1>2. MembersAgree'
  BY <1>1, MembersKept
<1>3. QueuesInv'
  <2> SUFFICES ASSUME NEW q \in Qid, NEW m \in Sid,
                      Here(q)', queue'[q].st # "IDLE", m \in Members(q)'
               PROVE  /\ mgr'[m].user = NoUser
                      /\ queue'[q].st = "WORK" => mgr'[m].s.asks = 0
    BY DEF QueuesInv
  <2>1. Here(q) /\ m \in Members(q) /\ queue[q].st # "IDLE"
    BY <1>1
  <2>2. mgr[m].qid # 0
    BY <2>1, MemberOfOne
  <2>3. mgr[m].user = NoUser /\ (queue[q].st = "WORK" => mgr[m].s.asks = 0)
    BY <2>1 DEF IInv, QueuesInv
  <2> QED
    BY <2>2, <2>3
<1> QED
  BY <1>2, <1>3

\* A manager that is not live is in no queue.
LEMMA NotLive ==
  ASSUME IInv, NEW m \in Sid, mgr[m].life # "live"
  PROVE  mgr[m].qid = 0 /\ mgr[m].user = NoUser
BY Stands DEF ManagerOK

\* The connection of a user ends.
LEMMA ClosedStep ==
  ASSUME IInv, NEW u \in User, Closed(u)
  PROVE  IInv'
<1>0. /\ queue \in [Qid -> QueueState] /\ turn \in {"poll", "run", "exit"}
      /\ engine \in {"up", "stop", "crash"} /\ lost \in 0 .. MaxLost
      /\ tls \in [User -> BOOLEAN] /\ clients \in Nat
      /\ conn \in [User -> {"off", "anon", "auth", "closing", "gone"}]
  BY DEF IInv, TypeOK
<1>1. /\ UNCHANGED <<turn, engine, tls, lost>>
      /\ conn[u] \in {"auth", "closing"} /\ conn' = [conn EXCEPT ![u] = "gone"]
      /\ clients' = clients - 1
      /\ queue' = [q \in Qid |-> [queue[q] EXCEPT !.subs = @ \ {u}]]
      /\ mgr' = [m \in Sid |->
           IF mgr[m].user # u THEN mgr[m]
           ELSE IF mgr[m].qid = 0 THEN Release(mgr[m]) ELSE Unlink(mgr[m])]
  BY DEF Closed, UnlinkAll
<1>2. There' = There \ {u} /\ u \in There
  BY <1>0, <1>1 DEF There
<1>3. \A m \in Sid :
        /\ ManagerOK(mgr'[m]) /\ mgr'[m].qid = mgr[m].qid
        /\ mgr[m].qid # 0 => /\ mgr'[m].life = mgr[m].life /\ mgr'[m].s = mgr[m].s
                             /\ mgr'[m].user \in {mgr[m].user, NoUser}
        /\ mgr'[m].user \in There' \cup {NoUser}
        /\ mgr[m].life # "none" <=> mgr'[m].life # "none"
  <2> SUFFICES ASSUME NEW m \in Sid
               PROVE  /\ ManagerOK(mgr'[m]) /\ mgr'[m].qid = mgr[m].qid
                      /\ mgr[m].qid # 0 =>
                           /\ mgr'[m].life = mgr[m].life /\ mgr'[m].s = mgr[m].s
                           /\ mgr'[m].user \in {mgr[m].user, NoUser}
                      /\ mgr'[m].user \in There' \cup {NoUser}
                      /\ mgr[m].life # "none" <=> mgr'[m].life # "none"
    OBVIOUS
  <2>1. ManagerOK(mgr[m]) /\ mgr[m].user \in There \cup {NoUser} /\ u # NoUser
    BY Stands, ApiAssumption
  <2>2. CASE mgr[m].user # u
    BY <1>1, <1>2, <2>1, <2>2
  <2>3. CASE mgr[m].user = u /\ mgr[m].qid = 0
    <3>1. mgr'[m] = Release(mgr[m]) /\ mgr[m].life = "live"
      BY <1>1, <2>1, <2>3, NotLive
    <3> QED
      BY <2>1, <2>3, <3>1, ReleaseOK
  <2>4. CASE mgr[m].user = u /\ mgr[m].qid # 0
    <3>1. mgr'[m] = Unlink(mgr[m])
      BY <1>1, <2>4
    <3> QED
      BY <2>1, <2>4, <3>1, UnlinkOK
  <2> QED
    BY <2>2, <2>3, <2>4
<1>4. /\ queue' \in [Qid -> QueueState]
      /\ \A q \in Qid : /\ queue'[q].mgrs = queue[q].mgrs /\ queue'[q].st = queue[q].st
                        /\ queue'[q].subs = queue[q].subs \ {u}
  BY <1>0, <1>1 DEF QueueState
<1>5. MembersAgree' /\ QueuesInv'
  BY <1>3, <1>4, OutsideKept
<1>6. ManagersInv'
  <2>1. ASSUME NEW m \in Sid, mgr'[m].life # "none", NEW k \in 1 .. m - 1
        PROVE  mgr'[k].life # "none"
    <3>1. k \in Sid
      BY ApiAssumption DEF Sid
    <3> QED
      BY <1>3, <2>1, <3>1 DEF IInv, ManagersInv
  <2> QED
    BY <1>3, <2>1 DEF ManagersInv
<1>7. UsersInv'
  <2>1. UsersInv
    BY DEF IInv
  <2>2. IsFiniteSet(There') /\ Cardinality(There') = Cardinality(There) - 1
    BY <1>2, <2>1, FS_RemoveElement DEF UsersInv
  <2>3. \A q \in Qid : queue'[q].subs \subseteq There'
    BY <1>2, <1>4, <2>1 DEF UsersInv
  <2> QED
    BY <1>1, <1>3, <2>1, <2>2, <2>3 DEF UsersInv
<1>8. TypeOK'
  <2>1. clients' \in Nat
    BY <1>7, FS_CardinalityType DEF UsersInv
  <2>2. mgr' \in [Sid -> ManagerState]
    BY <1>1, <1>3 DEF ManagerOK
  <2> QED
    BY <1>0, <1>1, <1>4, <2>1, <2>2 DEF TypeOK
<1> QED
  BY <1>5, <1>6, <1>7, <1>8 DEF IInv

\* SESSIONNEW and SESSIONFREE, on a manager that is in no queue.
LEMMA OwnSteps ==
  ASSUME IInv, NEW u \in User,
         SessionNew(u) \/ \E m \in Sid : SessionFree(u, m)
  PROVE  IInv'
<1>1. PICK m \in Sid, r \in ManagerState :
         /\ ManagerOK(r) /\ r.qid = 0 /\ r.user \in There \cup {NoUser} /\ r.life # "none"
         /\ mgr[m].qid = 0 /\ mgr' = [mgr EXCEPT ![m] = r]
         /\ \A k \in 1 .. m - 1 : mgr[k].life # "none"
         /\ UNCHANGED <<turn, engine, users, queue, lost>>
  <2>1. CASE SessionNew(u)
    <3>1. PICK m \in FreshSid : mgr' = [mgr EXCEPT ![m] = NewManager(u)]
      BY <2>1 DEF SessionNew
    <3>2. /\ m \in Sid /\ mgr[m].life = "none"
          /\ \A k \in 1 .. m - 1 : mgr[k].life # "none"
      BY DEF FreshSid
    <3>3. u \in There /\ UNCHANGED <<turn, engine, users, queue, lost>>
      BY <2>1 DEF SessionNew, Says, There
    <3>4. NewManager(u) \in ManagerState
      BY NewManagerOK DEF ManagerOK
    <3> QED
      BY <3>1, <3>2, <3>3, <3>4, NewManagerOK, NotLive
  <2>2. CASE \E m \in Sid : SessionFree(u, m)
    <3>1. PICK m \in Sid : SessionFree(u, m)
      BY <2>2
    <3>2. /\ mgr[m].life = "live" /\ mgr[m].qid = 0
          /\ mgr' = [k \in Sid |-> IF k \in {m} THEN Release(mgr[k]) ELSE mgr[k]]
          /\ UNCHANGED <<turn, engine, users, queue, lost>>
      BY <3>1 DEF SessionFree, Live, SetMgr
    <3>3. mgr' = [mgr EXCEPT ![m] = Release(mgr[m])]
      BY <3>2 DEF IInv, TypeOK
    <3>4. ManagerOK(Release(mgr[m])) /\ Release(mgr[m]) \in ManagerState
      BY Stands, ReleaseOK DEF ManagerOK
    <3>5. \A k \in 1 .. m - 1 : mgr[k].life # "none"
      BY <3>2 DEF IInv, ManagersInv
    <3> QED
      BY <3>2, <3>3, <3>4, <3>5, Stands, ReleaseOK
  <2> QED
    BY <2>1, <2>2
<1>2. \A k \in Sid : mgr'[k] = IF k = m THEN r ELSE mgr[k]
  BY <1>1 DEF IInv, TypeOK
<1>3. MembersAgree' /\ QueuesInv'
  BY <1>1, <1>2, OutsideKept
<1>4. There' = There /\ clients' = clients
  BY <1>1 DEF There, users
<1>5. UsersInv'
  BY <1>1, <1>2, <1>4 DEF IInv, UsersInv
<1>6. ManagersInv'
  <2>1. ASSUME NEW n \in Sid, mgr'[n].life # "none", NEW k \in 1 .. n - 1
        PROVE  mgr'[k].life # "none"
    <3>1. k \in Sid
      BY ApiAssumption DEF Sid
    <3>2. CASE n = m
      BY <1>1, <1>2, <3>1, <3>2
    <3>3. CASE n # m
      <4>1. mgr[k].life # "none"
        BY <1>2, <2>1, <3>3 DEF IInv, ManagersInv
      <4> QED
        BY <1>1, <1>2, <3>1, <4>1
    <3> QED
      BY <3>2, <3>3
  <2> QED
    BY <1>1, <1>2, <2>1, Stands DEF ManagersInv
<1>7. TypeOK'
  BY <1>1 DEF IInv, TypeOK, users
<1> QED
  BY <1>3, <1>5, <1>6, <1>7 DEF IInv

\* Two managers make a pair.
LEMMA Pair ==
  ASSUME NEW n, NEW s, n # s
  PROVE  Cardinality({n, s}) = 2
<1>1. IsFiniteSet({n}) /\ Cardinality({n}) = 1
  BY FS_Singleton, Zenon
<1>2. Cardinality({n} \cup {s}) = Cardinality({n}) + 1
  BY <1>1, FS_AddElement
<1>3. {n, s} = {n} \cup {s}
  OBVIOUS
<1> QED
  BY <1>1, <1>2, <1>3

\* A queue that is made of two managers outside every queue.
LEMMA QueueMade ==
  ASSUME IInv, NEW q \in FreshQid,
         NEW x \in QueueState, x.st \in {"IDLE", "START"}, Cardinality(x.mgrs) = 2,
         \A m \in x.mgrs : mgr[m].qid = 0,
         x.subs \subseteq There, queue' = [queue EXCEPT ![q] = x],
         \A m \in Sid \ x.mgrs : mgr'[m] = mgr[m],
         \A m \in x.mgrs : mgr'[m].life = "live" /\ mgr'[m].qid = q,
         x.st = "START" => \A m \in x.mgrs : mgr'[m].user = NoUser
  PROVE  /\ queue' \in [Qid -> QueueState] /\ MembersAgree' /\ QueuesInv'
         /\ \A k \in Qid : queue'[k].subs \subseteq There
<1>1. /\ q \in Qid /\ q # 0 /\ ~Here(q)
      /\ queue \in [Qid -> QueueState] /\ There \subseteq User
  BY DEF FreshQid, Here, Qid, IInv, TypeOK, There
<1>2. /\ queue' \in [Qid -> QueueState]
      /\ queue'[q] = x
      /\ \A k \in Qid \ {q} : queue'[k] = queue[k]
  BY <1>1
<1>3. \A k \in Qid : queue'[k].subs \subseteq There
  BY <1>2 DEF IInv, UsersInv
<1>4. /\ Here(q)' /\ Members(q)' = x.mgrs
      /\ \A k \in Qid \ {q} : (Here(k)' <=> Here(k)) /\ Members(k)' = Members(k)
  BY <1>1, <1>2 DEF Here, Members
<1>5. ASSUME NEW k \in Qid, k # q, Here(k)
      PROVE  Members(k) \subseteq Sid \ x.mgrs
  BY <1>5, MemberOfOne
<1>6. MembersAgree'
  <2>1. ASSUME NEW k \in Qid, Here(k)'
        PROVE  /\ Cardinality(Members(k)') = 2
               /\ \A m \in Members(k)' : Live(m)' /\ mgr'[m].qid = k
    <3>1. CASE k = q
      <4> QED
        BY <1>4, <3>1 DEF Live
    <3>2. CASE k # q
      <4>1. Here(k) /\ Members(k)' = Members(k)
        BY <1>4, <2>1, <3>2
      <4>2. /\ Cardinality(Members(k)) = 2
            /\ \A m \in Members(k) : mgr[m].life = "live" /\ mgr[m].qid = k
        BY <4>1 DEF IInv, MembersAgree, Live
      <4>3. \A m \in Members(k) : mgr'[m] = mgr[m]
        BY <1>5, <3>2, <4>1
      <4> QED
        BY <4>1, <4>2, <4>3 DEF Live
    <3> QED
      BY <3>1, <3>2
  <2>2. ASSUME NEW m \in Sid, mgr'[m].qid # 0
        PROVE  (Here(mgr[m].qid) /\ m \in Members(mgr[m].qid))'
    <3>1. CASE m \in x.mgrs
      BY <1>4, <3>1 DEF Here, Members
    <3>2. CASE m \notin x.mgrs
      <4>1. PICK k \in Qid : mgr'[m].qid = k /\ mgr[m].qid = k
        BY <2>2, <3>2 DEF IInv, TypeOK, ManagerState
      <4>2. Here(k) /\ m \in Members(k)
        <5>1. mgr[m].qid # 0 => Here(mgr[m].qid) /\ m \in Members(mgr[m].qid)
          BY DEF IInv, MembersAgree
        <5> QED
          BY <2>2, <4>1, <5>1
      <4>3. k # q
        BY <1>1, <4>2
      <4>4. Here(k)' /\ m \in Members(k)'
        BY <1>4, <4>2, <4>3
      <4> QED
        BY <4>1, <4>4 DEF Here, Members
    <3> QED
      BY <3>1, <3>2
  <2> QED
    BY <2>1, <2>2 DEF MembersAgree
<1>7. QueuesInv'
  <2> SUFFICES ASSUME NEW k \in Qid, NEW m \in Sid,
                      Here(k)', queue'[k].st # "IDLE", m \in Members(k)'
               PROVE  /\ mgr'[m].user = NoUser
                      /\ queue'[k].st = "WORK" => mgr'[m].s.asks = 0
    BY DEF QueuesInv
  <2>1. CASE k = q
    BY <1>2, <1>4, <2>1
  <2>2. CASE k # q
    <3>1. Here(k) /\ m \in Members(k) /\ queue'[k] = queue[k]
      BY <1>2, <1>4, <2>2
    <3>2. mgr'[m] = mgr[m]
      BY <1>5, <2>2, <3>1
    <3> QED
      BY <3>1, <3>2 DEF IInv, QueuesInv
  <2> QED
    BY <2>1, <2>2
<1> QED
  BY <1>2, <1>3, <1>6, <1>7

\* QUEUENEW.
LEMMA QueueNewStep ==
  ASSUME IInv, NEW u \in User, NEW n \in Sid, NEW s \in Sid, QueueNew(u, n, s)
  PROVE  IInv'
<1>1. PICK q \in FreshQid :
         /\ queue' = [queue EXCEPT ![q] = [NoQueue EXCEPT !.st = "IDLE", !.mgrs = {n, s}]]
         /\ mgr' = [m \in Sid |->
               IF m \in {n, s} THEN [mgr[m] EXCEPT !.qid = q] ELSE mgr[m]]
  BY ZenonT(30) DEF QueueNew, SetMgr
<1>2. /\ n # s /\ mgr[n].qid = 0 /\ mgr[s].qid = 0
      /\ mgr[n].life = "live" /\ mgr[s].life = "live"
      /\ UNCHANGED <<turn, engine, users, lost>>
  <2>1. n < s => n # s
    BY ApiAssumption DEF Sid
  <2> QED
    BY <2>1 DEF QueueNew, Owns, Live
<1>3. q \in Qid
  BY DEF FreshQid
<1> DEFINE x == [NoQueue EXCEPT !.st = "IDLE", !.mgrs = {n, s}]
<1>4. x \in QueueState /\ x.st = "IDLE" /\ x.mgrs = {n, s} /\ x.subs = {}
  <2>1. NoQueue \in QueueState /\ NoQueue.subs = {}
    BY DEF NoQueue, QueueState
  <2> QED
    BY <2>1 DEF QueueState
<1> HIDE DEF x
<1>5. \A m \in Sid \ {n, s} : mgr'[m] = mgr[m]
  BY <1>1
<1>6. \A m \in {n, s} :
        /\ ManagerOK(mgr'[m]) /\ mgr'[m].life = "live" /\ mgr'[m].qid = q
        /\ mgr'[m].user = mgr[m].user
  BY <1>1, <1>2, <1>3, Stands DEF ManagerOK, ManagerState
<1>7. /\ queue' \in [Qid -> QueueState] /\ MembersAgree' /\ QueuesInv'
      /\ \A k \in Qid : queue'[k].subs \subseteq There
  <2>1. queue' = [queue EXCEPT ![q] = x]
    BY <1>1 DEF x
  <2>2. x.st \in {"IDLE", "START"} /\ x.st # "START" /\ x.subs \subseteq There
    BY <1>4
  <2>3. /\ Cardinality(x.mgrs) = 2 /\ \A m \in x.mgrs : mgr[m].qid = 0
        /\ \A m \in Sid \ x.mgrs : mgr'[m] = mgr[m]
        /\ \A m \in x.mgrs : mgr'[m].life = "live" /\ mgr'[m].qid = q
        /\ x.st = "START" => \A m \in x.mgrs : mgr'[m].user = NoUser
    <3>1. Cardinality({n, s}) = 2
      BY <1>2, Pair
    <3> QED
      BY <1>2, <1>4, <1>5, <1>6, <3>1
  <2> QED
    BY <1>4, <2>1, <2>2, <2>3, QueueMade
<1>8. There' = There /\ clients' = clients
  BY <1>2 DEF There, users
<1>9. \A m \in Sid : /\ ManagerOK(mgr'[m]) /\ mgr'[m].user = mgr[m].user
                     /\ mgr'[m].life = mgr[m].life
  BY <1>2, <1>5, <1>6, Stands
<1>10. ManagersInv'
  <2>1. ASSUME NEW m \in Sid, mgr'[m].life # "none", NEW k \in 1 .. m - 1
        PROVE  mgr'[k].life # "none"
    <3>1. k \in Sid
      BY ApiAssumption DEF Sid
    <3> QED
      BY <1>9, <2>1, <3>1 DEF IInv, ManagersInv
  <2> QED
    BY <1>9, <2>1 DEF ManagersInv
<1>11. UsersInv'
  BY <1>7, <1>8, <1>9 DEF IInv, UsersInv
<1>12. TypeOK'
  <2>1. mgr' \in [Sid -> ManagerState]
    BY <1>1, <1>9 DEF ManagerOK
  <2> QED
    BY <1>2, <1>7, <2>1 DEF IInv, TypeOK, users
<1> QED
  BY <1>7, <1>10, <1>11, <1>12 DEF IInv

\* QCLONE.
LEMMA QCloneStep ==
  ASSUME IInv, NEW u \in User, NEW q \in Qid, NEW go \in BOOLEAN, NEW sub \in BOOLEAN,
         QClone(u, q, go, sub)
  PROVE  IInv'
<1>1. PICK n \in FreshSid, k \in FreshQid :
         /\ n + 1 \in Sid
         /\ queue' = [queue EXCEPT ![k] =
              [st |-> IF go THEN "START" ELSE "IDLE", mgrs |-> {n, n + 1},
               subs |-> IF sub THEN {u} ELSE {}]]
         /\ mgr' = [m \in Sid |->
              IF m \notin {n, n + 1} THEN mgr[m]
              ELSE IF go THEN Unlink([NewManager(u) EXCEPT !.qid = k])
                   ELSE [NewManager(u) EXCEPT !.qid = k]]
  BY DEF QClone
<1>2. u \in There /\ UNCHANGED <<turn, engine, users, lost>>
  BY DEF QClone, Says, There
<1>3. k \in Qid /\ k # 0
  BY DEF FreshQid, Qid
<1>4. /\ n \in Sid /\ n # n + 1 /\ mgr[n].life = "none" /\ mgr[n + 1].life = "none"
      /\ n \in 1 .. (n + 1) - 1
      /\ \A j \in 1 .. n - 1 : mgr[j].life # "none"
  <2>1. n \in Sid /\ mgr[n].life = "none" /\ \A j \in 1 .. n - 1 : mgr[j].life # "none"
    BY DEF FreshSid
  <2>2. n # n + 1 /\ n \in 1 .. (n + 1) - 1
    BY <2>1, ApiAssumption DEF Sid
  <2>3. mgr[n + 1].life = "none"
    BY <1>1, <2>1, <2>2 DEF IInv, ManagersInv
  <2> QED
    BY <2>1, <2>2, <2>3
<1>5. \A m \in Sid \ {n, n + 1} : mgr'[m] = mgr[m]
  BY <1>1
<1>6. \A m \in {n, n + 1} :
        /\ ManagerOK(mgr'[m]) /\ mgr'[m].life = "live" /\ mgr'[m].qid = k
        /\ mgr'[m].user \in {u, NoUser} /\ (go => mgr'[m].user = NoUser)
  <2> DEFINE r == [NewManager(u) EXCEPT !.qid = k]
  <2>1. /\ ManagerOK(r) /\ r.qid = k /\ r.life = "live" /\ r.user = u
    <3>1. /\ ManagerOK(NewManager(u)) /\ NewManager(u).life = "live"
          /\ NewManager(u).user = u
      BY NewManagerOK
    <3> QED
      BY <1>3, <3>1 DEF ManagerOK, ManagerState
  <2>2. /\ ManagerOK(Unlink(r)) /\ Unlink(r).life = "live" /\ Unlink(r).qid = k
        /\ Unlink(r).user = NoUser
    <3> HIDE DEF r
    <3> QED
      BY <1>3, <2>1, UnlinkOK
  <2>3. \A m \in {n, n + 1} : mgr'[m] = IF go THEN Unlink(r) ELSE r
    BY <1>1, <1>4
  <2> HIDE DEF r
  <2> QED
    BY <2>1, <2>2, <2>3
<1>7. /\ queue' \in [Qid -> QueueState] /\ MembersAgree' /\ QueuesInv'
      /\ \A j \in Qid : queue'[j].subs \subseteq There
  <2> DEFINE x == [st |-> IF go THEN "START" ELSE "IDLE", mgrs |-> {n, n + 1},
                   subs |-> IF sub THEN {u} ELSE {}]
  <2>1. /\ x \in QueueState /\ x.st \in {"IDLE", "START"} /\ (x.st = "START" => go)
        /\ x.subs \subseteq There
    BY <1>1, <1>2, <1>4 DEF QueueState
  <2>2. queue' = [queue EXCEPT ![k] = x]
    BY <1>1
  <2>3. mgr[n].qid = 0 /\ mgr[n + 1].qid = 0 /\ x.mgrs = {n, n + 1}
    BY <1>1, <1>4, NotLive
  <2>4. Cardinality({n, n + 1}) = 2
    BY <1>4, Pair
  <2>5. /\ Cardinality(x.mgrs) = 2 /\ \A m \in x.mgrs : mgr[m].qid = 0
        /\ \A m \in Sid \ x.mgrs : mgr'[m] = mgr[m]
        /\ \A m \in x.mgrs : mgr'[m].life = "live" /\ mgr'[m].qid = k
        /\ x.st = "START" => \A m \in x.mgrs : mgr'[m].user = NoUser
    <3> HIDE DEF x
    <3> QED
      BY <1>5, <1>6, <2>1, <2>3, <2>4
  <2> HIDE DEF x
  <2> QED
    BY <2>1, <2>2, <2>5, QueueMade
<1>8. There' = There /\ clients' = clients
  BY <1>2 DEF There, users
<1>9. \A m \in Sid : ManagerOK(mgr'[m]) /\ mgr'[m].user \in There \cup {NoUser}
  BY <1>2, <1>5, <1>6, Stands
<1>10. ManagersInv'
  <2>1. ASSUME NEW m \in Sid, mgr'[m].life # "none", NEW j \in 1 .. m - 1
        PROVE  mgr'[j].life # "none"
    <3>1. j \in Sid
      BY ApiAssumption DEF Sid
    <3>2. CASE j \in {n, n + 1}
      BY <1>6, <3>2
    <3>3. CASE j \notin {n, n + 1} /\ m \in {n, n + 1}
      <4>1. j \in 1 .. n - 1
        BY <1>4, <2>1, <3>3, ApiAssumption DEF Sid
      <4> QED
        BY <1>4, <1>5, <3>1, <3>3, <4>1
    <3>4. CASE j \notin {n, n + 1} /\ m \notin {n, n + 1}
      <4>1. mgr[j].life # "none"
        BY <1>5, <2>1, <3>4 DEF IInv, ManagersInv
      <4> QED
        BY <1>5, <3>1, <3>4, <4>1
    <3> QED
      BY <3>2, <3>3, <3>4
  <2> QED
    BY <1>9, <2>1 DEF ManagersInv
<1>11. UsersInv'
  BY <1>7, <1>8, <1>9 DEF IInv, UsersInv
<1>12. TypeOK'
  <2>1. mgr' \in [Sid -> ManagerState]
    BY <1>1, <1>9 DEF ManagerOK
  <2> QED
    BY <1>2, <1>7, <2>1 DEF IInv, TypeOK, users
<1> QED
  BY <1>7, <1>10, <1>11, <1>12 DEF IInv

\* QUEUEFREE.
LEMMA QueueFreeStep ==
  ASSUME IInv, NEW u \in User, NEW q \in Qid, NEW ifidle \in BOOLEAN,
         QueueFree(u, q, ifidle)
  PROVE  IInv'
<1>1. /\ Here(q) /\ UNCHANGED <<turn, engine, users, lost>>
      /\ queue' = [queue EXCEPT ![q] = [NoQueue EXCEPT !.st = "freed"]]
      /\ mgr' = [m \in Sid |-> IF m \in Members(q) THEN ReleaseUnowned(mgr[m]) ELSE mgr[m]]
  BY DEF QueueFree, SetMgr
<1>2. queue \in [Qid -> QueueState]
  BY DEF IInv, TypeOK
<1>3. /\ queue' \in [Qid -> QueueState]
      /\ queue'[q].st = "freed" /\ queue'[q].subs = {}
      /\ \A k \in Qid \ {q} : queue'[k] = queue[k]
  <2>1. /\ [NoQueue EXCEPT !.st = "freed"] \in QueueState
        /\ [NoQueue EXCEPT !.st = "freed"].st = "freed"
        /\ [NoQueue EXCEPT !.st = "freed"].subs = {}
    BY DEF NoQueue, QueueState
  <2> QED
    BY <1>1, <1>2, <2>1
<1>4. \A m \in Members(q) :
        /\ ManagerOK(mgr'[m]) /\ mgr'[m].qid = 0 /\ mgr'[m].user = mgr[m].user
        /\ mgr'[m].life # "none"
  BY <1>1, MemberOfOne, Stands, ReleaseUnownedOK
<1>5. \A m \in Sid \ Members(q) : mgr'[m] = mgr[m]
  BY <1>1
<1>6. /\ ~Here(q)'
      /\ \A k \in Qid \ {q} : (Here(k)' <=> Here(k)) /\ Members(k)' = Members(k)
  BY <1>3 DEF Here, Members
<1>7. ASSUME NEW k \in Qid, k # q, Here(k)
      PROVE  Members(k) \subseteq Sid \ Members(q)
  BY <1>1, <1>7, MemberOfOne
<1>8. MembersAgree'
  <2>1. ASSUME NEW k \in Qid, Here(k)'
        PROVE  /\ Cardinality(Members(k)') = 2
               /\ \A m \in Members(k)' : Live(m)' /\ mgr'[m].qid = k
    <3>1. k # q /\ Here(k) /\ Members(k)' = Members(k)
      BY <1>6, <2>1
    <3>2. /\ Cardinality(Members(k)) = 2
          /\ \A m \in Members(k) : mgr[m].life = "live" /\ mgr[m].qid = k
      BY <3>1 DEF IInv, MembersAgree, Live
    <3>3. \A m \in Members(k) : mgr'[m] = mgr[m]
      BY <1>5, <1>7, <3>1
    <3> QED
      BY <3>1, <3>2, <3>3 DEF Live
  <2>2. ASSUME NEW m \in Sid, mgr'[m].qid # 0
        PROVE  (Here(mgr[m].qid) /\ m \in Members(mgr[m].qid))'
    <3>1. m \notin Members(q) /\ mgr'[m] = mgr[m]
      BY <1>4, <1>5, <2>2
    <3>2. PICK k \in Qid : mgr'[m].qid = k /\ mgr[m].qid = k
      BY <2>2, <3>1 DEF IInv, TypeOK, ManagerState
    <3>3. Here(k) /\ m \in Members(k)
      <4>1. mgr[m].qid # 0 => Here(mgr[m].qid) /\ m \in Members(mgr[m].qid)
        BY DEF IInv, MembersAgree
      <4> QED
        BY <2>2, <3>2, <4>1
    <3>4. Here(k)' /\ m \in Members(k)'
      BY <1>6, <3>1, <3>3
    <3> QED
      BY <3>2, <3>4 DEF Here, Members
  <2> QED
    BY <2>1, <2>2 DEF MembersAgree
<1>9. QueuesInv'
  <2> SUFFICES ASSUME NEW k \in Qid, NEW m \in Sid,
                      Here(k)', queue'[k].st # "IDLE", m \in Members(k)'
               PROVE  /\ mgr'[m].user = NoUser
                      /\ queue'[k].st = "WORK" => mgr'[m].s.asks = 0
    BY DEF QueuesInv
  <2>1. k # q /\ Here(k) /\ m \in Members(k) /\ queue'[k] = queue[k]
    BY <1>3, <1>6
  <2>2. mgr'[m] = mgr[m]
    BY <1>5, <1>7, <2>1
  <2> QED
    BY <2>1, <2>2 DEF IInv, QueuesInv
<1>10. There' = There /\ clients' = clients
  BY <1>1 DEF There, users
<1>11. \A m \in Sid : /\ ManagerOK(mgr'[m]) /\ mgr'[m].user \in There \cup {NoUser}
                      /\ mgr[m].life # "none" => mgr'[m].life # "none"
                      /\ mgr'[m].life # "none" => mgr[m].life # "none"
  <2>1. \A m \in Members(q) : mgr[m].life = "live"
    BY <1>1, MemberOfOne
  <2> QED
    BY <1>4, <1>5, <2>1, Stands
<1>12. ManagersInv'
  <2>1. ASSUME NEW m \in Sid, mgr'[m].life # "none", NEW k \in 1 .. m - 1
        PROVE  mgr'[k].life # "none"
    <3>1. k \in Sid
      BY ApiAssumption DEF Sid
    <3> QED
      BY <1>11, <2>1, <3>1 DEF IInv, ManagersInv
  <2> QED
    BY <1>11, <2>1 DEF ManagersInv
<1>13. UsersInv'
  BY <1>3, <1>10, <1>11 DEF IInv, UsersInv
<1>14. TypeOK'
  <2>1. mgr' \in [Sid -> ManagerState]
    BY <1>1, <1>11 DEF ManagerOK
  <2> QED
    BY <1>1, <1>3, <2>1 DEF IInv, TypeOK, users
<1> QED
  BY <1>8, <1>9, <1>12, <1>13, <1>14 DEF IInv

-----------------------------------------------------------------------------
(* The theorems. *)

\* Every step of users, of sessions and of the engine keeps the invariant.
LEMMA StepKeeps ==
  ASSUME IInv, [Next]_vars
  PROVE  IInv'
<1>1. CASE UNCHANGED vars
  <2>1. UNCHANGED <<users, mgr, queue, lost>> /\ turn' = turn /\ engine' = engine
    BY <1>1 DEF vars, users
  <2> QED
    BY <2>1, NothingMoves DEF IInv, TypeOK
<1>2. CASE \E u \in User : UserStep(u)
  <2>1. PICK u \in User : UserStep(u)
    BY <1>2
  <2>2. CASE Connect(u) \/ Ssl(u) \/ Auth(u) \/ Quit(u) \/ ClosedAnon(u)
    BY <2>2, Connections
  <2>3. CASE Closed(u)
    BY <2>3, ClosedStep
  <2>4. CASE \E last \in BOOLEAN : Shutdown(u, last)
    BY <2>4, EngineSteps
  <2>5. CASE SessionNew(u)
    BY <2>5, OwnSteps
  <2>6. CASE \E m \in Sid :
               SessionFree(u, m) \/ Ask(u, m) \/ AskFidLost(u, m) \/ Dirlist(u, m)
    <3>1. PICK m \in Sid :
             SessionFree(u, m) \/ Ask(u, m) \/ AskFidLost(u, m) \/ Dirlist(u, m)
      BY <2>6
    <3>2. CASE SessionFree(u, m)
      BY <3>2, OwnSteps
    <3>3. CASE Ask(u, m) \/ Dirlist(u, m)
      BY <3>3, SessionSteps
    <3>4. CASE AskFidLost(u, m)
      BY <3>4, EngineSteps
    <3> QED
      BY <3>1, <3>2, <3>3, <3>4
  <2>7. CASE \E n, s \in Sid : QueueNew(u, n, s)
    BY <2>7, QueueNewStep
  <2>8. CASE \E q \in Qid :
               \/ Go(u, q) \/ Drop(u, q) \/ QGrab(u, q) \/ QCompareLost(u, q)
               \/ Subscribe(u, q) \/ Unsubscribe(u, q)
               \/ \E ifidle \in BOOLEAN : QueueFree(u, q, ifidle)
               \/ \E go, sub \in BOOLEAN : QClone(u, q, go, sub)
    <3>1. PICK q \in Qid :
             \/ Go(u, q) \/ Drop(u, q) \/ QGrab(u, q) \/ QCompareLost(u, q)
             \/ Subscribe(u, q) \/ Unsubscribe(u, q)
             \/ \E ifidle \in BOOLEAN : QueueFree(u, q, ifidle)
             \/ \E go, sub \in BOOLEAN : QClone(u, q, go, sub)
      BY <2>8
    <3>2. CASE Go(u, q)
      BY <3>2, GoStep
    <3>3. CASE Drop(u, q)
      BY <3>3, DropStep
    <3>4. CASE QGrab(u, q)
      BY <3>4, QGrabStep
    <3>5. CASE QCompareLost(u, q)
      BY <3>5, EngineSteps
    <3>6. CASE Subscribe(u, q) \/ Unsubscribe(u, q)
      BY <3>6, QueueSteps
    <3>7. CASE \E ifidle \in BOOLEAN : QueueFree(u, q, ifidle)
      BY <3>7, QueueFreeStep
    <3>8. CASE \E go, sub \in BOOLEAN : QClone(u, q, go, sub)
      BY <3>8, QCloneStep
    <3> QED
      BY <3>1, <3>2, <3>3, <3>4, <3>5, <3>6, <3>7, <3>8
  <2> QED
    BY <2>1, <2>2, <2>3, <2>4, <2>5, <2>6, <2>7, <2>8 DEF UserStep
<1>3. CASE \E m \in Sid : SessionStep(m)
  BY <1>3, SessionSteps DEF SessionStep
<1>4. CASE RunStep
  <2>1. CASE Wake
    BY <2>1, EngineSteps
  <2>2. CASE Cleanup
    BY <2>2, CleanupStep
  <2>3. CASE \E q \in Qid :
               \/ QueueStart(q) \/ QueueIsConnected(q) \/ QueueStartNextItem(q)
               \/ \E m \in Sid, list \in BOOLEAN : QueueWorks(q, m, list)
               \/ \E st \in {"START", "WAIT", "IDLE"} : QueueLeaves(q, st)
    <3>1. PICK q \in Qid :
             \/ QueueStart(q) \/ QueueIsConnected(q) \/ QueueStartNextItem(q)
             \/ \E m \in Sid, list \in BOOLEAN : QueueWorks(q, m, list)
             \/ \E st \in {"START", "WAIT", "IDLE"} : QueueLeaves(q, st)
      BY <2>3
    <3>2. CASE \/ QueueStart(q) \/ QueueStartNextItem(q)
               \/ \E st \in {"START", "WAIT", "IDLE"} : QueueLeaves(q, st)
      BY <3>2, QueueSteps
    <3>3. CASE QueueIsConnected(q)
      BY <3>3, QueueIsConnectedStep
    <3>4. CASE \E m \in Sid, list \in BOOLEAN : QueueWorks(q, m, list)
      BY <3>4, SessionSteps
    <3> QED
      BY <3>1, <3>2, <3>3, <3>4
  <2> QED
    BY <1>4, <2>1, <2>2, <2>3 DEF RunStep
<1> QED
  BY <1>1, <1>2, <1>3, <1>4 DEF Next

\* The invariant holds, whatever users ask for and in whatever order.
THEOREM Invariance == Spec => []IInv
<1>1. IInv /\ [Next]_vars => IInv'
  BY StepKeeps
<1> QED
  BY <1>1, Begins, PTL DEF Spec

\* No manager and no queue points to the freed node of a user that has gone, and
\* num_clients counts those that are there.
THEOREM OwnersAlwaysHere == Spec => []OwnersHere
<1>1. IInv => OwnersHere
  BY DEF IInv, UsersInv, OwnersHere, There
<1> QED
  BY <1>1, Invariance, PTL

\* A queue and its two managers always point at each other.
THEOREM MembersAlwaysAgree == Spec => []MembersAgree
<1>1. IInv => MembersAgree
  BY DEF IInv
<1> QED
  BY <1>1, Invariance, PTL

\* A live manager always belongs to a user or to a queue.
THEOREM NeverOrphaned == Spec => []NoOrphan
<1>1. IInv => NoOrphan
  BY DEF IInv, ManagersInv, ManagerOK, NoOrphan, Live
<1> QED
  BY <1>1, Invariance, PTL

\* A queue that is not idle has its sessions to itself.
THEOREM AlwaysOneMaster == Spec => []OneMaster
<1>1. ASSUME IInv PROVE OneMaster
  <2>1. ASSUME NEW q \in Qid, Here(q), queue[q].st # "IDLE", NEW m \in Members(q)
        PROVE  mgr[m].user = NoUser
    BY <1>1, <2>1, MemberOfOne DEF IInv, QueuesInv
  <2>2. \A m \in Sid : mgr[m].user # NoUser => mgr[m].s.hear = "user"
    BY <1>1 DEF IInv, ManagersInv, ManagerOK
  <2> QED
    BY <2>1, <2>2 DEF OneMaster
<1> QED
  BY <1>1, Invariance, PTL

\* An item is never worked on while a reply to a user is outstanding.
THEOREM NeverMixed == Spec => []NotMixed
<1>1. ASSUME IInv PROVE NotMixed
  <2>1. ASSUME NEW q \in Qid, queue[q].st = "WORK", NEW m \in Members(q)
        PROVE  mgr[m].s.asks = 0
    <3>1. Here(q)
      BY <2>1 DEF Here
    <3> QED
      BY <1>1, <2>1, <3>1, MemberOfOne DEF IInv, QueuesInv
  <2> QED
    BY <2>1 DEF NotMixed
<1> QED
  BY <1>1, Invariance, PTL

\* A step leaves the session of an owner who knows of it, takes the manager away
\* from the owner, or tells the owner of the loss.
LEMMA StepTells ==
  ASSUME IInv, [Next]_vars, NEW m \in Sid,
         mgr[m].told = "up", mgr[m].s.st = "up", ~mgr[m].old
  PROVE  \/ mgr'[m].s.st = "up" \/ mgr'[m].user # mgr[m].user
         \/ mgr'[m].told = "down"
<1> DEFINE r == mgr[m]
           Fine == \/ mgr'[m].s.st = "up" \/ mgr'[m].user # mgr[m].user
                   \/ mgr'[m].told = "down"
<1>1. ManagerOK(r) /\ r \in ManagerState /\ r.s \in SessionState
  BY Stands DEF ManagerOK, ManagerState
<1>2. r.user # NoUser /\ r.s.hear = "user" /\ r.life = "live"
  BY <1>1, Sessions DEF ManagerOK
<1>3. mgr'[m] = mgr[m] => Fine
  OBVIOUS
<1>4. Lost(r).told = "down"
  BY <1>1, <1>2 DEF Lost, ManagerState
<1>5. mgr \in [Sid -> ManagerState]
  BY DEF IInv, TypeOK
<1>6. CASE UNCHANGED mgr
  BY <1>3, <1>6
<1>7. ASSUME NEW u \in User, Closed(u) \/ SessionNew(u) \/ \E k \in Sid : SessionFree(u, k)
      PROVE  Fine
  <2>1. CASE Closed(u)
    <3>0. mgr' = [k \in Sid |->
                    IF mgr[k].user # u THEN mgr[k]
                    ELSE IF mgr[k].qid = 0 THEN Release(mgr[k]) ELSE Unlink(mgr[k])]
      BY <2>1 DEF Closed, UnlinkAll
    <3>1. mgr'[m] = mgr[m] \/ mgr'[m] = Release(r) \/ (mgr'[m] = Unlink(r) /\ r.qid # 0)
      BY <3>0
    <3> QED
      BY <1>1, <1>2, <3>1, ReleaseOK, UnlinkOK
  <2>2. CASE SessionNew(u)
    <3>1. PICK k \in FreshSid : mgr' = [mgr EXCEPT ![k] = NewManager(u)]
      BY <2>2 DEF SessionNew
    <3>2. k # m
      BY <1>2 DEF FreshSid
    <3> QED
      BY <1>5, <3>1, <3>2
  <2>3. CASE \E k \in Sid : SessionFree(u, k)
    <3>1. mgr'[m] = mgr[m] \/ mgr'[m] = Release(r)
      BY <2>3 DEF SessionFree, SetMgr
    <3> QED
      BY <1>1, <1>2, <3>1, ReleaseOK
  <2> QED
    BY <1>7, <2>1, <2>2, <2>3
<1>8. ASSUME NEW u \in User, NEW k \in Sid, Ask(u, k) \/ Dirlist(u, k)
      PROVE  Fine
  <2>1. CASE k # m
    BY <1>5, <1>8, <2>1 DEF Ask, Dirlist
  <2>2. CASE k = m
    <3>1. mgr'[m] = CmdqNew(r) \/ mgr'[m] = [CmdqNew(r) EXCEPT !.s.listed = TRUE]
      BY <1>5, <1>8, <2>2 DEF Ask, Dirlist
    <3>2. CmdqNew(r).s.st = "up"
      BY <1>1 DEF CmdqNew, ManagerState, SessionState
    <3>3. [CmdqNew(r) EXCEPT !.s.listed = TRUE].s.st = "up"
      BY <1>1 DEF CmdqNew, ManagerState, SessionState
    <3> QED
      BY <3>1, <3>2, <3>3
  <2> QED
    BY <2>1, <2>2
<1>9. ASSUME NEW u \in User, NEW n \in Sid, NEW s \in Sid, QueueNew(u, n, s)
      PROVE  Fine
  <2>1. mgr'[m] = mgr[m] \/ \E q \in FreshQid : mgr'[m] = [mgr[m] EXCEPT !.qid = q]
    BY <1>9, ZenonT(30) DEF QueueNew, SetMgr
  <2> QED
    BY <1>1, <2>1 DEF ManagerState
<1>10. ASSUME NEW u \in User, NEW q \in Qid,
              Go(u, q) \/ Drop(u, q) \/ QGrab(u, q) \/ \E ifidle \in BOOLEAN : QueueFree(u, q, ifidle)
       PROVE  Fine
  <2>1. CASE Go(u, q)
    <3>1. mgr'[m] = mgr[m] \/ mgr'[m] = Unlink(r)
      BY <2>1 DEF Go, SetMgr
    <3> QED
      BY <1>1, <3>1 DEF Unlink, ManagerState
  <2>2. CASE Drop(u, q)
    <3>1. mgr'[m] = mgr[m] \/ mgr'[m] = Lost(r)
      BY <2>2 DEF Drop, SetMgr
    <3> QED
      BY <1>4, <3>1
  <2>3. CASE QGrab(u, q)
    <3> DEFINE r1 == SetUser(r, u)
               r2 == [r1 EXCEPT !.s.hear = "user"]
    <3>1. r1 \in ManagerState /\ r1.s = r.s
      BY <1>1 DEF SetUser, ManagerState
    <3>2. mgr'[m] = mgr[m] \/ mgr'[m] = SetHandler(r1, "user")
      BY <2>3 DEF QGrab, SetMgr
    <3>3. r2.s.st = "up" /\ PostIdle(r2).s = r2.s
      <4> HIDE DEF r1
      <4>1. r2 \in ManagerState /\ r2.s.st = "up"
        BY <1>1, <3>1 DEF ManagerState, SessionState
      <4> QED
        BY <4>1 DEF PostIdle, ManagerState
    <3>4. SetHandler(r1, "user") = r2 \/ SetHandler(r1, "user") = PostIdle(r2)
      BY DEF SetHandler
    <3> QED
      BY <3>2, <3>3, <3>4
  <2>4. CASE \E ifidle \in BOOLEAN : QueueFree(u, q, ifidle)
    <3>1. mgr'[m] = mgr[m] \/ mgr'[m] = ReleaseUnowned(r)
      BY <2>4 DEF QueueFree, SetMgr
    <3>2. ReleaseUnowned(r) = [r EXCEPT !.qid = 0]
      BY <1>2 DEF ReleaseUnowned
    <3> QED
      BY <1>1, <3>1, <3>2 DEF ManagerState
  <2> QED
    BY <1>10, <2>1, <2>2, <2>3, <2>4
<1>11. ASSUME NEW u \in User, NEW q \in Qid, NEW go \in BOOLEAN, NEW sub \in BOOLEAN,
              QClone(u, q, go, sub)
       PROVE  Fine
  <2>1. PICK n \in FreshSid : n + 1 \in Sid /\ (m \notin {n, n + 1} => mgr'[m] = mgr[m])
    BY <1>11 DEF QClone
  <2>2. m # n
    BY <1>2 DEF FreshSid
  <2>3. m # n + 1
    <3>1. n \in 1 .. (n + 1) - 1 /\ mgr[n].life = "none"
      BY ApiAssumption DEF FreshSid, Sid
    <3> QED
      BY <1>2, <2>1, <3>1 DEF IInv, ManagersInv
  <2> QED
    BY <2>1, <2>2, <2>3
<1>12. ASSUME NEW k \in Sid, SessionStep(k)
       PROVE  Fine
  <2>1. CASE k # m
    BY <1>5, <1>12, <2>1 DEF SessionStep, LoginDone, Reply, Lose
  <2>2. CASE k = m /\ Reply(k)
    <3>1. mgr'[m] = PostIdle(AskDone(r)) \/ mgr'[m] = PostIdle(JobDone(r))
      BY <1>5, <2>2 DEF Reply
    <3>2. PostIdle(AskDone(r)).s.st = "up"
      <4>1. AskDone(r).s.st = "up" /\ [AskDone(r) EXCEPT !.told = "up"].s.st = "up"
        BY <1>1 DEF AskDone, ManagerState, SessionState
      <4> QED
        BY <4>1 DEF PostIdle
    <3>3. PostIdle(JobDone(r)).s.st = "up"
      <4>1. JobDone(r).s.st = "up" /\ [JobDone(r) EXCEPT !.told = "up"].s.st = "up"
        BY <1>1 DEF JobDone, ManagerState, SessionState
      <4> QED
        BY <4>1 DEF PostIdle
    <3> QED
      BY <3>1, <3>2, <3>3
  <2>3. CASE k = m /\ Lose(k)
    BY <1>4, <1>5, <2>3 DEF Lose
  <2>4. CASE k = m /\ LoginDone(k)
    BY <2>4 DEF LoginDone
  <2> QED
    BY <1>12, <2>1, <2>2, <2>3, <2>4 DEF SessionStep
<1>13. CASE Cleanup
  <2>1. mgr'[m] = mgr[m] \/ mgr'[m] = Cleaned(m)
    BY <1>13 DEF Cleanup
  <2> QED
    BY <1>1, <2>1, CleanedOK
<1>14. ASSUME NEW q \in Qid, QueueIsConnected(q)
       PROVE  Fine
  <2>1. Here(q) /\ queue[q].st # "IDLE"
    BY <1>14 DEF QueueIsConnected, Runs, Here
  <2>2. m \notin Members(q)
    BY <1>2, <2>1 DEF IInv, QueuesInv
  <2>3. mgr'[m] = mgr[m]
    BY <1>14, <2>2 DEF QueueIsConnected, SetMgr
  <2> QED
    BY <2>3
<1>15. ASSUME NEW q \in Qid, NEW k \in Sid, NEW list \in BOOLEAN, QueueWorks(q, k, list)
       PROVE  Fine
  <2>1. Here(q) /\ queue[q].st # "IDLE" /\ k \in Members(q)
    BY <1>15 DEF QueueWorks, Runs, Here
  <2>2. m # k
    BY <1>2, <2>1 DEF IInv, QueuesInv
  <2>3. mgr'[m] = mgr[m]
    BY <1>5, <1>15, <2>2 DEF QueueWorks
  <2> QED
    BY <2>3
<1>16. ASSUME NEW u \in User, UserStep(u)
       PROVE  Fine
  <2>1. CASE \/ Connect(u) \/ Ssl(u) \/ Auth(u) \/ Quit(u) \/ ClosedAnon(u)
             \/ \E last \in BOOLEAN : Shutdown(u, last)
             \/ \E k \in Sid : AskFidLost(u, k)
             \/ \E q \in Qid : QCompareLost(u, q) \/ Subscribe(u, q) \/ Unsubscribe(u, q)
    <3>1. UNCHANGED mgr
      BY <2>1 DEF Connect, Ssl, Auth, Quit, ClosedAnon, Shutdown, AskFidLost, QCompareLost,
                  Subscribe, Unsubscribe
    <3> QED
      BY <1>6, <3>1
  <2>2. CASE Closed(u) \/ SessionNew(u) \/ \E k \in Sid : SessionFree(u, k)
    BY <1>7, <2>2
  <2>3. CASE \E k \in Sid : Ask(u, k) \/ Dirlist(u, k)
    BY <1>8, <2>3
  <2>4. CASE \E n, s \in Sid : QueueNew(u, n, s)
    BY <1>9, <2>4
  <2>5. CASE \E q \in Qid : \/ Go(u, q) \/ Drop(u, q) \/ QGrab(u, q)
                             \/ \E ifidle \in BOOLEAN : QueueFree(u, q, ifidle)
    BY <1>10, <2>5
  <2>6. CASE \E q \in Qid : \E go, sub \in BOOLEAN : QClone(u, q, go, sub)
    BY <1>11, <2>6
  <2> QED
    BY <1>16, <2>1, <2>2, <2>3, <2>4, <2>5, <2>6 DEF UserStep
<1>17. CASE RunStep
  <2>1. CASE Wake \/ \E q \in Qid :
               \/ QueueStart(q) \/ QueueStartNextItem(q)
               \/ \E st \in {"START", "WAIT", "IDLE"} : QueueLeaves(q, st)
    <3>1. UNCHANGED mgr
      BY <2>1 DEF Wake, QueueStart, QueueStartNextItem, QueueLeaves
    <3> QED
      BY <1>6, <3>1
  <2> QED
    BY <1>13, <1>14, <1>15, <1>17, <2>1 DEF RunStep
<1>18. CASE UNCHANGED vars
  BY <1>6, <1>18 DEF vars
<1> QED
  BY <1>12, <1>16, <1>17, <1>18 DEF Next

\* An owner who was last told that the session is there is told when it goes.
THEOREM LossAlwaysTold == Spec => LossIsTold
<1> DEFINE Tells ==
      \A m \in Sid :
        (/\ mgr[m].told = "up" /\ mgr'[m].user = mgr[m].user
         /\ mgr[m].s.st = "up" /\ mgr'[m].s.st # "up" /\ ~mgr[m].old)
          => mgr'[m].told = "down"
<1>1. IInv /\ [Next]_vars => Tells
  BY StepTells
<1>2. Spec => [][Tells]_vars
  <2>1. IInv /\ [Next]_vars => [Tells]_vars
    BY <1>1
  <2> HIDE DEF Tells
  <2> QED
    BY <2>1, Invariance, PTL DEF Spec
<1> QED
  BY <1>2 DEF LossIsTold
=============================================================================
