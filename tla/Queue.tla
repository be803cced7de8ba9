-------------------------------- MODULE Queue --------------------------------
(***************************************************************************)
(* One queue of the engine (engine/queue.c), the two managers it drives    *)
(* (engine/manager.c) and the handler that the replies of their sessions   *)
(* go to (handler_queue of engine/handler.c).                              *)
(*                                                                         *)
(* The engine is one thread.  Its main loop polls the sockets, where       *)
(* replies, data channels, losses and the users' commands call handlers,   *)
(* then calls queue_process until a call leaves engine_nodelay unset, then *)
(* manager_cleanup.  Events are enabled only in the poll; a call of        *)
(* queue_process is one action.                                            *)
(***************************************************************************)
EXTENDS Session, QueueList

CONSTANTS
  SiteOf,      \* the sites of the two managers
  FirstItems,  \* the queues a user may have built before the first GO
  FirstRemote, \* what the destination may hold of their files
  NewItems,    \* the items that QADD may add
  AtChoices,   \* the "@" that QADD and QMOVE may name
  UserOps,     \* the commands that users send
  MaxItems,    \* bound: items ever created
  MaxKids,     \* bound: entries of a directory that its expansion queues (0 .. 2)
  MaxMkd,      \* bound: missing levels that mkd_depth counts
  MaxCmds,     \* bound: commands of users
  MaxLost,     \* bound: connections lost
  MaxBad       \* bound: replies other than the one asked for

Side == {"N", "S"}
Other(p) == IF p = "N" THEN "S" ELSE "N"

ItemId == 1 .. MaxItems
ItemType == {"FILE", "DIRECTORY", "STOP"}
\* What the destination holds of a file, and what its SIZE reply says.
Size == {"none", "part", "full", "more"}

\* A queue item: "dir" is the directory that is changed to for it, src_failure
\* and dst_failure are kept as zero or not, "ssize" is a known src.size, and
\* the two transfer counters stop at 3, above which no test tells them apart.
Item ==
  [id: ItemId, type: ItemType, north: BOOLEAN, weight: {0, -1}, dir: Dirs,
   over: BOOLEAN, requeued: BOOLEAN, rest: BOOLEAN, ssize: BOOLEAN, dsize: Size,
   sfail: BOOLEAN, dfail: BOOLEAN, soft: 0 .. 2, sxfer: 0 .. 3, dxfer: 0 .. 3]

\* What a user or a listing chooses of an item.
Template ==
  [type: ItemType, north: BOOLEAN, weight: {0, -1}, dir: Dirs,
   over: BOOLEAN, rest: BOOLEAN, ssize: BOOLEAN]

NewItem(id, t) ==
  [id |-> id, type |-> t.type, north |-> t.north, weight |-> t.weight,
   dir |-> t.dir, over |-> t.over, requeued |-> FALSE, rest |-> t.rest,
   ssize |-> t.ssize, dsize |-> "none", sfail |-> FALSE, dfail |-> FALSE,
   soft |-> 0, sxfer |-> 0, dxfer |-> 0]

NewQueue(ts) == [i \in 1 .. Len(ts) |-> NewItem(i, ts[i])]

\* QADD without "@".
Absent == <<"ABSENT", 0>>

UserOp == {"GO", "REGO", "STOP", "DROP", "QADD", "QDEL", "QMOVE"}

ASSUME QueueAssumption ==
  /\ SiteOf \in [Side -> Site]
  /\ MaxItems \in Nat /\ MaxKids \in 0 .. 2 /\ MaxMkd \in Nat
  /\ MaxCmds \in Nat /\ MaxLost \in Nat /\ MaxBad \in Nat
  /\ Refusals \subseteq Refusal
  /\ FirstItems \subseteq Seq(Template)
  /\ FirstRemote \subseteq Size
  /\ \A ts \in FirstItems : Len(ts) <= MaxItems
  /\ NewItems \subseteq Template
  /\ AtChoices \subseteq At \cup {Absent}
  /\ UserOps \subseteq UserOp

\* queue_state_t, less the QUEUE_ prefix.
FileState ==
  {"FILE_START", "FILE_PHASE_1_START", "FILE_PHASE_1_IDLE", "FILE_PHASE_2_START",
   "FILE_PHASE_2_WAIT", "FILE_PHASE_2_DISABLE", "FILE_PHASE_3_START",
   "FILE_PHASE_3_WAIT", "FILE_PHASE_4_START", "FILE_PHASE_5_START",
   "FILE_PHASE_5_REST_WAIT", "FILE_PHASE_6_START", "FILE_PHASE_7_START",
   "FILE_PHASE_7_WAIT", "FILE_PHASE_8_START", "FILE_PHASE_8_WAIT",
   "FILE_PHASE_9_START", "FILE_PHASE_9_REST", "FILE_PHASE_10_START",
   "FILE_PHASE_10_WAIT", "FILE_PHASE_11_START", "FILE_PHASE_11_WAIT",
   "FILE_PHASE_12_START"}

DirectoryState ==
  {"DIRECTORY_START", "DIRECTORY_PHASE_1_IDLE", "DIRECTORY_PHASE_2_START",
   "DIRECTORY_PHASE_2_MKD", "DIRECTORY_PHASE_2_COMPARE"}

\* The states in which queue_process does not look for lost sessions.
LossBlind ==
  {"IDLE", "START", "ISCONNECTED", "ITEM_FAILED", "ERROR_ITEM", "REQUEUE_ITEM",
   "ACTIVE"}

State ==
  FileState \cup DirectoryState \cup LossBlind
  \cup {"START_NEXT_ITEM", "REMOVE_ITEM", "EMPTY"}

VARIABLES
  loop,      \* "poll": in lion_poll; "run": engine_nodelay asks for another call
  alive,     \* FALSE after a NULL pointer was followed
  state, stop, src,            \* of queue_t; src is the side of src_mgr
  items, num,                  \* the list and num_items
  errs, done, gone,            \* ids: in err_items, popped as done, deleted by a user
  secure, srcpasv, mkd, store, \* secure_data, srcpasv, mkd_depth; is the static set
  sess, old,                   \* session and old_session of each manager
  remote, wire,                \* the destination's files and the running transfer
  nextId, cmds, lost, bad      \* what is left of the bounds

queueVars == <<state, stop, src>>
listVars  == <<items, num, errs, done, gone>>
fileVars  == <<secure, srcpasv, mkd, store>>
worldVars == <<alive, remote, wire, nextId, cmds, lost, bad>>
vars == <<loop, queueVars, listVars, fileVars, sess, old, worldVars>>

NoWire == [to |-> 0, got |-> "wait"]

Init ==
  /\ \E ts \in FirstItems :
       /\ items = NewQueue(ts) /\ num = Len(ts) /\ nextId = Len(ts) + 1
       /\ remote \in [ItemId -> FirstRemote \cup {"none"}]
       /\ \A i \in ItemId \ DOMAIN ts : remote[i] = "none"
  /\ loop = "poll" /\ alive = TRUE
  /\ state = "IDLE" /\ stop = FALSE /\ src = "none"
  /\ errs = {} /\ done = {} /\ gone = {}
  /\ secure = FALSE /\ srcpasv = FALSE /\ mkd = 0 /\ store = FALSE
  /\ sess = [p \in Side |-> NewSession] /\ old = [p \in Side |-> FALSE]
  /\ wire = NoWire /\ cmds = 0 /\ lost = 0 /\ bad = 0

-----------------------------------------------------------------------------
(* One call of queue_process. *)

BothHere == \A p \in Side : sess[p].here
BothIdle == \A p \in Side : IsIdle(sess[p])

\* A lost session fails the item before the switch looks at the state, unless
\* the queue was told to stop.
Effective ==
  IF state \notin LossBlind /\ ~BothHere /\ ~stop /\ num > 0
  THEN "ITEM_FAILED" ELSE state

In(st) == alive /\ Effective = st

\* engine_nodelay was set: queue_process is called again before the next poll.
Again(ss) == loop' = "run" /\ sess' = ss /\ UNCHANGED old

\* It was not: manager_cleanup runs, then the poll.  A manager with an
\* old_session loses the session it has opened since.
Sleep(ss) ==
  /\ loop' = "poll"
  /\ sess' = [p \in Side |-> IF old[p] THEN NoSession ELSE ss[p]]
  /\ old' = [p \in Side |-> FALSE]

Settle(ss, nodelay) == (nodelay /\ Again(ss)) \/ (~nodelay /\ Sleep(ss))

\* When each session was given one command that it may have answered from its
\* cache: whether one of them posted IDLE, which sets engine_nodelay.
PostedIdle(ss) == \E p \in Side : ss[p] = sess[p] /\ IdleEvent(sess[p])

Dst == Other(src)
SrcSite == SiteOf[src]
DstSite == SiteOf[Dst]
Top == Head(items)
SetTop(item) == <<item>> \o Tail(items)
Failed == Top.sfail \/ Top.dfail

Start ==
  /\ In("START")
  /\ state' = IF items = <<>> \/ num = 0 THEN "EMPTY" ELSE "ISCONNECTED"
  /\ stop' = FALSE
  /\ Again(sess)
  /\ UNCHANGED <<src, listVars, fileVars, worldVars>>

\* A missing session is opened; a session that is there posts IDLE if it is.
IsConnected ==
  /\ In("ISCONNECTED")
  /\ state' = "START_NEXT_ITEM"
  /\ LET ss == [p \in Side |-> IF sess[p].here THEN sess[p] ELSE NewSession]
     IN  Settle(ss, PostedIdle(ss))
  /\ UNCHANGED <<stop, src, listVars, fileVars, worldVars>>

StartNextItem ==
  /\ In("START_NEXT_ITEM") /\ BothIdle
  /\ state' = "ACTIVE"
  /\ Again(sess)
  /\ UNCHANGED <<stop, src, listVars, fileVars, worldVars>>

\* The queue is out of items or was told to stop.
ActiveEnd ==
  /\ In("ACTIVE") /\ (num = 0 \/ stop)
  /\ state' = IF num = 0 THEN "EMPTY" ELSE "IDLE"
  /\ Sleep(sess)
  /\ UNCHANGED <<stop, src, listVars, fileVars, worldVars>>

Active ==
  /\ In("ACTIVE") /\ num > 0 /\ ~stop
  /\ src' = IF Top.north THEN "N" ELSE "S"
  /\ state' = CASE Top.type = "FILE" -> "FILE_START"
                [] Top.type = "DIRECTORY" -> "DIRECTORY_START"
                [] Top.type = "STOP" -> "REMOVE_ITEM"
  /\ stop' = (Top.type = "STOP")
  /\ Again(sess)
  /\ UNCHANGED <<listVars, fileVars, worldVars>>

FileStart ==
  /\ In("FILE_START")
  /\ state' = "FILE_PHASE_1_START"
  /\ Again(sess)
  /\ UNCHANGED <<stop, src, listVars, fileVars, worldVars>>

-----------------------------------------------------------------------------
(* Phases 1 to 4 of a file: directory, TLS, privacy, type. *)

Phase1Start ==
  /\ In("FILE_PHASE_1_START")
  /\ state' = "FILE_PHASE_1_IDLE"
  /\ LET ss == [sess EXCEPT ![src] = Cwd(@, Top.dir, "PHASE_1_SRC_CWD"),
                            ![Dst] = Cwd(@, Top.dir, "PHASE_1_DST_CWD")]
     IN  Settle(ss, PostedIdle(ss))
  /\ UNCHANGED <<stop, src, listVars, fileVars, worldVars>>

Phase1Idle ==
  /\ In("FILE_PHASE_1_IDLE") /\ BothIdle
  /\ state' = IF Failed THEN "ITEM_FAILED" ELSE "FILE_PHASE_2_START"
  /\ Again(sess)
  /\ UNCHANGED <<stop, src, listVars, fileVars, worldVars>>

IsLocal == SrcSite.local \/ DstSite.local
TlsPossible == \A p \in Side : SiteOf[p].ssl /\ SiteOf[p].fxpTLS # "NO"
TurnsClient(site) == site.ccsn \/ site.sscn

ClientOff(p) ==
  LET site == SiteOf[p]
      s1 == IF site.ccsn THEN Ccsn(site, sess[p], FALSE, "PHASE_2_DISABLE") ELSE sess[p]
  IN  IF site.sscn THEN Sscn(site, s1, FALSE, "PHASE_2_DISABLE") ELSE s1

\* Not worth trying: one of the sites has no TLS or has FXP_TLS=NO, or neither
\* can act as the TLS client.
Phase2Plain ==
  /\ In("FILE_PHASE_2_START") /\ BothIdle
  /\ \/ ~TlsPossible /\ UNCHANGED secure
     \/ /\ TlsPossible /\ ~IsLocal /\ \A p \in Side : ~TurnsClient(SiteOf[p])
        /\ secure' = FALSE
  /\ state' = "FILE_PHASE_2_DISABLE"
  /\ Again(sess)
  /\ UNCHANGED <<stop, src, srcpasv, mkd, store, listVars, worldVars>>

\* A local site needs no CCSN.
Phase2Local ==
  /\ In("FILE_PHASE_2_START") /\ BothIdle /\ TlsPossible /\ IsLocal
  /\ secure' = TRUE
  /\ state' = "FILE_PHASE_3_START"
  /\ Again([p \in Side |-> ClientOff(p)])
  /\ UNCHANGED <<stop, src, srcpasv, mkd, store, listVars, worldVars>>

\* One side is told to be the TLS client: the source if it can.  On a site with
\* data_TLS=NO nothing is sent and no event comes.
Phase2Client ==
  /\ In("FILE_PHASE_2_START") /\ BothIdle /\ TlsPossible /\ ~IsLocal
  /\ \E p \in Side :
       /\ TurnsClient(SiteOf[p]) /\ (p = src \/ ~TurnsClient(SrcSite))
       /\ LET site == SiteOf[p]
              flag == IF site.ccsn THEN "CCSN" ELSE "SSCN"
              ev   == IF p = src THEN "PHASE_2_SRC_SECURE" ELSE "PHASE_2_DST_SECURE"
              cached == site.dataTLS # "NO" /\ Cached(sess[p], flag, TRUE)
          IN  /\ secure' = cached
              /\ Settle([sess EXCEPT ![p] = IF site.ccsn
                                            THEN Ccsn(site, @, TRUE, ev)
                                            ELSE Sscn(site, @, TRUE, ev)],
                        cached /\ IdleEvent(sess[p]))
  /\ state' = "FILE_PHASE_2_WAIT"
  /\ UNCHANGED <<stop, src, srcpasv, mkd, store, listVars, worldVars>>

Phase2Wait ==
  /\ In("FILE_PHASE_2_WAIT") /\ BothIdle
  /\ state' = IF Failed THEN "FILE_PHASE_2_DISABLE" ELSE "FILE_PHASE_3_START"
  /\ Again(sess)
  /\ UNCHANGED <<stop, src, listVars, fileVars, worldVars>>

Demands(site) == site.dataTLS = "YES" \/ site.fxpTLS = "YES"

\* TLS is given up; a site that demands it fails the item.
Phase2Disable ==
  /\ In("FILE_PHASE_2_DISABLE")
  /\ secure' = FALSE
  /\ items' = SetTop([Top EXCEPT !.sfail = @ \/ Demands(SrcSite),
                                 !.dfail = @ \/ Demands(DstSite)])
  /\ state' = IF Demands(SrcSite) \/ Demands(DstSite)
              THEN "ITEM_FAILED" ELSE "FILE_PHASE_3_START"
  /\ Again([p \in Side |-> ClientOff(p)])
  /\ UNCHANGED <<stop, src, num, errs, done, gone, srcpasv, mkd, store, worldVars>>

\* Mutant: only the source is told the privacy.
Phase3StartSrcOnly ==
  /\ In("FILE_PHASE_3_START") /\ BothIdle
  /\ state' = "FILE_PHASE_3_WAIT"
  /\ LET ss == [sess EXCEPT
                  ![src] = SetFlag(@, "PRIVACY", secure, "PHASE_3_SRC_PROT")]
     IN  Settle(ss, PostedIdle(ss))
  /\ UNCHANGED <<stop, src, listVars, fileVars, worldVars>>

Phase3Start ==
  /\ In("FILE_PHASE_3_START") /\ BothIdle
  /\ state' = "FILE_PHASE_3_WAIT"
  /\ LET ss == [sess EXCEPT
                  ![src] = SetFlag(@, "PRIVACY", secure, "PHASE_3_SRC_PROT"),
                  ![Dst] = SetFlag(@, "PRIVACY", secure, "PHASE_3_DST_PROT")]
     IN  Settle(ss, PostedIdle(ss))
  /\ UNCHANGED <<stop, src, listVars, fileVars, worldVars>>

Phase3Wait ==
  /\ In("FILE_PHASE_3_WAIT") /\ BothIdle
  /\ state' = IF secure /\ Failed THEN "FILE_PHASE_2_DISABLE" ELSE "FILE_PHASE_4_START"
  /\ Again(sess)
  /\ UNCHANGED <<stop, src, listVars, fileVars, worldVars>>

Phase4Start ==
  /\ In("FILE_PHASE_4_START") /\ BothIdle
  /\ state' = "FILE_PHASE_5_START"
  /\ LET ss == [p \in Side |-> SetFlag(sess[p], "BINARY", TRUE, "PHASE_4_TYPE")]
     IN  Settle(ss, PostedIdle(ss))
  /\ UNCHANGED <<stop, src, listVars, fileVars, worldVars>>

-----------------------------------------------------------------------------
(* Phases 5 to 9 of a file: size, PRET, PASV, PORT, restart point. *)

\* The destination is only asked when the file may be resumed.
Phase5Start ==
  /\ In("FILE_PHASE_5_START") /\ BothIdle
  /\ LET asks == ~Top.over /\ DstSite.resume # "NO"
         s1   == [sess EXCEPT ![src] = CmdqNew(@, Cmd("SIZE", "PHASE_5_SRC_SIZE"))]
     IN  /\ state' = IF asks THEN "FILE_PHASE_5_REST_WAIT" ELSE "FILE_PHASE_6_START"
         /\ Sleep(IF asks
                  THEN [s1 EXCEPT ![Dst] = CmdqNew(@, Cmd("SIZE", "PHASE_5_DST_SIZE"))]
                  ELSE s1)
  /\ UNCHANGED <<stop, src, listVars, fileVars, worldVars>>

Resumable == Top.ssize /\ Top.dsize = "part"
Complete  == Top.ssize /\ Top.dsize = "full"

\* Resume, resume after the other files, skip a file that is there, or go on.
Phase5RestWait ==
  /\ In("FILE_PHASE_5_REST_WAIT") /\ BothIdle
  /\ LET last == DstSite.resumeLast = "YES" /\ ~Top.requeued
     IN  \/ /\ ~Top.rest /\ Resumable /\ last
            /\ items' = SetTop([Top EXCEPT !.requeued = TRUE])
            /\ state' = "REQUEUE_ITEM"
         \/ /\ ~Top.rest /\ Resumable /\ ~last
            /\ items' = SetTop([Top EXCEPT !.rest = TRUE])
            /\ state' = "FILE_PHASE_6_START"
         \/ /\ ~Top.rest /\ Complete
            /\ UNCHANGED items
            /\ state' = "REMOVE_ITEM"
         \/ /\ Top.rest \/ (~Resumable /\ ~Complete)
            /\ UNCHANGED items
            /\ state' = "FILE_PHASE_6_START"
  /\ Again(sess)
  /\ UNCHANGED <<stop, src, num, errs, done, gone, fileVars, worldVars>>

Phase6Start ==
  /\ In("FILE_PHASE_6_START") /\ BothIdle
  /\ state' = "FILE_PHASE_7_START"
  /\ Again([p \in Side |-> Pret(SiteOf[p], sess[p], "PHASE_6_PRET")])
  /\ UNCHANGED <<stop, src, listVars, fileVars, worldVars>>

Phase7Start ==
  /\ In("FILE_PHASE_7_START") /\ BothIdle
  /\ IF stop
     THEN state' = "IDLE" /\ Sleep(sess) /\ UNCHANGED srcpasv
     ELSE /\ state' = "FILE_PHASE_7_WAIT"
          /\ srcpasv' = ~(SrcSite.fxpPassive = "NO" \/ DstSite.fxpPassive = "YES")
          /\ Sleep([sess EXCEPT ![IF srcpasv' THEN src ELSE Dst] =
                      CmdqNew(@, Cmd("PASV", "PHASE_7_PASV"))])
  /\ UNCHANGED <<stop, src, listVars, secure, mkd, store, worldVars>>

\* Mutant: a refused PASV is sent again.
Phase7WaitAgain ==
  /\ In("FILE_PHASE_7_WAIT") /\ BothIdle
  /\ state' = IF Failed THEN "FILE_PHASE_7_START" ELSE "FILE_PHASE_8_START"
  /\ Again(sess)
  /\ UNCHANGED <<stop, src, listVars, fileVars, worldVars>>

Phase7Wait ==
  /\ In("FILE_PHASE_7_WAIT") /\ BothIdle
  /\ state' = IF Failed THEN "ITEM_FAILED" ELSE "FILE_PHASE_8_START"
  /\ Again(sess)
  /\ UNCHANGED <<stop, src, listVars, fileVars, worldVars>>

Phase8Start ==
  /\ In("FILE_PHASE_8_START") /\ BothIdle
  /\ state' = "FILE_PHASE_8_WAIT"
  /\ Sleep([sess EXCEPT ![IF srcpasv THEN Dst ELSE src] =
              CmdqNew(@, Cmd("PORT", "PHASE_8_PORT"))])
  /\ UNCHANGED <<stop, src, listVars, fileVars, worldVars>>

\* Mutant: the reply to PORT is not waited for.
Phase8WaitNot ==
  /\ In("FILE_PHASE_8_WAIT")
  /\ state' = IF Failed THEN "ITEM_FAILED" ELSE "FILE_PHASE_9_START"
  /\ Again(sess)
  /\ UNCHANGED <<stop, src, listVars, fileVars, worldVars>>

Phase8Wait ==
  /\ In("FILE_PHASE_8_WAIT") /\ BothIdle
  /\ state' = IF Failed THEN "ITEM_FAILED" ELSE "FILE_PHASE_9_START"
  /\ Again(sess)
  /\ UNCHANGED <<stop, src, listVars, fileVars, worldVars>>

Phase9Start ==
  /\ In("FILE_PHASE_9_START") /\ BothIdle
  /\ state' = "FILE_PHASE_9_REST"
  /\ LET ss == [sess EXCEPT ![src] = Rest(@, Top.rest, "PHASE_9_SRC_REST"),
                            ![Dst] = Rest(@, Top.rest, "PHASE_9_DST_REST")]
     IN  Settle(ss, PostedIdle(ss))
  /\ UNCHANGED <<stop, src, listVars, fileVars, worldVars>>

\* A refused restart point is taken back on both sides; the transfer goes on.
Phase9Rest ==
  /\ In("FILE_PHASE_9_REST") /\ BothIdle
  /\ state' = "FILE_PHASE_10_START"
  /\ LET ss == [p \in Side |-> Rest(sess[p], FALSE, "PHASE_9_REST2")]
     IN  IF Failed THEN Settle(ss, PostedIdle(ss)) ELSE Again(sess)
  /\ UNCHANGED <<stop, src, listVars, fileVars, worldVars>>

-----------------------------------------------------------------------------
(* Phases 10 to 12 of a file: STOR, RETR, and the two 226. *)

\* The wire remembers which file the destination writes, none of the queue's
\* when the session is in another directory than the item's.
Phase10Start ==
  /\ In("FILE_PHASE_10_START") /\ BothIdle
  /\ IF stop
     THEN state' = "IDLE" /\ Sleep(sess) /\ UNCHANGED <<items, wire>>
     ELSE /\ state' = "FILE_PHASE_10_WAIT"
          /\ items' = SetTop([Top EXCEPT !.sxfer = 0, !.dxfer = 0])
          /\ wire' = [to |-> IF sess[Dst].cwd = Top.dir THEN Top.id ELSE 0,
                      got |-> "wait"]
          /\ Sleep([sess EXCEPT ![Dst] = Stor(@)])
  /\ UNCHANGED <<stop, src, num, errs, done, gone, fileVars, alive, remote,
                 nextId, cmds, lost, bad>>

Phase10Wait ==
  /\ In("FILE_PHASE_10_WAIT") /\ BothIdle
  /\ state' = IF Failed THEN "ITEM_FAILED" ELSE "FILE_PHASE_11_START"
  /\ Again(sess)
  /\ UNCHANGED <<stop, src, listVars, fileVars, worldVars>>

Phase11Start ==
  /\ In("FILE_PHASE_11_START") /\ BothIdle
  /\ state' = "FILE_PHASE_11_WAIT"
  /\ Sleep([sess EXCEPT ![src] = Retr(@)])
  /\ UNCHANGED <<stop, src, listVars, fileVars, worldVars>>

Phase11Wait ==
  /\ In("FILE_PHASE_11_WAIT") /\ BothIdle
  /\ IF Failed
     THEN /\ state' = "ITEM_FAILED"
          /\ Sleep([sess EXCEPT ![Dst] = CmdqNew(@, Cmd("ABOR", "PHASE_11_ABOR"))])
     ELSE /\ state' = "FILE_PHASE_12_START"
          /\ Again(sess)
  /\ UNCHANGED <<stop, src, listVars, fileVars, worldVars>>

\* Mutant: only the destination is waited for.
OneEnded == Top.dxfer = 2

\* Both sides have reported the start and the end.
BothEnded == Top.sxfer = 2 /\ Top.dxfer = 2

Phase12Start ==
  /\ In("FILE_PHASE_12_START") /\ BothIdle /\ BothEnded
  /\ IF Failed
     THEN state' = "ITEM_FAILED" /\ Again(sess)
     ELSE /\ state' = "REMOVE_ITEM"
          /\ Again([p \in Side |-> CmdqNew(sess[p], Cmd("NOOP", "PHASE_12_NOOP"))])
  /\ UNCHANGED <<stop, src, listVars, fileVars, worldVars>>

-----------------------------------------------------------------------------
(* A directory: list both sides, queue what the destination lacks. *)

DirectoryStart ==
  /\ In("DIRECTORY_START") /\ BothIdle
  /\ state' = "DIRECTORY_PHASE_1_IDLE"
  /\ items' = SetTop([Top EXCEPT !.sfail = FALSE, !.dfail = FALSE])
  /\ LET ss == [sess EXCEPT
                  ![src] = Cwd(@, Top.dir, "DIRECTORY_PHASE_1_SRC_CWD"),
                  ![Dst] = Cwd(@, Top.dir, "DIRECTORY_PHASE_1_DST_CWD")]
     IN  /\ mkd' = IF IsIn(sess[Dst], Top.dir) THEN 0 ELSE mkd
         /\ Settle(ss, PostedIdle(ss))
  /\ UNCHANGED <<stop, src, num, errs, done, gone, secure, srcpasv, store, worldVars>>

DirectoryPhase1Idle ==
  /\ In("DIRECTORY_PHASE_1_IDLE") /\ BothIdle
  /\ state' = IF Top.sfail THEN "ITEM_FAILED" ELSE "DIRECTORY_PHASE_2_START"
  /\ Again(sess)
  /\ UNCHANGED <<stop, src, listVars, fileVars, worldVars>>

\* A destination without the directory counts as listed, and empty.
DirectoryPhase2Start ==
  /\ In("DIRECTORY_PHASE_2_START") /\ BothIdle
  /\ state' = "DIRECTORY_PHASE_2_MKD"
  /\ LET s1 == [sess EXCEPT
                  ![src] = Dirlist(SrcSite, @, "DIRECTORY_PHASE_2_SRC_DIRLIST")]
     IN  IF Top.dfail
         THEN /\ items' = SetTop([Top EXCEPT !.sxfer = 0, !.dxfer = 2, !.dfail = FALSE])
              /\ Sleep(s1)
         ELSE /\ items' = SetTop([Top EXCEPT !.sxfer = 0, !.dxfer = 0])
              /\ Sleep([s1 EXCEPT
                          ![Dst] = Dirlist(DstSite, @, "DIRECTORY_PHASE_2_DST_DIRLIST")])
  /\ UNCHANGED <<stop, src, num, errs, done, gone, fileVars, worldVars>>

DirectoryPhase2Mkd ==
  /\ In("DIRECTORY_PHASE_2_MKD") /\ BothIdle
  /\ state' = "DIRECTORY_PHASE_2_COMPARE"
  /\ Sleep(IF /\ DstSite.skipEmpty = "NO"
              /\ Top.sxfer # 0 /\ Top.dxfer = 2 /\ ~sess[src].files
           THEN [sess EXCEPT ![Dst] = CmdqNew(@,
                   [op |-> "MKD", arg |-> Top.dir, ev |-> "DIRECTORY_PHASE_2_DST_MKD"])]
           ELSE sess)
  /\ UNCHANGED <<stop, src, listVars, fileVars, worldVars>>

BothListed == Top.sxfer # 0 /\ Top.dxfer # 0

\* queue_directory_think: the entries that are not skipped and that the
\* destination lacks become items that move the same way.
Kid(t) == t.type # "STOP" /\ t.north = Top.north /\ ~t.over /\ ~t.rest /\ t.ssize

KidLists == UNION {[1 .. n -> {t \in NewItems : Kid(t)}] : n \in 0 .. MaxKids}

\* Mutant: the first entry is inserted again for the second.
ExpandedAgain(q, kids) ==
  LET kid(i) == NewItem(nextId + i - 1, kids[i])
  IN  CASE Len(kids) = 0 -> q
        [] Len(kids) = 1 -> ExpandOne(q, kid(1))
        [] OTHER -> ExpandOne(ExpandOne(q, kid(1)), kid(1))

Expanded(q, kids) ==
  LET kid(i) == NewItem(nextId + i - 1, kids[i])
  IN  CASE Len(kids) = 0 -> q
        [] Len(kids) = 1 -> ExpandOne(q, kid(1))
        [] OTHER -> ExpandOne(ExpandOne(q, kid(1)), kid(2))

DirectoryPhase2Compare ==
  /\ In("DIRECTORY_PHASE_2_COMPARE") /\ BothIdle /\ BothListed
  /\ \E kids \in KidLists :
       /\ kids # <<>> => sess[src].files /\ nextId + Len(kids) - 1 <= MaxItems
       /\ items' = Expanded(Tail(items), kids)
       /\ num' = num - 1 + Len(kids)
       /\ nextId' = nextId + Len(kids)
  /\ done' = done \cup {Top.id}
  /\ state' = "START"
  /\ Again(sess)
  /\ UNCHANGED <<stop, src, errs, gone, fileVars, alive, remote, wire, cmds, lost, bad>>

-----------------------------------------------------------------------------
(* The end of an item and of the queue. *)

\* Mutant: one try too many.
ExhaustedLate(soft) == soft > 2

\* HARDCODED: the second failure is the last.
Exhausted(soft) == soft >= 2

ItemFailed ==
  /\ In("ITEM_FAILED")
  /\ items' = SetTop([Top EXCEPT !.soft = @ + 1])
  /\ state' = IF Exhausted(Top.soft + 1) THEN "ERROR_ITEM" ELSE "REQUEUE_ITEM"
  /\ Again(sess)
  /\ UNCHANGED <<stop, src, num, errs, done, gone, fileVars, worldVars>>

\* Mutant: the order to stop is not looked at.
NextItemAnyway ==
  /\ state' = "START"
  /\ Again(sess)

\* START, or IDLE when the queue was told to stop.
NextItem ==
  /\ state' = IF stop THEN "IDLE" ELSE "START"
  /\ IF stop THEN Sleep(sess) ELSE Again(sess)

RequeueItem ==
  /\ In("REQUEUE_ITEM")
  /\ items' = Insert(Tail(items), Top, Default)
  /\ src' = "none"
  /\ NextItem
  /\ UNCHANGED <<stop, num, errs, done, gone, fileVars, worldVars>>

\* Mutant: num_items is not counted down.
ErrorItemUncounted ==
  /\ In("ERROR_ITEM")
  /\ items' = Tail(items)
  /\ UNCHANGED num
  /\ errs' = errs \cup {Top.id}
  /\ src' = IF stop THEN src ELSE "none"
  /\ NextItem
  /\ UNCHANGED <<stop, done, gone, fileVars, worldVars>>

ErrorItem ==
  /\ In("ERROR_ITEM")
  /\ items' = Tail(items) /\ num' = num - 1 /\ errs' = errs \cup {Top.id}
  /\ src' = IF stop THEN src ELSE "none"
  /\ NextItem
  /\ UNCHANGED <<stop, done, gone, fileVars, worldVars>>

RemoveItem ==
  /\ In("REMOVE_ITEM")
  /\ items' = Tail(items) /\ num' = num - 1 /\ done' = done \cup {Top.id}
  /\ src' = "none"
  /\ NextItem
  /\ UNCHANGED <<stop, errs, gone, fileVars, worldVars>>

Empty ==
  /\ In("EMPTY")
  /\ state' = "IDLE"
  /\ Sleep([p \in Side |-> CmdqNew(sess[p], Cmd("QUIT", "PHASE_12_NOOP"))])
  /\ UNCHANGED <<stop, src, listVars, fileVars, worldVars>>

\* Mutant: the order to stop is not taken back.
IdleForgetful ==
  /\ In("IDLE") /\ stop
  /\ Sleep(sess)
  /\ UNCHANGED <<state, stop, src, listVars, fileVars, worldVars>>

Idle ==
  /\ In("IDLE") /\ stop
  /\ stop' = FALSE
  /\ Sleep(sess)
  /\ UNCHANGED <<state, src, listVars, fileVars, worldVars>>

\* Nothing to do yet: the sessions are busy, or the transfer or listing is.
Unhurried == {"FILE_START", "FILE_PHASE_1_START", "FILE_PHASE_2_DISABLE",
              "REMOVE_ITEM", "EMPTY"} \cup (LossBlind \ {"IDLE"})

Waiting ==
  /\ alive /\ Effective \notin Unhurried
  /\ \/ state = "IDLE" /\ ~stop
     \/ state # "IDLE" /\ ~BothIdle
     \/ state = "FILE_PHASE_12_START" /\ ~BothEnded
     \/ state = "DIRECTORY_PHASE_2_COMPARE" /\ ~BothListed
  /\ Sleep(sess)
  /\ UNCHANGED <<queueVars, listVars, fileVars, worldVars>>

FilePass ==
  \/ FileStart \/ Phase1Start \/ Phase1Idle \/ Phase2Plain \/ Phase2Local
  \/ Phase2Client \/ Phase2Wait \/ Phase2Disable \/ Phase3Start \/ Phase3Wait
  \/ Phase4Start \/ Phase5Start \/ Phase5RestWait \/ Phase6Start \/ Phase7Start
  \/ Phase7Wait \/ Phase8Start \/ Phase8Wait \/ Phase9Start \/ Phase9Rest
  \/ Phase10Start \/ Phase10Wait \/ Phase11Start \/ Phase11Wait \/ Phase12Start

DirectoryPass ==
  \/ DirectoryStart \/ DirectoryPhase1Idle \/ DirectoryPhase2Start
  \/ DirectoryPhase2Mkd \/ DirectoryPhase2Compare

\* queue_process
Pass ==
  \/ Start \/ IsConnected \/ StartNextItem \/ ActiveEnd \/ Active
  \/ FilePass \/ DirectoryPass
  \/ ItemFailed \/ RequeueItem \/ ErrorItem \/ RemoveItem \/ Empty \/ Idle
  \/ Waiting

-----------------------------------------------------------------------------
(* handler_queue: what a reply does to the queue.  Every event is taken for  *)
(* the item that is first now.                                               *)

\* Mutant: a refused CCSN, SSCN or PROT does not fail the source.
FailsSrcButTls(ev, code) ==
  /\ code # "ok"
  /\ \/ ev \in {"PHASE_1_SRC_CWD", "PHASE_9_SRC_REST", "PHASE_11_RETR",
                "DIRECTORY_PHASE_1_SRC_CWD"}
     \/ ev = "PHASE_7_PASV" /\ srcpasv
     \/ ev = "PHASE_8_PORT" /\ ~srcpasv

\* Any code but the one asked for fails the side.
FailsSrc(ev, code) ==
  /\ code # "ok"
  /\ \/ ev \in {"PHASE_1_SRC_CWD", "PHASE_2_SRC_SECURE", "PHASE_3_SRC_PROT",
                "PHASE_9_SRC_REST", "PHASE_11_RETR", "DIRECTORY_PHASE_1_SRC_CWD"}
     \/ ev = "PHASE_7_PASV" /\ srcpasv
     \/ ev = "PHASE_8_PORT" /\ ~srcpasv

\* Mutant: a directory that is not there does not fail the destination.
FailsDstButPath(ev, code) ==
  \/ /\ code # "ok"
     /\ \/ ev \in {"PHASE_2_DST_SECURE", "PHASE_3_DST_PROT", "PHASE_9_DST_REST",
                   "PHASE_10_STOR", "DIRECTORY_PHASE_1_DST_CWD"}
        \/ ev = "PHASE_7_PASV" /\ ~srcpasv
        \/ ev = "PHASE_8_PORT" /\ srcpasv
  \/ code = "fail" /\ ev \in {"PHASE_1_DST_CWD2", "DIRECTORY_PHASE_2_DST_MKD"}

\* Of CWD and MKD on the destination only a 5xx is a failure.
FailsDst(ev, code) ==
  \/ /\ code # "ok"
     /\ \/ ev \in {"PHASE_2_DST_SECURE", "PHASE_3_DST_PROT", "PHASE_9_DST_REST",
                   "PHASE_10_STOR", "DIRECTORY_PHASE_1_DST_CWD"}
        \/ ev = "PHASE_7_PASV" /\ ~srcpasv
        \/ ev = "PHASE_8_PORT" /\ srcpasv
  \/ /\ code = "fail"
     /\ ev \in {"PHASE_1_DST_CWD", "PHASE_1_DST_MKD", "PHASE_1_DST_CWD2",
                "DIRECTORY_PHASE_2_DST_MKD"}

ClearsDst(ev, code) ==
  code = "ok" /\ ev \in {"PHASE_1_DST_MKD", "DIRECTORY_PHASE_2_DST_MKD"}

Counted(ev, code) ==
  code = "ok" /\ ev \in {"PHASE_10_STOR", "PHASE_11_RETR", "PHASE_5_SRC_SIZE",
                         "PHASE_5_DST_SIZE"}

Bump(n) == IF n < 3 THEN n + 1 ELSE 3

TopAfter(ev, code) ==
  [Top EXCEPT
     !.sfail = @ \/ FailsSrc(ev, code),
     !.dfail = (@ \/ FailsDst(ev, code)) /\ ~ClearsDst(ev, code),
     !.sxfer = IF ev = "PHASE_10_STOR" /\ code = "ok" THEN Bump(@) ELSE @,
     !.dxfer = IF ev = "PHASE_11_RETR" /\ code = "ok" THEN Bump(@) ELSE @,
     !.ssize = @ \/ (ev = "PHASE_5_SRC_SIZE" /\ code = "ok"),
     !.dsize = IF ev = "PHASE_5_DST_SIZE" /\ code = "ok" THEN remote[Top.id] ELSE @]

\* get_mkdname_by_depth: the level to create next, and the level just created.
NextMkd == IF mkd > 1 THEN Parent ELSE Top.dir
LastMkd == IF store THEN Parent ELSE Top.dir

\* A directory that cannot be entered is created, from the top of what is
\* missing down; each created level is entered before the next.
Enters(s, ev, code) == ev = "PHASE_1_DST_MKD" /\ code = "ok" /\ ~IsIn(s, LastMkd)

Makes(s, ev, code) ==
  \/ ev = "PHASE_1_DST_CWD" /\ code = "fail"
  \/ ev = "PHASE_1_DST_CWD2" /\ code = "ok" /\ mkd > 0
  \/ ev = "PHASE_1_DST_MKD" /\ code = "ok" /\ IsIn(s, LastMkd) /\ mkd > 0

More(s, ev, code) ==
  CASE Makes(s, ev, code)  -> <<[op |-> "MKD", arg |-> NextMkd, ev |-> "PHASE_1_DST_MKD"]>>
    [] Enters(s, ev, code) -> <<[op |-> "CWD", arg |-> LastMkd, ev |-> "PHASE_1_DST_CWD2"]>>
    [] OTHER -> <<>>

\* Mutant: the depth is counted down below zero.
MkdAfterNoFloor(s, ev, code) ==
  CASE ev = "DIRECTORY_PHASE_1_DST_CWD" ->
         IF code = "ok" THEN 0 ELSE IF mkd < MaxMkd THEN mkd + 1 ELSE mkd
    [] Makes(s, ev, code) -> mkd - 1
    [] OTHER -> mkd

\* mkd_depth counts the levels that are missing, then those left to create.
MkdAfter(s, ev, code) ==
  CASE ev = "DIRECTORY_PHASE_1_DST_CWD" ->
         IF code = "ok" THEN 0 ELSE IF mkd < MaxMkd THEN mkd + 1 ELSE mkd
    [] Makes(s, ev, code) -> IF mkd > 1 THEN mkd - 1 ELSE 0
    [] OTHER -> mkd

\* queue->items is followed without a check.
FollowsTop(s, ev, code) ==
  FailsSrc(ev, code) \/ FailsDst(ev, code) \/ ClearsDst(ev, code)
  \/ Counted(ev, code) \/ Makes(s, ev, code)

Die ==
  /\ alive' = FALSE
  /\ UNCHANGED <<loop, queueVars, listVars, fileVars, sess, old, remote, wire,
                 nextId, cmds, lost, bad>>

Cost(code) == IF code = "ok" THEN 0 ELSE 1

\* Every 2xx is the code asked for, of the replies that may have another.
Heard(code) == IF code = "near" THEN "ok" ELSE code

\* An accepted STOR truncates the file unless a restart point was set.
Truncated(s, cmd, code) ==
  IF cmd.op = "STOR" /\ code = "ok" /\ wire.to # 0 /\ "REST" \notin s.status
  THEN [remote EXCEPT ![wire.to] = "part"]
  ELSE remote

-----------------------------------------------------------------------------
(* Events of the poll. *)

Polling == alive /\ loop = "poll"

\* LOST, in either handler: the manager keeps the session until the cleanup.
LoseSession(p) ==
  /\ sess' = [sess EXCEPT ![p] = NoSession]
  /\ old' = [old EXCEPT ![p] = TRUE]

Login(p) ==
  /\ Polling /\ sess[p].here /\ ~sess[p].login
  /\ sess' = [sess EXCEPT ![p] = LoggedIn(@)]
  /\ UNCHANGED <<loop, queueVars, listVars, fileVars, old, worldVars>>

\* The server answers the command that was sent to it.
Reply(p) ==
  /\ Polling /\ sess[p].here /\ sess[p].cmdq # <<>> /\ ~sess[p].isidle
  /\ LET cmd == Head(sess[p].cmdq) IN
     \E code \in Codes(cmd) :
       /\ bad + Cost(code) <= MaxBad
       /\ IF Closes(cmd, code)
          THEN /\ bad' = bad + Cost(code) /\ LoseSession(p)
               /\ UNCHANGED <<loop, queueVars, listVars, fileVars, alive, remote, wire,
                              nextId, cmds, lost>>
          ELSE
          LET s == Digest(sess[p], cmd, code)
              heard == Heard(code)
          IN  IF items = <<>> /\ FollowsTop(s, cmd.ev, heard)
              THEN Die
              ELSE /\ bad' = bad + Cost(code)
                   /\ sess' = [sess EXCEPT
                                 ![p] = Answered(@, code, More(s, cmd.ev, heard))]
                   /\ items' = IF items = <<>> THEN items
                               ELSE SetTop(TopAfter(cmd.ev, heard))
                   /\ secure' = (secure \/ (heard = "ok" /\ cmd.ev \in
                                   {"PHASE_2_SRC_SECURE", "PHASE_2_DST_SECURE"}))
                   /\ mkd' = MkdAfter(s, cmd.ev, heard)
                   /\ store' = IF Makes(s, cmd.ev, heard) THEN mkd > 1 ELSE store
                   /\ wire' = IF cmd.op = "RETR" /\ code = "ok"
                              THEN [wire EXCEPT !.got = "flow"] ELSE wire
                   /\ remote' = Truncated(s, cmd, code)
                   /\ UNCHANGED <<loop, queueVars, num, errs, done, gone, srcpasv,
                                  old, alive, nextId, cmds, lost>>

\* What the end of a transfer or of a data channel does, by the event that the
\* session remembers for it.  Only the end of a transfer looks whether there
\* still is an item.
Second(id, code) ==
  CASE id = "PHASE_12_SRC_226" ->
         [Top EXCEPT !.sxfer = Bump(@), !.sfail = @ \/ code # "ok"]
    [] id = "PHASE_12_DST_226" ->
         [Top EXCEPT !.dxfer = Bump(@), !.dfail = @ \/ code # "ok"]
    [] id = "DIRECTORY_PHASE_2_SRC_DIRLIST" -> [Top EXCEPT !.sxfer = 1]
    [] id = "DIRECTORY_PHASE_2_DST_DIRLIST" -> [Top EXCEPT !.dxfer = 1]
    [] id = "none" -> Top

SecondFollowsTop(id, code) ==
  id \in {"DIRECTORY_PHASE_2_SRC_DIRLIST", "DIRECTORY_PHASE_2_DST_DIRLIST"}
  \/ (id # "none" /\ code # "ok")

\* The destination was told to receive, and the source will be told to send.
RetrComing ==
  state \in {"FILE_PHASE_10_WAIT", "FILE_PHASE_11_START", "FILE_PHASE_11_WAIT"} /\ ~Failed

\* A server reports the end of a transfer.  The file has arrived or it has
\* not; a source that says 226 has sent all of it, a destination that says 226
\* may have been left with a part.
TransferEnd(p) ==
  /\ Polling /\ sess[p].here /\ sess[p].state = "RELAY_226"
  /\ \E code \in {"ok", "fail"} :
     \E got \in CASE wire.got = "flow" -> {"all", "cut"}
                  [] wire.got = "wait" -> {"cut"}
                  [] OTHER -> {wire.got} :
       LET id   == sess[p].replyId
           cost == IF \/ wire.got = "flow" /\ got = "cut"
                      \/ wire.got = "wait" /\ RetrComing
                      \/ got = "all" /\ code = "fail"
                   THEN 1 ELSE 0
       IN  /\ id = "PHASE_12_SRC_226" /\ code = "ok" => got = "all"
           /\ cost = 1 => <<"226", "fail">> \in Refusals
           /\ bad + cost <= MaxBad
           /\ IF items = <<>> /\ SecondFollowsTop(id, code)
              THEN Die
              ELSE /\ bad' = bad + cost
                   /\ wire' = [wire EXCEPT !.got = got]
                   /\ remote' = IF wire.to # 0 /\ got # wire.got
                                THEN [remote EXCEPT ![wire.to] =
                                        IF got = "all" THEN "full" ELSE "part"]
                                ELSE remote
                   /\ items' = IF items = <<>> THEN items ELSE SetTop(Second(id, code))
                   /\ sess' = [sess EXCEPT ![p] = TransferEnded(@)]
                   /\ UNCHANGED <<loop, queueVars, num, errs, done, gone, fileVars, old,
                                  alive, nextId, cmds, lost>>

\* The server reports the end of a listing.
ListingEnd(p) ==
  /\ Polling /\ sess[p].here /\ sess[p].state = "DATA_FINISH"
  /\ \/ /\ sess' = [sess EXCEPT ![p] = ListEnded(@)]
        /\ UNCHANGED <<old, bad>>
     \/ /\ bad < MaxBad /\ bad' = bad + 1
        /\ LoseSession(p)
  /\ UNCHANGED <<loop, queueVars, listVars, fileVars, alive, remote, wire, nextId,
                 cmds, lost>>

\* The data channel of a listing: nothing is read from it before the reply to
\* LIST; it may end before or after the server reports so.
Listing(p) ==
  /\ Polling /\ sess[p].here /\ sess[p].data
  /\ \A i \in DOMAIN sess[p].cmdq : sess[p].cmdq[i].op # "LIST"

DataLine(p) ==
  /\ Listing(p) /\ ~sess[p].files
  /\ sess' = [sess EXCEPT ![p].files = TRUE]
  /\ UNCHANGED <<loop, queueVars, listVars, fileVars, old, worldVars>>

DataClosed(p) ==
  /\ Listing(p)
  /\ LET id == sess[p].replyId
     IN  IF items = <<>> /\ SecondFollowsTop(id, "fail")
         THEN Die
         ELSE /\ items' = IF items = <<>> THEN items ELSE SetTop(Second(id, "fail"))
              /\ sess' = [sess EXCEPT ![p].data = FALSE]
              /\ UNCHANGED <<loop, queueVars, num, errs, done, gone, fileVars, old,
                             worldVars>>

\* A connection is lost, or its data channel, which costs it too.  A server
\* that was told to QUIT closes its own.
Lost(p) ==
  /\ Polling /\ sess[p].here
  /\ IF sess[p].cmdq # <<>> /\ Head(sess[p].cmdq).op = "QUIT"
     THEN UNCHANGED lost
     ELSE lost < MaxLost /\ lost' = lost + 1
  /\ LoseSession(p)
  /\ UNCHANGED <<loop, queueVars, listVars, fileVars, alive, remote, wire, nextId,
                 cmds, bad>>

SessionEvent(p) ==
  \/ Login(p) \/ Reply(p) \/ TransferEnd(p) \/ ListingEnd(p) \/ DataLine(p)
  \/ DataClosed(p) \/ Lost(p)

-----------------------------------------------------------------------------
(* Commands of the users (engine/command2.c), handled in the poll too.       *)

UserCommand(op) ==
  /\ Polling /\ op \in UserOps
  /\ cmds < MaxCmds /\ cmds' = cmds + 1

\* GO is accepted in every state; REGO is one that finds the queue at work.
Go ==
  /\ UserCommand(IF state = "IDLE" THEN "GO" ELSE "REGO")
  /\ state' = "START"
  /\ UNCHANGED <<loop, stop, src, listVars, fileVars, sess, old, alive, remote, wire,
                 nextId, lost, bad>>

\* STOP, and STOP|HARD, whose session_abor is an empty function.
Stop ==
  /\ UserCommand("STOP")
  /\ stop' = TRUE
  /\ UNCHANGED <<loop, state, src, listVars, fileVars, sess, old, alive, remote, wire,
                 nextId, lost, bad>>

\* STOP|DROP in a transfer closes both sessions, which are not checked for
\* NULL, and runs queue_process once to end in IDLE without stop.
StopDrop ==
  /\ UserCommand("DROP") /\ state = "FILE_PHASE_12_START"
  /\ IF BothHere
     THEN /\ state' = "IDLE"
          /\ sess' = [p \in Side |-> NoSession]
          /\ old' = [p \in Side |-> TRUE]
          /\ stop' = FALSE
          /\ UNCHANGED alive
     ELSE /\ alive' = FALSE
          /\ UNCHANGED <<state, stop, sess, old>>
  /\ UNCHANGED <<loop, src, listVars, fileVars, remote, wire, nextId, lost, bad>>

\* A queue at work keeps its first item first, but for a STOP item, which goes
\* where it was asked to.
Place(t, at) ==
  IF t.type = "STOP" THEN at
  ELSE IF at = Absent THEN Last
  ELSE IF state # "IDLE" /\ Atoi(at) = 0 THEN Nth(1)
  ELSE at

QAdd(t, at) ==
  /\ UserCommand("QADD") /\ nextId <= MaxItems
  /\ items' = Insert(items, NewItem(nextId, t), Place(t, at))
  /\ num' = num + 1
  /\ nextId' = nextId + 1
  /\ UNCHANGED <<loop, queueVars, errs, done, gone, fileVars, sess, old, alive, remote,
                 wire, lost, bad>>

\* Mutant: the item that is being transferred can be deleted.
QDelAnywhere(pos) ==
  /\ UserCommand("QDEL") /\ pos < Len(items)
  /\ items' = RemoveAtPos(items, pos)
  /\ num' = num - 1
  /\ gone' = gone \cup {items[pos + 1].id}
  /\ UNCHANGED <<loop, queueVars, errs, done, fileVars, sess, old, alive, remote, wire,
                 nextId, lost, bad>>

QDel(pos) ==
  /\ UserCommand("QDEL") /\ pos < Len(items)
  /\ state = "IDLE" \/ pos # 0
  /\ items' = RemoveAtPos(items, pos)
  /\ num' = num - 1
  /\ gone' = gone \cup {items[pos + 1].id}
  /\ UNCHANGED <<loop, queueVars, errs, done, fileVars, sess, old, alive, remote, wire,
                 nextId, lost, bad>>

\* Mutant: the item that is being transferred can be moved.
QMoveAnywhere(from, to) ==
  /\ UserCommand("QMOVE") /\ from < Len(items) /\ to # Absent
  /\ items' = Insert(RemoveAtPos(items, from), items[from + 1],
                     IF state # "IDLE" /\ Atoi(to) = 0 THEN Nth(1) ELSE to)
  /\ UNCHANGED <<loop, queueVars, num, errs, done, gone, fileVars, sess, old, alive,
                 remote, wire, nextId, lost, bad>>

QMove(from, to) ==
  /\ UserCommand("QMOVE") /\ from < Len(items) /\ to # Absent
  /\ state = "IDLE" \/ from # 0
  /\ items' = Insert(RemoveAtPos(items, from), items[from + 1],
                     IF state # "IDLE" /\ Atoi(to) = 0 THEN Nth(1) ELSE to)
  /\ UNCHANGED <<loop, queueVars, num, errs, done, gone, fileVars, sess, old, alive,
                 remote, wire, nextId, lost, bad>>

Command2 ==
  \/ Go \/ Stop \/ StopDrop
  \/ \E t \in NewItems, at \in AtChoices : QAdd(t, at)
  \/ \E pos \in 0 .. MaxItems - 1 : QDel(pos) \/ \E to \in AtChoices : QMove(pos, to)

Next == Pass \/ (\E p \in Side : SessionEvent(p)) \/ Command2

Spec == Init /\ [][Next]_vars

\* The main loop keeps polling and running the queue, and servers that are
\* connected answer, finish what they began and accept logins.
Fairness ==
  /\ WF_vars(Pass)
  /\ \A p \in Side :
       /\ WF_vars(Login(p)) /\ WF_vars(Reply(p)) /\ WF_vars(TransferEnd(p))
       /\ WF_vars(ListingEnd(p)) /\ WF_vars(DataClosed(p))

FairSpec == Spec /\ Fairness

-----------------------------------------------------------------------------
(* Properties. *)

Ids(q) == {q[i].id : i \in DOMAIN q}

\* Every variable has its type (queue_t of queue.h, session_t of session.h).
TypeOK ==
  /\ loop \in {"poll", "run"} /\ alive \in BOOLEAN
  /\ state \in State /\ stop \in BOOLEAN /\ src \in Side \cup {"none"}
  /\ items \in Seq(Item) /\ num \in Int
  /\ errs \subseteq ItemId /\ done \subseteq ItemId /\ gone \subseteq ItemId
  /\ secure \in BOOLEAN /\ srcpasv \in BOOLEAN /\ mkd \in 0 .. MaxMkd /\ store \in BOOLEAN
  /\ sess \in [Side -> SessionRec] /\ old \in [Side -> BOOLEAN]
  /\ remote \in [ItemId -> Size]
  /\ wire \in [to: ItemId \cup {0}, got: {"wait", "flow", "all", "cut"}]
  /\ nextId \in 1 .. MaxItems + 1
  /\ cmds \in 0 .. MaxCmds /\ lost \in 0 .. MaxLost /\ bad \in 0 .. MaxBad

\* The states whose code follows queue->items without a check.
Headed ==
  FileState \cup DirectoryState
  \cup {"ITEM_FAILED", "REQUEUE_ITEM", "ERROR_ITEM", "REMOVE_ITEM"}

\* queue_process never follows an empty list: whenever the queue is in a state
\* that works on an item there is one, whatever users delete and move, and the
\* item has an owner for its source (queue->items and queue->src_mgr, queue.c).
HeadPresent ==
  /\ state \in Headed \cup {"ISCONNECTED", "START_NEXT_ITEM", "ACTIVE"} => items # <<>>
  /\ state \in FileState \cup DirectoryState => src # "none"

\* num_items, which START, ACTIVE and the search for lost sessions rely on, is
\* the length of the list, through insertions, moves, retries and expansions.
CountsAgree == num = Len(items)

\* No item is lost and none is in two places, through insertions, moves, retries,
\* expansions and deletions: the queue keeps the ledger of Ledger.tla, with
\* queue->items and queue->err_items for its accounts.
L == INSTANCE Ledger WITH
       Item <- ItemId, queued <- Ids(items), count <- Len(items), failed <- errs,
       finished <- done, deleted <- gone
KeepsLedger == L!Spec

\* An item is tried at most twice: only the one that is about to join the
\* error list carries two soft errors (queue.c:2497-2506).
AtMostTwice ==
  \A i \in DOMAIN items :
    items[i].soft = 2 => i = 1 /\ state = "ERROR_ITEM"

\* A file leaves the queue as done, after a transfer or as EQUALSIZE, only when
\* all of it is at the destination.
DoneIsComplete ==
  state = "REMOVE_ITEM" /\ Top.type = "FILE" => remote[Top.id] = "full"

\* The states of a transfer that was started.
Transferring == {"FILE_PHASE_11_START", "FILE_PHASE_11_WAIT", "FILE_PHASE_12_START"}

\* A transfer between sites of which one demands secure data is secure
\* ("If that is demanded we will FAIL the file", queue.c:1409-1410).
SecureIfDemanded ==
  state \in Transferring /\ (Demands(SrcSite) \/ Demands(DstSite)) => secure

\* A secure transfer finds both sides at privacy level P.
PrivacyAgrees ==
  state \in Transferring /\ secure /\ BothHere
    => \A p \in Side : sess[p].prot

\* Both sides of a transfer start at the same offset, which is the item's.
RestartAgrees ==
  state \in Transferring /\ BothHere
    => \A p \in Side : ("REST" \in sess[p].status) = Top.rest

\* STOR is only sent in the directory of the item ("Change to the correct
\* directory.", queue.c:1165).
StorInPlace == state \in Transferring => wire.to = Top.id

\* The item that is being transferred stays the first of the queue ("Stop them
\* from inserting at pos = 0 if we are active.", command2.c:1228).
HeadStable ==
  [][(state \in FileState /\ state' \in FileState) => (Head(items').id = Top.id)]_vars

\* A queue at work keeps an order to stop until it is idle ("Allow current
\* transfer to finish, then stop.", queue.c:860).
StopKept == [][loop = "run" /\ stop /\ ~stop' => state' = "IDLE"]_vars

\* What a session has been asked is still what the queue waits for: with an
\* item's command in flight the queue is in the phase that sent it.
Awaited(ev) ==
  CASE ev \in {"PHASE_1_SRC_CWD", "PHASE_1_DST_CWD", "PHASE_1_DST_MKD", "PHASE_1_DST_CWD2"}
         -> {"FILE_PHASE_1_IDLE"}
    [] ev \in {"PHASE_2_SRC_SECURE", "PHASE_2_DST_SECURE"} -> {"FILE_PHASE_2_WAIT"}
    [] ev \in {"PHASE_7_PASV"} -> {"FILE_PHASE_7_WAIT"}
    [] ev \in {"PHASE_8_PORT"} -> {"FILE_PHASE_8_WAIT"}
    [] ev \in {"PHASE_9_SRC_REST", "PHASE_9_DST_REST"} -> {"FILE_PHASE_9_REST"}
    [] ev = "PHASE_10_STOR" -> {"FILE_PHASE_10_WAIT"}
    [] ev = "PHASE_11_RETR" -> {"FILE_PHASE_11_WAIT"}
    [] ev \in {"DIRECTORY_PHASE_1_SRC_CWD", "DIRECTORY_PHASE_1_DST_CWD"}
         -> {"DIRECTORY_PHASE_1_IDLE"}
    [] ev = "DIRECTORY_PHASE_2_DST_MKD" -> {"DIRECTORY_PHASE_2_COMPARE"}
    [] OTHER -> State

\* A reply is never taken for another item than the one whose command it
\* answers (handler_queue always charges queue->items).
AnswersAwaited ==
  \A p \in Side : \A i \in DOMAIN sess[p].cmdq : state \in Awaited(sess[p].cmdq[i].ev)

\* A session that is ready to send has sent what it was given ("once it cleared,
\* isidle means we will finally send the next command", session.c:500-501).
NothingUnsent ==
  \A p \in Side :
    sess[p].here /\ sess[p].isidle /\ ~ForceBusy(sess[p]) => sess[p].cmdq = <<>>

\* A queue that was started comes to rest.
ComesToRest == state = "START" ~> state = "IDLE"

\* A queue that was told to stop does ("Stop initiated, please wait..",
\* queue.c:882).
StopCompletes == stop ~> ~stop

=============================================================================
