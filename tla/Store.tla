--------------------------------- MODULE Store ---------------------------------
(***************************************************************************)
(* What the engine keeps on disk: its start (main, arguments and           *)
(* engine_workdir of engine/engine.c), the settings (engine/settings.c),   *)
(* the users (engine/users.c), the sites (engine/sites.c) and the commands *)
(* of the API that change them (engine/command2.c).                        *)
(*                                                                         *)
(* A file is read and written a line at a time while the engine goes on,   *)
(* by the network library; opening it for writing empties it at once.  The *)
(* engine may die at any moment and be started again.  That the files are  *)
(* encrypted is left out.                                                  *)
(***************************************************************************)
EXTENDS Naturals, Sequences, FiniteSets, FiniteSetsExt

CONSTANTS
  User, Admin,  \* names of users, and the one that is created
  Key,          \* extra fields of a site, which the engine does not know
  Given,        \* what a SITEADD or a SITEMOD may say of them
  MaxSites,     \* bound: sites ever added
  MaxCmds,      \* bound: commands of the API
  MaxStarts,    \* bound: starts of the engine
  MaxOdd        \* bound: oddities, before a start; before a command one less

NoKey == "NULL"       \* a field that was deleted
Blank == "BLANK"      \* the string that is empty
Val == {Blank, "x"}   \* what a field may be set to

ASSUME StoreAssumption ==
  /\ Admin \in User /\ IsFiniteSet(User) /\ IsFiniteSet(Key) /\ NoKey \notin Key
  /\ \A given \in Given : DOMAIN given \subseteq Key /\ \A k \in DOMAIN given : given[k] \in Val
  /\ MaxSites \in Nat \ {0} /\ MaxCmds \in Nat /\ MaxStarts \in Nat
  /\ MaxOdd \in Nat

Dir == {"cwd", "home"}
Table == {"users", "sites"}

\* Whether the option -D is given, and there is a certificate in the home.
Arguments == [cwd: BOOLEAN, cert: BOOLEAN]

\* A user and its password; a line MUTE ends the file of users.
Login == User \X {"old", "new"}
Mute == <<"MUTE", Blank>>

\* A site: name is NULL once it has been deleted; keys[i] may be NULL too.
Slot == [key: Key \cup {NoKey}, value: Val]
Site == [tag: 1 .. MaxSites, named: BOOLEAN, extra: Seq(Slot)]

Missing == [there |-> FALSE, lines |-> <<>>]
Empty == [there |-> TRUE, lines |-> <<>>]

\* What is left where a file was emptied under a writer that goes on.
Hole == [users |-> <<Blank, Blank>>, sites |-> [tag |-> 0, extra |-> <<>>]]

VARIABLES
  pc,         \* "down", "settings" while they are read, "wait" for the tables when
              \* all is to be saved, "up" in the main loop
  args,       \* how the engine is started
  home,       \* whether the default directory exists
  where,      \* the current directory
  saveAll,    \* save_allconf
  port,       \* where command_port comes from
  conf,       \* what a settings file says of the port, per directory
  disk,       \* the lines of each table's file, per directory
  users, sites,  \* users_head and sites_head
  handle,     \* whether users_file and sites_file are set
  reader,     \* per table: the directory and the next line, or at = 0
  writers,    \* files closed and still to be written: table, directory, position, lines
  mute, warned,  \* users_mute_warning; whether the warning was printed
  cmds, starts,  \* what is left of the bounds
  wanted, passes,  \* what users were told: the sites there are, the passwords
  odd         \* what the tables are not prepared for

vars == <<pc, args, home, where, saveAll, port, conf, disk, users, sites, handle, reader,
          writers, mute, warned, cmds, starts, wanted, passes, odd>>
started == <<args, home, starts>>
memory == <<users, sites, mute, warned>>
files == <<disk, handle, reader, writers>>
told == <<cmds, wanted, passes, odd>>

NotReading == [dir |-> "cwd", at |-> 0]
Absent == [f \in Table |-> Missing]

\* The old files, in the directory that the engine used to be started in.
AllUsers ==
  CHOOSE us \in [1 .. Cardinality(User) -> User] :
    \A i, j \in DOMAIN us : us[i] = us[j] => i = j
Old ==
  [users |-> [there |-> TRUE,
              lines |-> Append([i \in DOMAIN AllUsers |-> <<AllUsers[i], "old">>], Mute)],
   sites |-> [there |-> TRUE,
              lines |-> <<[tag |-> 1, extra |-> <<>>]>>]]

\* A first start, or that of one who used to start the engine elsewhere.
Init ==
  /\ pc = "down" /\ args \in Arguments /\ home = FALSE /\ where = "cwd"
  /\ saveAll = FALSE /\ port = "default"
  /\ disk \in {[d \in Dir |-> IF d = "cwd" THEN old ELSE Absent] : old \in {Old, Absent}}
  /\ conf = [d \in Dir |-> IF disk[d] = Absent THEN "none" ELSE "file"]
  /\ users = <<>> /\ sites = <<>> /\ handle = [f \in Table |-> FALSE]
  /\ reader = [f \in Table |-> NotReading] /\ writers = <<>>
  /\ mute = FALSE /\ warned = FALSE /\ cmds = 0 /\ starts = 0
  /\ wanted = IF disk["cwd"] = Old THEN {1} ELSE {}
  /\ passes = [u \in IF disk["cwd"] = Old THEN User ELSE {Admin} |-> "old"]
  /\ odd = {}

-----------------------------------------------------------------------------
(* Saving a table: users_save and sites_save. *)

Reading(f) == reader[f].at # 0
Writing(f, dir) == \E i \in DOMAIN writers : writers[i].table = f /\ writers[i].dir = dir

\* The nth of some positions, and what a list has at them.
Nth(is, n) == CHOOSE i \in is : Cardinality({j \in is : j < i}) = n - 1
Kept(t, is) == [n \in 1 .. Cardinality(is) |-> t[Nth(is, n)]]

UserLines(t) == Append(t, Mute)
SiteLines(t) ==
  LET here == Kept(t, {i \in DOMAIN t : t[i].named})
  IN  [n \in DOMAIN here |->
         [tag |-> here[n].tag,
          extra |-> Kept(here[n].extra,
                         {i \in DOMAIN here[n].extra : here[n].extra[i].key # NoKey})]]

Opened(f, dir, lines) == [table |-> f, dir |-> dir, at |-> 1, lines |-> lines]

\* Mutant: the file is written over as it is.
SaveOver(f, dir, lines) ==
  /\ writers' = Append(writers, Opened(f, dir, lines))
  /\ handle' = [handle EXCEPT ![f] = TRUE]
  /\ disk' = [disk EXCEPT ![dir][f].there = TRUE]

Save(f, dir, lines) ==
  /\ writers' = Append(writers, Opened(f, dir, lines))
  /\ handle' = [handle EXCEPT ![f] = TRUE]
  /\ disk' = [disk EXCEPT ![dir][f] = Empty]

\* A save is early when the file has not been read to its end, and overlaps with
\* one that has not been written to its end.
Oddity(f) ==
  odd' = odd \cup (IF Reading(f) THEN {"early"} ELSE {})
             \cup (IF Writing(f, where) THEN {"overlap"} ELSE {})

-----------------------------------------------------------------------------
(* sites_parsekeys, for the fields that it does not know. *)

Position(s, k) == {i \in DOMAIN s : s[i].key = k}
FirstOf(is) == CHOOSE i \in is : \A j \in is : i <= j

\* Mutant: the search ends at the first slot that is empty.
PutHasty(s, k, v) ==
  LET slot == [key |-> k, value |-> v]
      empty == Position(s, NoKey)
  IN  IF empty # {} THEN [s EXCEPT ![FirstOf(empty)] = slot]
      ELSE IF Position(s, k) # {} THEN [s EXCEPT ![FirstOf(Position(s, k))] = slot]
      ELSE Append(s, slot)

\* A key that is there gets the value; another takes an empty slot, or a new one.
Put(s, k, v) ==
  LET slot == [key |-> k, value |-> v]
      there == Position(s, k)
      empty == Position(s, NoKey)
  IN  IF there # {} THEN [s EXCEPT ![FirstOf(there)] = slot]
      ELSE IF empty # {} THEN [s EXCEPT ![FirstOf(empty)] = slot]
      ELSE Append(s, slot)

\* A key without a value is deleted, unless the site has never had one.
Drop(s, k) == IF Position(s, k) = {} THEN s ELSE [s EXCEPT ![FirstOf(Position(s, k))].key = NoKey]

\* given is what the command says: keys and the values they are to have.
ParseKeys(s, given) ==
  LET gone == IF s = <<>> THEN {} ELSE {k \in DOMAIN given : given[k] = Blank}
      kept == FoldSet(LAMBDA k, t : Drop(t, k), s, gone)
  IN  FoldSet(LAMBDA k, t : Put(t, k, given[k]), kept, DOMAIN given \ gone)

-----------------------------------------------------------------------------
(* The start. *)

\* arguments, engine_workdir and settings_init, which forgets what the arguments
\* have set.  A new home without a certificate ends it; without old files it is
\* moved to, whatever the arguments say.
Start ==
  /\ pc = "down" /\ starts < MaxStarts /\ Cardinality(odd) <= MaxOdd
  /\ starts' = starts + 1 /\ home' = TRUE
  /\ LET old == ~home /\ disk["cwd"]["sites"].there
         dir == IF old \/ (home /\ args.cwd) THEN "cwd" ELSE "home"
     IN  /\ where' = dir /\ saveAll' = old
         /\ odd' = odd \cup (IF args.cwd /\ dir = "home" THEN {"moved"} ELSE {})
         /\ IF ~home /\ ~old /\ ~args.cert
            THEN pc' = "down" /\ UNCHANGED conf
            ELSE /\ pc' = "settings"
                 /\ conf' = [conf EXCEPT ![dir] = IF @ = "none" THEN "default" ELSE @]
  /\ port' = "default"
  /\ UNCHANGED <<args, memory, files, cmds, wanted, passes>>

\* The settings have been read.  arguments() is called again, but getopt has come to
\* its end and finds none.  Then users_init, which creates the first user,
\* sites_init and command_init.
SettingsRead ==
  /\ pc = "settings"
  /\ pc' = IF saveAll THEN "wait" ELSE "up"
  /\ port' = conf[where]
  /\ sites' = <<>> /\ mute' = ~disk[where]["users"].there
  /\ IF ~disk[where]["users"].there
     THEN /\ users' = <<<<Admin, "old">>>>
          /\ disk' = [disk EXCEPT ![where]["users"] = Empty]
          /\ writers' = <<Opened("users", where, UserLines(users'))>>
     ELSE users' = <<>> /\ UNCHANGED <<disk, writers>>
  /\ reader' = [f \in Table |->
       IF disk[where][f].there THEN [dir |-> where, at |-> 1] ELSE NotReading]
  /\ handle' = [f \in Table |-> f = "users" \/ disk[where][f].there]
  /\ UNCHANGED <<started, where, saveAll, conf, warned, told>>

\* Mutant: only the sites are waited for.
SaveAllHasty ==
  /\ pc = "wait" /\ ~handle["sites"]
  /\ LET dir == IF args.cwd THEN "cwd" ELSE "home"
     IN  /\ where' = dir
         /\ conf' = [conf EXCEPT ![dir] = port]
         /\ disk' = [disk EXCEPT ![dir] = [f \in Table |-> Empty]]
         /\ writers' = writers \o <<Opened("users", dir, UserLines(users)),
                                    Opened("sites", dir, SiteLines(sites))>>
  /\ handle' = [f \in Table |-> TRUE]
  /\ mute' = TRUE /\ saveAll' = FALSE /\ pc' = "up"
  /\ UNCHANGED <<started, port, users, sites, reader, warned, told>>

\* Once both tables have been read all is saved again, in the home.
SaveAll ==
  /\ pc = "wait" /\ \A f \in Table : ~handle[f]
  /\ LET dir == IF args.cwd THEN "cwd" ELSE "home"
     IN  /\ where' = dir
         /\ conf' = [conf EXCEPT ![dir] = port]
         /\ disk' = [disk EXCEPT ![dir] = [f \in Table |-> Empty]]
         /\ writers' = writers \o <<Opened("users", dir, UserLines(users)),
                                    Opened("sites", dir, SiteLines(sites))>>
  /\ handle' = [f \in Table |-> TRUE]
  /\ mute' = TRUE /\ saveAll' = FALSE /\ pc' = "up"
  /\ UNCHANGED <<started, port, users, sites, reader, warned, told>>

\* The engine dies, or is shut down, with what has not been written.
Stop ==
  /\ pc # "down"
  /\ pc' = "down" /\ saveAll' = FALSE
  /\ odd' = odd \cup (IF writers # <<>> THEN {"torn"} ELSE {})
                \cup (IF saveAll THEN {"halfway"} ELSE {})
  /\ users' = <<>> /\ sites' = <<>> /\ mute' = FALSE /\ warned' = FALSE
  /\ handle' = [f \in Table |-> FALSE]
  /\ reader' = [f \in Table |-> NotReading] /\ writers' = <<>>
  /\ UNCHANGED <<started, where, port, conf, disk, cmds, wanted, passes>>

-----------------------------------------------------------------------------
(* The files. *)

Runs == pc \in {"wait", "up"}

\* A line is read: users_add and sites_cmd_site put it in front of the others.
ReadLine(f) ==
  /\ Runs /\ Reading(f)
  /\ LET lines == disk[reader[f].dir][f].lines
         line == lines[reader[f].at]
     IN  /\ reader[f].at <= Len(lines)
         /\ CASE line = Hole[f] -> UNCHANGED <<users, sites, mute>>
              [] f = "users" /\ line = Mute -> mute' = TRUE /\ UNCHANGED <<users, sites>>
              [] f = "users" /\ line \in Login -> users' = <<line>> \o users /\ UNCHANGED <<mute, sites>>
              [] f = "sites" /\ line # Hole[f] ->
                   /\ sites' = <<[tag |-> line.tag, named |-> TRUE, extra |-> line.extra]>> \o sites
                   /\ UNCHANGED <<mute, users>>
  /\ reader' = [reader EXCEPT ![f].at = @ + 1]
  /\ UNCHANGED <<pc, started, where, saveAll, port, conf, disk, handle, writers, warned, told>>

\* Mutant: nobody is warned.
FileClosedMute(f) ==
  /\ handle' = [handle EXCEPT ![f] = FALSE]
  /\ UNCHANGED warned

\* LION_FILE_CLOSED, whichever of a table's handles it is of.
FileClosed(f) ==
  /\ handle' = [handle EXCEPT ![f] = FALSE]
  /\ warned' = (warned \/ (f = "users" /\ ~mute))

ReadEnd(f) ==
  /\ Runs /\ Reading(f) /\ reader[f].at > Len(disk[reader[f].dir][f].lines)
  /\ reader' = [reader EXCEPT ![f] = NotReading]
  /\ FileClosed(f)
  /\ UNCHANGED <<pc, started, where, saveAll, port, conf, disk, writers, users, sites, mute, told>>

\* A writer writes its next line where it has come to.
WriteLine(i) ==
  /\ Runs /\ i \in DOMAIN writers
  /\ LET w == writers[i]
     IN  /\ w.lines # <<>>
         /\ disk' = [disk EXCEPT ![w.dir][w.table].lines =
              [n \in 1 .. (IF w.at > Len(@) THEN w.at ELSE Len(@)) |->
                 IF n = w.at THEN Head(w.lines) ELSE IF n <= Len(@) THEN @[n] ELSE Hole[w.table]]]
  /\ writers' = [writers EXCEPT ![i].at = @ + 1, ![i].lines = Tail(@)]
  /\ UNCHANGED <<pc, started, where, saveAll, port, conf, memory, handle, reader, told>>

WriteEnd(i) ==
  /\ Runs /\ i \in DOMAIN writers /\ writers[i].lines = <<>>
  /\ writers' = [j \in 1 .. Len(writers) - 1 |-> writers[IF j < i THEN j ELSE j + 1]]
  /\ FileClosed(writers[i].table)
  /\ UNCHANGED <<pc, started, where, saveAll, port, conf, disk, reader, users, sites, mute, told>>

-----------------------------------------------------------------------------
(* The API. *)

\* AUTH lets in any of the users that have been read so far.
Auth(u) == \E i \in DOMAIN users : users[i][1] = u

Asks ==
  /\ Runs /\ (\E u \in User : Auth(u)) /\ Cardinality(odd) < MaxOdd
  /\ cmds < MaxCmds /\ cmds' = cmds + 1

\* SETPASS with the right password: the first user of that name.
SetPass(u) ==
  /\ Asks /\ Auth(u)
  /\ LET i == FirstOf({j \in DOMAIN users : users[j][1] = u})
         new == IF users[i][2] = "old" THEN "new" ELSE "old"
     IN  /\ users' = [users EXCEPT ![i][2] = new]
         /\ passes' = [passes EXCEPT ![u] = new]
  /\ mute' = TRUE
  /\ Oddity("users")
  /\ Save("users", where, UserLines(users'))
  /\ UNCHANGED <<pc, started, where, saveAll, port, conf, sites, warned, reader, wanted>>

Fresh == {t \in 1 .. MaxSites : t \notin wanted /\ \A i \in DOMAIN sites : sites[i].tag # t}

SiteAdd(given) ==
  /\ Asks
  /\ \E t \in Fresh :
       /\ \A u \in Fresh : t <= u
       /\ sites' = <<[tag |-> t, named |-> TRUE, extra |-> ParseKeys(<<>>, given)]>> \o sites
       /\ wanted' = wanted \cup {t}
  /\ Oddity("sites")
  /\ Save("sites", where, SiteLines(sites'))
  /\ UNCHANGED <<pc, started, where, saveAll, port, conf, users, mute, warned, reader, passes>>

\* SITEMOD of any site, one that was deleted too, which a NAME brings back.
SiteMod(i, given, name) ==
  /\ Asks /\ i \in DOMAIN sites
  /\ sites' = [sites EXCEPT ![i].extra = ParseKeys(@, given), ![i].named = @ \/ name]
  /\ wanted' = IF sites'[i].named THEN wanted \cup {sites[i].tag} ELSE wanted
  /\ Oddity("sites")
  /\ Save("sites", where, SiteLines(sites'))
  /\ UNCHANGED <<pc, started, where, saveAll, port, conf, users, mute, warned, reader, passes>>

\* A deleted site stays in the table, for sessions that use it, without its name.
SiteDel(i) ==
  /\ Asks /\ i \in DOMAIN sites
  /\ sites' = [sites EXCEPT ![i].named = FALSE]
  /\ wanted' = wanted \ {sites[i].tag}
  /\ Oddity("sites")
  /\ Save("sites", where, SiteLines(sites'))
  /\ UNCHANGED <<pc, started, where, saveAll, port, conf, users, mute, warned, reader, passes>>

-----------------------------------------------------------------------------

Engine == Start \/ SettingsRead \/ SaveAll \/ Stop
Files ==
  \/ \E f \in Table : ReadLine(f) \/ ReadEnd(f)
  \/ \E i \in DOMAIN writers : WriteLine(i) \/ WriteEnd(i)
Api ==
  \/ \E u \in User : SetPass(u)
  \/ \E given \in Given :
       \/ SiteAdd(given)
       \/ \E i \in DOMAIN sites, name \in BOOLEAN : SiteMod(i, given, name)
  \/ \E i \in DOMAIN sites : SiteDel(i)

Next == Engine \/ Files \/ Api

Spec == Init /\ [][Next]_vars

-----------------------------------------------------------------------------
(* Properties. *)

\* Every variable keeps its type.
TypeOK ==
  /\ pc \in {"down", "settings", "wait", "up"} /\ args \in Arguments
  /\ home \in BOOLEAN /\ where \in Dir /\ saveAll \in BOOLEAN
  /\ port \in {"default", "file"} /\ conf \in [Dir -> {"none", "default", "file"}]
  /\ \A i \in DOMAIN users : users[i] \in Login
  /\ \A i \in DOMAIN sites : sites[i] \in Site
  /\ handle \in [Table -> BOOLEAN] /\ mute \in BOOLEAN /\ warned \in BOOLEAN
  /\ cmds \in 0 .. MaxCmds /\ starts \in 0 .. MaxStarts
  /\ wanted \subseteq 1 .. MaxSites /\ odd \subseteq {"early", "overlap", "torn", "halfway", "moved"}

Tags(t) == {t[i].tag : i \in DOMAIN t}
Passes(t) == {t[i] : i \in DOMAIN t}

\* When a table has been read it holds what users were told is in it: every site
\* that was added and not deleted and every user with the last password, across
\* stops and starts and the move to the home.
NothingForgotten ==
  /\ TypeOK
  /\ pc = "up" /\ odd = {} =>
       /\ ~Reading("sites") => Tags(SiteLines(sites)) = wanted
       /\ ~Reading("users") => Passes(users) = {<<u, passes[u]>> : u \in DOMAIN passes}

\* When nothing is left to be written, so do the files: the end of a longer file
\* never stays behind a shorter one.
DiskAgrees ==
  pc = "up" /\ odd = {} /\ writers = <<>> =>
    /\ (wanted # {} => disk[where]["sites"].there)
    /\ (disk[where]["sites"].there =>
          /\ Tags(disk[where]["sites"].lines) = wanted
          /\ Len(disk[where]["sites"].lines) = Cardinality(wanted))
    /\ Passes(disk[where]["users"].lines) = {<<u, passes[u]>> : u \in DOMAIN passes} \cup {Mute}

\* If users are missing because the engine died while it wrote them, it says so
\* when it is started again.
WarnedOfLoss ==
  pc = "up" /\ ~Reading("users") /\ odd \subseteq {"torn", "moved"} /\ starts = 2
    /\ (\E u \in DOMAIN passes : \A i \in DOMAIN users : users[i][1] # u)
    => warned

\* The fields that are not known are a map: none is ever there twice, and a SITEMOD
\* sets, changes and deletes what it says and leaves the rest.
Value(s, k) == IF Position(s, k) = {} THEN "none" ELSE s[FirstOf(Position(s, k))].value
Changes == UNION {[ks -> Val] : ks \in SUBSET Key}
ExtraIsMap ==
  \A s \in {sites[i].extra : i \in DOMAIN sites} : \A given \in Changes :
    LET after == ParseKeys(s, given)
    IN  \A k \in Key :
          /\ Cardinality(Position(after, k)) <= 1
          /\ s # <<>> => Value(after, k) =
               IF k \notin DOMAIN given THEN Value(s, k)
               ELSE IF given[k] = Blank THEN "none" ELSE given[k]

=============================================================================
