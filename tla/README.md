# FXP.One engine: TLA+ models and proofs

FXP.One moves files between two FTP servers (FXP): the engine holds a control
connection to each, tells one to listen and the other to connect, and never
sees the data. Users talk to the engine over a line-based API: they open
sessions, pair two of them in a queue, fill the queue with items and say GO.
This directory models the engine and checks the models with TLC on small
instances. With TLAPS it proves for every instance that the queue keeps its
promise about items, that a transfer only starts as it was settled, that owners,
sessions and queues agree, that a password and a browser's commands only travel
over secure connections, and more (section 4).

Paths below are relative to `src/engine/` unless they say otherwise.

## 1. Inventory

The engine is one thread. Its main loop (`engine.c:315-328`) polls the sockets,
whose events call handlers; calls `queue_run` until a call leaves
`engine_nodelay` unset; then calls `manager_cleanup`. There are no locks: what
is concurrent is two FTP servers, their data connections, the users, the files
that are read and written a line at a time, and the process that serves the
local disk.

| Component | State it keeps | Operations | Talks to | Hard behaviour | Correct when |
|---|---|---|---|---|---|
| Queue processor, `queue.c` | `queue_t`: state (38 of them), stop, src/dst manager, items, num_items, err_items, secure_data, srcpasv, mkd_depth; a static buffer for the directory being created; subscribers | `queue_process`, one `switch` case per call; GO, STOP; insert, delete, move, expand, requeue, grab | sends commands through `session.c`; reads what the handler wrote | every phase waits for *both* sessions; failure and retry; a user edits the list meanwhile; a session is lost | no item lost, the count agrees, the head is there, a done file is whole, two tries at most, comes to rest |
| Event handlers, `handler.c` | RNFR_OK of a manager | one case per event, one handler for queues, one for users | called by sessions, writes the first item, tells users | replies are charged to whatever item is first now | replies meet the phase that asked; a command is answered once |
| Session, `session.c` | command queue, isidle, forcebusy, state, STATUS flags, pwd, saved_cwd, files_reply_id, listing | the login; one command in flight; commands skipped when the flag says so; two-reply commands (RETR, STOR, LIST) | `lion`, its handler, `data.c` | isidle and forcebusy gate the same queue; cached flags and directories; fall-backs of TLS | no password in plain where it must not be; no command unsent in an idle session; flags follow the server |
| Listing data channel, `data.c` | data_handle, files | connect, line, close, lost | session and handler | races the control connection | a listing ends once |
| Managers, `manager.c` | site, session, old_session, owner (user or queue) | new, release, cleanup, find | users, queues | deferred freeing; owner gone | a session has one owner, nothing freed is used |
| API commands, `command2.c` | one node per connection | about 40 commands | all of the above | commands in any order at any time | a user only uses what it owns |
| Authentication, `command.c`, `users.c` | per-connection stage; user table and file | HELLO, SSL, AUTH, SETPASS | settings | order of stages; file written while used | a user that left is forgotten, a password is kept |
| Site table, `sites.c` | list of sites, file | SITEADD, SITEMOD, SITEDEL, load, save | managers read it | saves that overlap loads; crash | the file is the table |
| Settings, start-up, `settings.c`, `engine.c` | options, the working directory | read, write, move to the home | users, sites | a move that is cut short | nothing told is forgotten |
| Local FTP server, `local.c` | a process: command, data socket, restart point, file | an FTP server over a pipe | session | data socket, file and command race | 226 is said of what was transferred, every transfer is answered |
| HTTP/WebSocket, `http.c` | parser, relay, file per browser | GET, upgrade, frames | `command.c` | three handles that end in any order | nothing freed is used, nothing in plain, in order |
| Entries, API parser, debug | | formatting and parsing | | | |
| Clients, `src/clients/*` | user interfaces | | the API | | |

`PROJECT.json` lists every component with its status, and under `hazards` each
place where this code can go wrong in a way that a test would hardly reach.

## 2. Modules

| Module | Models | Kind |
|---|---|---|
| `Session` | a control connection after its login, as a record and operators on it: `session.c`, the option fields of `sites.h` | no variables, used by `Queue` |
| `QueueList` | where `queue_insert`, `queue_move`, `queue_del` and the expansion of a directory put an item | operators on sequences |
| `Queue` | one queue, its two managers and sessions, its handler, the users and servers around it | state machine |
| `Ledger` | what a queue promises about its items | abstract specification, implemented by `Queue` |
| `Api` | connections, ownership of sessions and queues, subscriptions, `manager_cleanup` | state machine |
| `Commands` | one user and one session: commands on files, listings, FIDs, and their answers | state machine |
| `Login` | a session from connect to FEAT, its TLS and fall-backs | state machine |
| `Local` | the transfers of the local FTP server and of the session that drives it | state machine |
| `Store` | start-up, settings, the tables of users and sites and their files, stops and crashes | state machine |
| `Http` | a browser's connection, its file and its relay to the command port | state machine |
| `MCQueue`, `MCApi`, `MCCommands`, `MCLogin`, `MCLocal`, `MCStore`, `MCHttp` | the constants of the TLC runs | TLC only |
| `QueueProofs`, `PhaseProofs`, `CommandsProofs`, `ApiProofs`, `LoginProofs`, `LocalProofs`, `StoreProofs`, `HttpProofs` | see section 4 | proofs |

Composition: `Queue` extends `Session` and `QueueList` and instantiates `Ledger`.
`Api` sees a queue from outside (which kind of state it is in) and a session from
outside (asked for, up, how many answers are due); `Queue` and `Commands` have
the inside of each. The modules of the front ends share no state with them but
the command port, which `Http` models as a client that has yet to log in.

### How `Queue` corresponds to the code

*One call of `queue_process` is one action* (`Pass`), named for the `case` it
runs; a case that tests `session_isidle` of both sides has `BothIdle` as a
guard and `Waiting` is the call that finds it false. `Effective` is the test at
the top of `queue_process` that turns a lost session into `QUEUE_ITEM_FAILED`.
`Again` is a call that set `engine_nodelay`: another call follows before the
next poll (`loop = "run"`). `Sleep` is one that did not, after which
`manager_cleanup` runs: a manager with an `old_session` loses its session.

*The poll's events* are actions that need `loop = "poll"`: a login, a reply
(`session_cmdq_reply`, the session's state and `handler_queue` in one action,
because they are one call), the end of a transfer or a listing, the data
channel, a loss, and the commands of users. A user edit therefore interleaves
with the queue exactly where it can in the program: between two polls.

*Sessions.* `Restart` is `session_cmdq_restart`, `CmdqNew` appends and restarts,
`SetFlag` skips a command whose flag is already as wanted, as the code does.
`forcebusy` is "the state is RELAY_226 or DATA_FINISH". `cwd` is where the
server really is; `pwd` and `saved` are what the session believes, as `status` is of
PROT and `prot` what the server keeps. A reply `"near"` is a 2xx other than the one
asked for: the server has done what it was told (`Obeys`), the handler hears success
(`Heard`), the session does not (`Noted`).

*Items* keep type, direction, directory, flags, soft errors, the two failure
counters (as zero or not) and the two transfer counters (up to 3; the code
compares with 0 and 2). File sizes are four values that the comparisons of
phase 5 tell apart. A name, a path and a reason are not kept: a directory is a
member of `Dirs`, its missing parent is `Parent`.

*NULL pointers.* Where the code follows a pointer that may be NULL
(`queue->items` in the handler, a manager's session in STOP|DROP) the model sets
`alive` to FALSE and stops. `Api` says `engine = "crash"`.

*Servers.* A server answers the command in flight with the code that the engine
asks for or with a refusal from `Refusals`. `remote` and `wire` are what the
destination holds of each file and how the running transfer went; a source that
reports 226 has sent everything, a destination that does may hold a part. What the
first item takes from an answer (`TopAfter`) is charged to the item that is first when
the answer comes, the answer to a SIZE that was asked for another included, as in
`handler.c:596-611`.

*Directories.* Those of items are absolute, as the guard of `session.c:2057` wants
before it answers a CWD from the cache. `Root`, where a session starts ("./",
`session.c:200`), is none of them. PWD is not refused here: it only follows a CWD to an
absolute path, which `session.c:2259` then takes for `pwd`, and so does an answer;
`Commands` has the relative ones.

Simplifications: the login is one step (`Login` has it); no user is subscribed
to the queue, so the handler's QC and QS texts, which follow the same pointers,
are not written; there is one queue.

### `Ledger` and the refinement

`Ledger` keeps four accounts of items, `queued`, `failed`, `finished` and
`deleted`, and the length of the list. An item is added once, and from the list it
moves to one of the others for good; a directory makes room for its entries in
the same step. `Queue` maps `queued` to the ids in `queue->items`, `count` to the
length of that list, `failed` to `err_items`; moving and requeueing are
stutters. `KeepsLedger == L!Spec` is checked by TLC in the run `directories` and
proved in `QueueProofs` (`LedgerKept`).

### How the other modules correspond to the code

`Api`. A command of `command2.c` is one action, `UserStep`; it needs `turn =
"poll"`. `SessionStep` is an event of a session; `RunStep` is a call of
`queue_process`, seen as START, ISCONNECTED, START_NEXT_ITEM, any of the phases
(`QueueWorks`, which gives both sessions a command) or the end (`QueueLeaves`).
`Cleanup` is `manager_cleanup`, which returns after it has freed one manager, so
others wait for the next turn. A manager is a record with the owner, the queue,
`old` for `old_session`, what the owner was last told, and the session:
whether it is up, its handler, and how many answers are due. Ids are given in
order and never twice, as by the counters of the code.

`Commands`. `s` has the queue of commands, `busy` for forcebusy, `pwd`, `saved`,
the files of the last listing, `files_reply_id`. A command carries the path that
it is sent with and the path that the user meant. The server has two
directories: the top lists the other or nothing, the other lists a file whose name
decoding changes or nothing. Lines come, data connections close and the control
connection replies in any order. A path is relative if its first name is "."; `Here` is
the "./" of a new session, while the server begins in either directory, and `Resolve` is
what the server takes a path for. Only an absolute path is answered from the cache
(`IsIn`). CWD is answered with 250, with another 2xx (`"near"`: the server has moved, the
session forgets where to) or refused; a PWD refused after a relative CWD leaves the
session with the relative path.

`Login`. `s.state` is the state of `session_states.h`; replies are tagged with
what they answer, because the code takes them by their order. `Process` is
`session_state_process`, `CmdqReply` is `session_cmdq_reply`. `server` has what
the server knows, `link` whether the connection is secure. A site has control_TLS, may
be the local one (secure from the start, whatever control_TLS says) and may have
IMPLICIT_TLS: then the negotiation runs before the greeting, and its end, good or bad,
comes to a session in CONNECTING, which closes it if it failed and control_TLS is YES and
otherwise goes on over whatever the connection is.

`Local`. `server` holds the static variables of `local.c`: `local_data_ready`,
`data_host`, `data_cmd`, `prot`, the restart point, the file and the connection.
`job` and `pc` are the session that drives it, as `queue.c` and `session.c` do:
PASV or PORT, REST when needed, the transfer, ABOR after a failure elsewhere.
`FileOpen`, `ListEnd` and the others are the events of `local_file_handler` and
`local_data_handler`.

`Store`. `disk` has the lines of each file in each of two directories; a save
is opened (and the file emptied) in one step and written a line a step later,
and a read takes a line a step, as the library does. `Stop` is SHUTDOWN, a kill
or a crash: what was not written is gone. Extra fields of a site are the two
parallel arrays with their holes.

`Http`. Each handle has its state, its handler and its user data; the parser and
the relay have `live`. An end of a handle (`ClosedGet` and so on) is an event that
may come after another handle's. A browser may come without SSL, and is then read at
once when the relay is up; a relay without a certificate stays plain. `leaked` has the
strings of an upgrade that `http_parser_free` forgets or the parser overwrites.

## 3. Runs

Every run passes but `astray`, which shows the first behaviour of section 6.
Deadlock is not an error in any of them: a queue at rest whose user has used up its
commands does nothing more, and neither does a browser that has gone or an engine
that followed NULL.

| Run | Question | Properties | Distinct states |
|---|---|---|---|
| `files` | two files, both directions and orders, between a CCSN and an SSCN site that answer SIZE, every hard refusal, two in a behaviour, a connection lost at any moment, GO and STOP\|DROP | `TypeOK`, `AtMostTwice`, `StorInPlace`, `RestartAgrees`, `DoneIsComplete`, `CountsAgree`, `SecureIfDemanded` | 1,739,149 |
| `astray` | three files into one directory, another and the first, one CWD answered with a 2xx other than 250: it must find `StorInPlace` violated | `StorInPlace` | |
| `edits` | three commands of users at any moment, every position, every reply but a 4xx | `HeadPresent`, `HeadStable` | 189,298 |
| `directories` | a directory expanded into files, first-movers and directories while users edit | `PrivacyAgrees`, `AnswersAwaited`, `KeepsLedger` | 414,174 |
| `rest` | fairness, a queue with a STOP item, STOP and STOP\|DROP | `NothingUnsent`, `ComesToRest`, `StopCompletes`, `StopKept` | 76,746 |
| `api` | two users, two sessions, a queue, one loss | `OwnersHere`, `NoOrphan`, `OneMaster`, `NotMixed`, `LossIsTold` | 303,018 |
| `clones` | one user, four sessions, two queues | `MembersAgree` | 1,034,498 |
| `commands` | four commands of a user who waits for nothing, a server that begins anywhere and answers CWD with any code | `RightFile`, `AnsweredOnce` | 4,512,458 |
| `login` | every control_TLS, IMPLICIT_TLS, a local site, every answer and end of a negotiation, two early commands, fairness | `PasswordPrivate`, `ToldWhenIn`, `ToldInTheEnd` | 37,802 |
| `local` | three transfers in a row, fairness | `InStep`, `CompleteIsReal`, `TransferRight`, `Answered` | 16,685 |
| `store` | two starts, stops and crashes anywhere, three commands | `NothingForgotten`, `DiskAgrees`, `WarnedOfLoss`, `ExtraIsMap` | 1,246,484 |
| `http` | two requests, three frames at the limits of their lengths, with a certificate and without, fairness | `MemoryRight`, `RelaySecure`, `FramesRight`, `InOrder`, `ReadInTheEnd` | 286,333 |

### Where a property holds only in part

Some things that can happen make the code do what nobody wants. The models do
them as the code does. A property that they spoil says so in its own text: it
names them in the variable `odd`, which only grows and which no action reads but
to bound it, or its run leaves them out. Each exemption is needed: without it TLC
finds the property violated, in the run itself or, for four of them, in a larger one
(`LossIsTold` with a third session, a start that moves with `MaxOdd = 2`,
`DoneIsComplete` with a listing cut short and, on the queue of `astray`, with another
2xx). Section 6 lists the behaviours.

- `HeadStable` holds when users add files; a STOP item breaks it.
- `StorInPlace` holds when CWD is granted with 250 or refused with a 5xx; a 4xx
  breaks it, and so does another 2xx (the run `astray`).
- `PrivacyAgrees` and `DoneIsComplete` are checked with servers that grant a command with
  the code it asks for: behind a PROT or a CWD granted with another the session believes
  what is no longer so.
- `SecureIfDemanded` holds between sites with TLS on data; a site with
  `data_TLS=NO` breaks it.
- `DoneIsComplete` holds where no SIZE is refused (`SizedRefusal`) and of queues of
  files; a refused SIZE breaks it in this very run, a listing cut short in a longer one
  (section 6).
- `NothingUnsent`, `ComesToRest` and `StopCompletes` are checked with
  `CleanRefusal`, the refusals given before STOR was accepted, and without
  losses.
- `StopKept` is about files: a directory goes to `QUEUE_START`, which clears
  stop, whatever the user asked for.
- `AnswersAwaited` is checked without losses and without a GO to a queue at work:
  after either the queue goes to the next item without waiting for the replies that
  are still to come.
- `LossIsTold` exempts a manager whose `old_session` is set.
- `RightFile` exempts a CWD before earlier answers, and a relative FID, or a DIRLIST
  where the CWD is relative, behind one that is not answered (`hurry`); a FID during a
  listing (`early`); a local session that believes to be at "/" and is elsewhere
  (`home`) or one that was lent to a queue (`lent`); a name that decoding changes
  (`coded`); a CWD granted with another 2xx than 250 (`near`); and a PWD refused after a
  relative CWD (`unsaid`).
- `AnsweredOnce` exempts a second failed REN (`renamed`), a listing that overtakes
  the data of the one before (`overlap`), and a session lent to a queue.
- `ToldWhenIn` exempts a command before the greeting (`asked`), AUTH SSL (`ssl`)
  and a negotiation that failed where it may (`failed`).
- `CompleteIsReal`, `TransferRight` and `InStep` exempt a PORT that was connected
  before its command, a negotiation that failed, and a listing that was answered
  twice.
- `NothingForgotten` and `DiskAgrees` exempt saves during a read (`early`) or
  another save (`overlap`), a stop during a save (`torn`) or before the files were
  moved (`halfway`), and a start that moves to a home although it was told not to
  (`moved`). `WarnedOfLoss` exempts `early`, `overlap` and `halfway`.
- `InOrder` exempts frames that come two in a buffer or in parts, `MemoryRight` and
  `ReadInTheEnd` a file that fails. `MemoryRight` says of the strings of headers only
  that a browser which asks for no upgrade leaves none.

### Bounds

`Queue`: `MaxItems` (items ever created), `MaxKids` (entries of one expansion),
`MaxCmds` (user commands), `MaxLost` (losses), `MaxBad` (replies other than the
one asked for, and transfers cut short), `MaxMkd` (missing levels). Two or
three items are enough for a neighbour to be harmed by what happens to another
and for every position of `queue_insert` to differ; two bad replies reach the
second failure of one item, and a failure in the phase that follows from a
failure; one loss per behaviour meets every phase.

`Api`: `MaxSid`, `MaxQid` (ids ever given), `MaxAsks` (answers due in one
session), `MaxLost`. Two users are enough for one to take what the other holds,
one queue for a session to be lent and grabbed back; two queues of four sessions
for a clone. `Commands` and `Login`: `MaxAsks`, the user's commands: a listing, a
CWD, a second listing and a FID are four. `Local`: `MaxJobs`; a job meets what one
before it left, and a third what the second left of that. `Store`: `MaxSites`,
`MaxCmds`, `MaxStarts`, `MaxOdd`: a second start is one after a crash. `Http`:
`MaxRequests` (a GET that keeps the connection and an upgrade), `MaxFrames`,
`Sizes`, two on either side of each limit.

The passing runs together take every disjunct of every `Next`.

### Fairness

`Queue`: weak fairness of `Pass`, because the main loop calls `queue_run` after
every poll and polls with a timeout of a second at most, and of `Login`, `Reply`,
`TransferEnd`, `ListingEnd` and `DataClosed` of either side, because a connected
server answers, ends what it began and closes its data connection. `Login`: of
the connection, the replies on their way, the server's greeting and answers, and
the end of a negotiation. `Local`: of the session's next step and of the server
reading its pipe; of the peer, that it connects, negotiates and closes; of the
file, that it opens or fails and ends. `Http`: of the events of every handle that
is read. Nothing is assumed of users, losses or refusals, nor which answer
comes. There is no strong fairness.

## 4. Proofs

Each theorem holds for every value of the constants that its module's
assumptions allow, and these state types only: any pair of sites, any list of
items that a user may build, any sets of refusals and commands and any bounds in
`Queue` (`QueueAssumption`, `DirsAssumption`), and any set of items in `Ledger`; any
set of users, any numbers of sessions and queues in `Api` (`ApiAssumption`); any
number of commands in `Login` and `Commands`; any number of transfers in `Local`
(`LocalAssumption`); any finite sets of users and of fields, and any number of sites,
commands, starts and oddities in `Store` (`StoreAssumption`); any numbers of requests and frames and any lengths
below 65534 in `Http` (`HttpAssumption`; longer lines are cut before, section 6).
Every inductive invariant below was checked by TLC on the passing instances
before it was proved.

| Module | Theorem | Statement |
|---|---|---|
| `QueueProofs` | `Invariance` | `Spec => []IInv` |
| | `TypeCorrect` | `Spec => []TypeOK` |
| | `CountsAlwaysAgree` | `Spec => []CountsAgree` |
| | `HeadAlwaysPresent` | `Spec => []HeadPresent` |
| | `NeverThrice` | `Spec => []AtMostTwice` |
| | `HeadStaysFirst` | if no `NewItems` is a STOP item, `Spec => HeadStable` |
| | `LedgerKept` | `Spec => KeepsLedger`, that is, `Queue` implements `Ledger` |
| | `AlwaysBalanced` | `Spec => []L!Balanced`, the accounts of `Ledger` |
| `PhaseProofs` | `PhaseInvariance` | `Spec => [](IInv /\ FlightInv /\ BeliefInv)` |
| | `AlwaysExact` | under `ExactCodes`, `Spec => []ExactInv` |
| | `AnswersAwaitedInFile` | `Spec => [](state \in FileState => AnswersAwaited)` |
| | `AnswersAlwaysAwaited` | if `MaxLost = 0` and under `NoRestarts`, `Spec => []AnswersAwaited` |
| | `PrivacyAlwaysAgrees` | under `NoStops` and `ExactCodes`, `Spec => []PrivacyAgrees` |
| | `RestartAlwaysAgrees` | under `NoStops`, `Spec => []RestartAgrees` |
| | `AlwaysSecureIfDemanded` | under `NoStops` and `ClientsTold`, `Spec => []SecureIfDemanded` |
| | `StorAlwaysInPlace` | under `NoStops`, `NoSoft` and `ExactCodes`, `Spec => []StorInPlace` |
| | `DoneAlwaysComplete` | under `NoStops`, `NoSoft`, `ExactCodes`, `SizesAnswered` and `FilesOnly`, `Spec => []DoneIsComplete` |
| | `StopAlwaysKept` | under `FilesOnly`, `Spec => StopKept` |
| | `AlwaysSent` | under `NoStops`, `FilesOnly`, `Reliable` and `NoRestarts`, `Spec => []NothingUnsent` |
| `CommandsProofs` | `CommandsAnswered` | `Spec => []AnsweredOnce` |
| | `CommandsRightFile` | `Spec => []RightFile` |
| `ApiProofs` | `Invariance` | `Spec => []IInv` |
| | `OwnersAlwaysHere` | `Spec => []OwnersHere` |
| | `MembersAlwaysAgree` | `Spec => []MembersAgree` |
| | `NeverOrphaned` | `Spec => []NoOrphan` |
| | `AlwaysOneMaster` | `Spec => []OneMaster` |
| | `NeverMixed` | `Spec => []NotMixed` |
| | `LossAlwaysTold` | `Spec => LossIsTold` |
| `LoginProofs` | `Invariance` | `Spec => []IInv` |
| | `PasswordAlwaysPrivate` | `Spec => []PasswordPrivate` |
| | `AlwaysToldWhenIn` | `Spec => []ToldWhenIn` |
| `StoreProofs` | `TablesRemember` | `Spec => []NothingForgotten` |
| | `FilesRemember` | `Spec => []DiskAgrees` |
| | `LossIsWarnedOf` | `Spec => []WarnedOfLoss` |
| | `FieldsAreMaps` | `Spec => []ExtraIsMap` |
| `HttpProofs` | `Invariance` | `Spec => []IInv` |
| | `RelayAlwaysSecure` | `Spec => []RelaySecure` |
| | `MemoryAlwaysRight` | `Spec => []MemoryRight` |
| | `FramesAlwaysRight` | `Spec => []FramesRight` |
| | `AlwaysInOrder` | `Spec => []InOrder` |
| `LocalProofs` | `Invariance` | `Spec => []IInv` |
| | `AlwaysInStep` | `Spec => []InStep` |
| | `CompleteIsAlwaysReal` | `Spec => []CompleteIsReal` |
| | `TransferAlwaysRight` | `Spec => []TransferRight` |

### `Queue`

The properties are not inductive. The soft-error counter has the type
`0 .. 2` and `QUEUE_ITEM_FAILED` adds one, so its type depends on how many
failures an item may carry *on entry*: every item of the list is `Triable` (at
most one), except the first in `QUEUE_ERROR_ITEM`. That state is also the only
one in which a user's QMOVE would spread such an item over the list, so `Charged`
adds that the queue is in it only between two calls of `queue_process`
(`loop = "run"`), when no event can come. `HeadPresent` needs `CountsAgree`,
because START, ACTIVE and the search for lost sessions look at `num_items`; it
is kept by user edits because QDEL and QMOVE spare position 0 of a queue that is
not idle; and a source manager must be known in every phase, which `Active`
provides. `IInv` is `ListInv` (these parts), `SessionInv`, `FileInv`, `WorldInv`
and `BookInv` (types of the rest).

The step proof is by cases of `Next`: `PassList`, `EventList`, `CommandList` for
the list, `PassSessions`, `EventSessions`, `CommandSessions` for the sessions,
`FileStep`, `WorldStep`, `BookStep` for the rest. The lemmas at the top of the
module say that each operator of `Session` maps sessions to sessions and that each
of `QueueList` keeps the elements' set and changes the length by one.

`HeadStaysFirst` is an action property from the same invariant: within a file
the calls and events only write to the first item (`SameHead`), and the users'
commands insert and remove behind it, because `Place` and QMOVE turn a 0 into a
1 and a list with a head has a position 1. Its hypothesis is the one the code
misses (section 6).

### The phases of `Queue`

What a transfer relies on in phase 11 was settled up to ten phases earlier, so the
invariants of `PhaseProofs` say what each phase may take for granted of the ones
before it, while replies of two servers arrive in any order. They hold with losses,
retries, STOP|DROP, REGO and every edit.

`FlightInv` is the base: in each phase the commands in flight of either session are
among those that the phase asks for (`Asked`), and a phase that asks for nothing has
none. It follows because nearly every phase waits for both sessions and a command is
only added by the call that starts a phase (`FilePassTold`) or by the handler in phase
1. `AnswersAwaitedInFile` is its reading: in a file, a reply is charged to the item
and phase that asked. `BeliefInv` is about a session by itself: it waits for one move
at most, its `saved` is where that leads, and otherwise `saved` is empty or where the
server is. `ExactInv` adds that `pwd` is where the server is, so that the CWD which
`session_cwd` skips may be skipped, and that the server's PROT is what the session
remembers. It needs `ExactCodes`, because a 2xx that the session does not count moves
the server and not `pwd` (`AlwaysExact`; the run `astray` shows what comes of it).

On these rest four invariants that are proved separately.

- `PrivacyInv`: in phase 3 whatever is in flight says what `secure_data` says, and
  a session that has answered has failed the item or is at its level; afterwards
  all that are there are. Nothing later changes `PRIVACY` (`PrivateAnswered`).
- `RestartInv`: the same of REST in phase 9, and of its withdrawal.
- `SecureInv`: in the wait of phase 2 TLS was granted, was refused, or is asked for;
  from phase 3 on a demand is met. A session that is lost fails the item, and a
  secure PROT that fails goes back to `Phase2Disable`, which fails an item that
  demands.
- `PlaceInv`: in phase 1 the destination is `Heading` for the directory of the item:
  it is there, or the item failed, or it is told to go there, or the directories on
  the way are being made; in the later phases it is there; and STOR names the
  item. The handler's MKD and CWD after a refusal are the hard part
  (`AnswerHeading`).

*Answers are awaited.* Outside a file's phases `FlightInv` says nothing, and after a loss or
a second GO nothing can be said: the queue goes on over what is in flight, and
`AnswersAwaitedInFile` does without either only because a file begins when both sessions are
idle. `AnswersAlwaysAwaited` excludes the two and has every state, the listing and
expansion of a directory included, from `AwaitInv`:

- `ElseInv`: what may be in flight outside a file (`AskedElse`): the CWDs of a directory's
  phase 1 and the PWD each brings, its one MKD in phase 2, nothing where the queue is about
  to begin, and otherwise only what every state waits for (`Loose`). `FileLeft` shows that a
  file that ends, by whichever phase, leaves no more than that.
- `SteadyInv`: a queue that works on an item has both sessions, so that no item is failed
  over commands in flight. A listing is the exception: its failure may close a session
  (`Closes`), but all that is asked there is `Loose`.
- `StaleInv`: a session in the place of a lost one is not logged in, so it is not idle.

*Done is complete.* A file is done by two 226 of two servers or by one answer to SIZE,
and the session of either side may still be in a transfer of before, whose end and
whose replies look the same. `DoneAlwaysComplete` needs all of the phases:

- `FilesInv`: no directory is in the list or worked on, so the second reply that a
  session waits for is that of a file.
- `AskInv`: while sizes are asked for, a session that is still in a former transfer is
  idle, and what it is told meanwhile is never sent (section 6).
- `SizeInv`: the size by which the engine decides is the destination's answer of this
  try, unless it was never sent, and then the file waits for ever or a session is lost
  and the item fails.
- `UnboundInv`: from phase 7 on the source has no former transfer, because the
  answers of phase 5 or 6 came from it.
- `StoreInv` and `SendInv`: from STOR on the source is `Uncounted`, its second reply
  has not come, unless its own 226 did; and its 226 says that everything was sent.
- `ArriveInv`: what was all sent to is all there, under the id of the first item
  (`PlaceInv` says that STOR names that), and the destination awaits no 226 but its own.
- `FinishInv`, the property itself where a file is taken off the list.

TLC checked `FilesInv /\ DoneInv` on instances of the runs, to depth 58, before it was
proved. It found both exceptions that the hypotheses exclude. A GO to a queue
at work, losses, STOP|DROP and requeues are all allowed.

*An order to stop.* `StopInv`: a queue that is called again before the next poll has
not gone to `QUEUE_START` with the order on it. Every phase that takes it back goes to
`QUEUE_IDLE` in the same call, so `StopAlwaysKept` needs no word about sessions, and it
holds with losses, refusals and edits of any kind. Only a directory's phases go to
`QUEUE_START` whatever the order.

*What is given is sent.* The end of a transfer clears forcebusy and does not restart the
command queue, so `NothingUnsent` holds only if nothing was given to a session before
it. `AlwaysSent` shows that nothing is, from `SentInv`:

- `QuietInv`: outside a transfer no session is in one or was asked for one (`Mild`), and
  what it was given is sent. Such a session is restarted by whatever clears forcebusy,
  `CmdqNew` and every reply among them (`RestartSends`).
- `LateInv`: from phase 9 on nothing fails and both sessions are there, so the file is
  taken to its end and to no other phase.
- `RelayInv`: the transfer step by step, with the two counts of replies. STOR is sent
  (`StorTold`) and accepted (`StorTaken`); RETR is sent (`RetrTold`) and accepted; then
  each side is in its transfer with one reply counted, or at rest with two (`Flows`),
  in any order. Phase 12 waits for two of both.
- `OldInv`: a session that takes the place of a lost one does not log in, and none lists.

A session is given something in a transfer without `Reliable` (no loss; no REST, STOR or
RETR is refused and no transfer fails), because the item fails and the next starts over
the open transfer, after a refused REST too, since the transfer goes on but phase 10 still
finds the failure (`queue.c:1975`); without `NoRestarts` (no GO to a queue at work), for the same reason; without `NoStops`,
because the replies are counted on another item; and without `FilesOnly`, because a
listing left open lets a transfer be taken for ended (section 6). All else may be refused,
and users may stop, add, delete and move. The run `rest` satisfies them.

The hypotheses of all of these are about users and servers, and each is one that section 6
shows the code to need: `NoStops`, no STOP item is added (it takes the first place, and the
phase goes on with another item); `NoSoft`, no CWD or MKD is refused with a 4xx;
`ExactCodes`, no command is granted with another 2xx than `session.c` asks for;
`ClientsTold`, no site that can be the TLS client has `data_TLS=NO`; `SizesAnswered`,
no SIZE is refused; `FilesOnly`, no directory is queued. The runs of these properties
satisfy them. `DirsAssumption` says that the model's NULL is no directory.

### `Ledger` and that `Queue` implements it

`LedgerKept` maps each step of `Queue` to one of `Ledger` or to a stutter. It
needs `LedgerInv` besides `IInv`: no two positions of the list have the same id,
every id was given (`nextId` is above it), and none of the list is in another
account. Lemmas state what each list operator does to the set of ids and that it
keeps them distinct (`InsertIds`, `RemoveIds`, `TailIds`, `SetTopIds`,
`ExpandedIds`); `PassLedger`, `EventLedger` and `CommandLedger` go through the
steps. A failed first attempt, a QMOVE and an event stutter; a completed, a failed
and a deleted item leave; an expanded directory makes room.

`AlwaysBalanced` follows. `Balanced` is inductive for `Ledger` (`LedgerBalances`, from
what a step does to the count: `AddBalances`, `LeavesShortens` for an item that leaves,
`ExpandLengthens` for a directory that makes room for its entries), so a queue, which
implements `Ledger`, has it too.

### `Api`

The properties lean on each other and are proved together. `IInv` is `TypeOK`;
`ManagersInv`, what is true of each manager by itself (`ManagerOK`: one that is not
live holds nothing, one that is has an owner, and only an owner was told
anything) and that ids are given in order; `UsersInv`, that owners and subscribers
are there and `num_clients` counts them; `MembersAgree`; and `QueuesInv`, that a
queue that is not idle has its sessions to itself, without answers due while it
works. A queue is alone with its sessions because nobody owns its managers, and
that stays so because each of them is a member of this queue only, which is
`MembersAgree`. The proof first states which changes of one manager keep its part
(`SamePlace`, `StaysOK`) and which changes of all keep the rest (`MembersKept`,
`PlacesKept`, `QueuesKept`), then goes through the actions; QUEUENEW, QCLONE,
QGRAB, QUEUEFREE, the clean-up and the end of a user have lemmas of their own.
`LossIsTold` follows step by step from `IInv` (`StepTells`).

### `Commands`

The session takes a reply for that of the first command, and the data of a listing
for that of the last connection, so both theorems first settle what is in the queue
while lines, replies and new commands interleave. `Sent`: a session that waits has a
command to wait for; `Paired`: RNFR stands before RNTO and PASV before LIST, side
by side; `OneListing`: there is one data connection at most, which the LIST that
belongs to it finds unread, unless a listing overtook another.

*Answered once.* `Owed` counts, for each kind of command, the answers that are due:
they are as many as the commands of this kind in the queue (`Queued`), and a listing is
owed by its LIST and then by its connection, a rename by its RNFR and by the RNTO once
an RNFR was right. `QueuedAppend` and `QueuedTail` say what a command that is added or
answered does to a count. An idle session has an empty queue, so nothing is owed.

*The right file.* Outside the named exceptions (`Right`) five facts are kept together.
`Apt`: a CWD is the oldest command in the queue, each command is for the file it is
meant for *from where the server is now*, and what waits behind a CWD has an absolute
path, so that the move does not change what it names. `Directed`: with a CWD waiting,
`saved` is where it leads and no data is to come; otherwise `saved` is empty, where the
server is, or relative. `AtHome`: `pwd`, taken from where the server is, is where the
server is, and every listing is of there; the time between the reply to a relative CWD
and that to the PWD behind it is the exception, and then nothing is listed before the
PWD has told (`Asked`). `ListShown`: between listings the session knows the files that
it has shown. `Listed`: the path of each entry leads to the entry. `ResolveFacts` is
what all of them need of paths: an absolute one is the same from everywhere, "./" is
where the server is, an entry is where its directory is. `FidRight` and `UserRight` read
a FID and a user's own path through them, then there is one lemma for each kind of
reply. The proof showed that a path can grow with every CWD given in a hurry, so `Path`
is a sequence of any length.

### `Login`

Both properties rest on one fact about the command queue: as long as a command
of the login (AUTH, USER, PASS) is in it, it is the only one of its kind, and the
session waits for the reply to the first command and for nothing else (`Waits`).
Where control_TLS is YES a session that does not know itself secure is in one of three
phases, `Ungreeted`, `Authenticates` and `Past`, in none of which USER is queued
(`Unsecured`), and one that does is on a secure link, `Ungreeted` after an implicit
negotiation or `Protected` after AUTH; `PrivateInv` says so. A negotiation that runs or
has broken before the greeting leaves nothing to read (`Ungreeted`), and where it has
broken the session is closed before it could be greeted. `ToldInv`
follows a login without surprises through `Greeted`, `Offers`, `Negotiates`,
`Enters` and `In`, and says that CONNECT was heard exactly when `s.told` is set.
`ShapeInv` has what both need: replies match what they answer, and a session
that waits has something to wait for. A reply is proved in layers: what
`Restart`, `CmdqNew` and `Misc` do to the fields, what `Process` and `CmdqReply`
keep, then one lemma for each phase and step. In the model a command's name is one
word (`AUTH_TLS` is "AUTH TLS").

### `Http`

`IInv` is the types (`RecordsInv`, `LinesType`), `OutputInv`, and four parts that
speak of order. `PointersInv` says for each of the three handlers what points to
what, for a handle that is open and one that is gone, from which `MemoryRight`
follows, together with `LeakInv`: who has asked for no upgrade has a parser without one,
is not relayed, and has left no string behind. `SecureInv` says that before its connection is secured the relay has
sent SSL at most and the browser is not read. `ReadInv` says that the lines left
to read continue what the parser has read. `OrderInv` says that what the engine
has read, what is on its way and what is left are what the browser said, which
is `InOrder` once nothing is on its way.

### `Local`

A reply is taken for that of the command the session waits for, so what must be
known in each state is everything that is on its way in both directions and what
the server still holds of the transfer before. `PhaseInv` is a disjunction of the
phases of a transfer that says so: `Idles` (nothing is open; a command that was
never begun may be left), `Prepares` from the answer to PASV or PORT to the command
(`Passive`: the connection is awaited or there; `Active`: it is being made;
`Postponed`: PORT waits for the command), `Runs` and `Over`. `Active` and `Runs`
carry the odd cases of section 6 in their hypotheses: a connection before its
command (`early`), a failed negotiation (`insecure`), a listing told twice
(`twice`), a PORT that begins the transfer of another (`stale`). `RestInv` is about
the restart point: the server has one only if the session knows, and from the
answer to REST until the file is opened it is that of this transfer. The lemmas
say what a call of `local_data` does, by whether it is the first or the second
(`LocalDataIs`), what the end of a connection leaves (`DataGoneIs`) and, for replies,
what is left when one is taken (`Taken`) or one is said (`Said`); then there is one
lemma for each action.

### `Store`

What is on the disk, what is in memory and what users were told are related by
`CleanInv`, as long as nothing odd has happened. `ModeInv` says where the tables are:
in the directory of the old start until all has been saved again, in the one that the
engine runs in after that. `OpenInv` says who has a file open: a table has one writer
at most, and none while it is read, and its handle says so. A file that nobody writes
holds what users were told (`FileInv`); one that is written holds so many lines of the
table in memory, and its writer has the others (`Written`, in `WriterInv`); a table
that is read has the lines so far, the last of them first (`UsersSoFar`, `SitesSoFar`,
in `ReaderInv`). The order of a table turns with every start, so that "what users were
told" is about the set of users with their passwords (`Book`) and of sites, and each is
there once (`Unlike`, `Untwined`). Every exemption is one disjunct of a step: an oddity
is never forgotten (`odd` only grows), and the invariant says nothing after the first.

`WarnedOfLoss` is about what happens after the first oddity, so it has an invariant of
its own, `WarnInv`. After a death while users were written their file has the first
lines of one that had them all (`Torn`), and MUTE comes only behind all of them; the
second start has read so many of its lines and has seen MUTE or not (`HalfRead`). So
when the file has been read either all users are there or MUTE is not, and the warning
comes (`TornInv`). After a start with -D that went to the home there is no file of
users in the other directory, and nobody but the first user was ever told of
(`MovedInv`). TLC checked both invariants, the second with `MaxOdd = 2`, before they
were proved.

`FieldsAreMaps` is about any SITEMOD of any finite set of keys. `Put` and `Drop` change
one slot of a map and leave a map (`Map`: no key is in two slots). `ParseKeys` is a fold
over a set in an order that nobody chose, so it is proved by induction over the
subsets of a finite set (`SubsetsAll`, from the library's theorem that strict subsets
are well-founded): after any of the keys the map has the new values for these and the
old ones for the others. `Nth` and `Kept`, what `sites_save` writes of a list with
holes, are proved the same way, by positions.

### What is only model-checked, and why

- The liveness properties `ComesToRest`, `StopCompletes`, `ToldInTheEnd`, `Answered`,
  `ReadInTheEnd`: the prover treats neither fairness nor ENABLED.

A library theorem that takes an operator cannot be instantiated by the prover, so there
is no induction over what a RECURSIVE operator computes. The modules declare none: the
list operators are functions of positions, and the folds of `Store` are proved by
well-founded sets.

## 5. Plan

Done: the modules of section 2, their runs and the theorems above. Every invariant and
action property that a run checks is a theorem. What is left is out of the prover's reach.

## 6. What the code does that its authors would not want

Met while modelling; the models do the same.

Queue and sessions:

- A 2xx other than 250 to CWD is success for the handler (`handler.c:394`, `421`) and
  failure for the session, "CWD failed, so we know that "saved_cwd" is definitely wrong,
  hence, wipe it. ->pwd, if set, is still valid." (`session.c:1509`). The server has
  moved, `pwd` has not: the CWD of a later item that belongs in `pwd` is answered from the
  cache and its STOR goes where the item before went (the run `astray`). With a 2xx other
  than 200 to PROT, CCSN or SSCN the flag stays as it was (`session.c:1463-1489`), and a
  later command that would set it back is skipped.
- `SESSION_ST_RELAY_226` (`session.c:1554`) clears forcebusy without a restart of
  the command queue. A command queued meanwhile (the ABOR of a refused RETR, the
  CWD of a next attempt) stays unsent in an idle session, and the queue waits for
  ever. `engine/TODO.txt:34` knows the symptom. A refused REST comes to that as well: it
  is taken back and STOR is sent, but its failure stays and fails the item in phase 10.
- The search for lost sessions is skipped when `queue->stop` is set
  (`queue.c:966`): a queue told to stop whose session is lost never stops.
- A requeued file keeps `src_failure` and `dst_failure` (`queue.c:2536`), so its
  second attempt fails at the first phase that looks at them.
- A refused SIZE leaves the size of the attempt before (`handler.c:596`): a file that
  was all there, that the first STOR truncated and that then lost its connection
  passes at the second attempt for one that is there already (EQUALSIZE,
  `queue.c:1635`), if SIZE is refused this time.
- A listing of a directory that failed on one side leaves that of the other side
  open. Its end is taken for the start of the transfer of the next file
  (`handler.c:822`), the reply to STOR for a second one (`handler.c:704`), and a
  destination that ends early makes the file done though the source never finished
  (`queue.c:2082`).
- QADD of a STOP item returns before the guard against position 0
  (`command2.c:1158`, `1228`) and takes the place of the file in transfer.
- The TLS client is chosen by FEAT alone (`queue.c:1225`); a site with
  `data_TLS=NO` that is chosen is never told, and a transfer to a site that
  demands TLS goes on in plain.
- A 4xx to the destination's CWD is neither a failure nor followed by MKD
  (`handler.c:420`): the file is stored in the directory where the session is.

Users and their sessions:

- `manager_cleanup` frees one manager per call, and for an `old_session` clears
  `node->session`, the new session included (`manager.c:285`).
- A command by FID, QCOMPARE or STOP|DROP on a manager whose session is lost
  follows NULL (`session.c:1653`, `queue.c:752`, `queue.c:899`). SESSIONFREE takes
  any SID, whoever owns it. QGRAB does not tell the user of a session that is
  still listing.
- A session begins at "./" (`session.c:200`) and stays relative until PWD is answered.
  If a server refuses PWD after a CWD to a relative path, that path becomes `pwd`
  (`session.c:2259`), and what is listed there is given paths that lead elsewhere
  (`unsaid`). A local session begins at "/" wherever the local server is (`home`).
- A CWD given before the answers to earlier commands takes a reply that is not its
  own for its directory (`hurry`); a FID given while a listing runs names another
  file (`early`); DELE and CWD decode the path of a FID (`coded`).
- RNFR_OK is never cleared (`handler.c:247`): a REN that fails after one that did
  not is answered twice. The PASV of a second DIRLIST while the first has its data
  connection replaces `data_handle`; the second listing is never answered
  (`overlap`). A DIRLIST that is answered from the cache after a queue used the
  session is never answered (`lent`).
- `session.c:1231`, "Feat is last, once we get its reply we tell the client", fails
  for a command given before the greeting, whose answer the greeting is taken for;
  for AUTH SSL, sent without forcebusy; and for a failed negotiation where TLS is
  optional.

Files and settings:

- `arguments()` runs twice without a reset of getopt's state, and
  `settings_defaults` forgets what the first call read: `-p` and `-w` never override
  the settings.
- A first start with `-D` and no home moves the files to a home anyway; the engine
  that dies between making the home and writing the files there finds an empty home
  next time (`halfway`).
- A save while the table is still read writes what was read so far (`early`); two
  saves at once leave the tail of the longer (`overlap`); a crash in a save loses the
  rest (`torn`). The MUTE line of users is what the warning is made from.
- A SITEMOD that takes a field away from a site without extra fields adds an empty
  one. Site ids change with every start.

Local server and HTTP:

- A PORT that is connected before the transfer command is read begins nothing and
  is never answered well; a failed negotiation is ignored; a LIST that fails is
  answered twice.
- "Since we received a blank line, we release all header values" (`http.c:936`), but
  `http_parser_free` (`http.c:161-172`) forgets `upgrade`, and the version that the first
  line gave (`http.c:772`) is overwritten by that of a header (`http.c:982`): an upgrade
  leaves both strings behind. So does the first of them a request with an Upgrade header
  that becomes a GET for want of other headers, which is not in the model.
- A request for an upgrade that will not do is never answered; a second frame in a buffer and a
  frame that came in part are dropped; lines from 65534 bytes on are dropped; the
  64-bit length of a frame is shifted once too often (`http.c:349`);
  `LION_FILE_FAILED` of a file is not handled.

## 7. Not modelled

Texts of replies and QC messages, transfer speeds, `atoll` of sizes and their
overflow, the parsing of LIST lines and of `KEY=value` lines, X-DUPE lines (as the
code stands they change nothing: `queue_xdupe_item` calls `queue_move` without a
handle, which returns at `queue.c:689`), memory exhaustion, several queues that
share the static buffer of `queue.c:3337`, signals and the fork, the commands of
the local server that change the disk at once, the encryption of the stored files,
the network library, which is not in the tree, the Windows build, and the clients,
which are user interfaces over the API.

## 8. Running

    tlc -config MCQueueFiles.cfg MCQueue
    tlapm QueueProofs.tla
