# claude-persist: verification project

TLA+ models of the parts of claude-persist whose correctness depends on the
order in which things happen, TLC configurations that check them on small
instances, and machine-checked proofs of the most important results.

claude-persist keeps Claude Code sessions alive on a server.  A **daemon**
(`daemon/src`) owns the sessions: it runs one SDK query (a `claude` CLI process)
per active chat, writes every event to a transcript, parks turns that a rate
limit, an overload, a stall or a restart interrupted, and resends them by
itself.  **Windows** of the editor (`extension/src`) and phones connect to it,
attach to chats and show them; they also start the daemon when there is none and
replace it when it speaks an older protocol or its code is gone.

## Inventory

| Component | State | Operations | Talks to | Hard because |
|---|---|---|---|---|
| Session turn lifecycle (`session.ts`, `statusPage.ts`) | status, pending turn and its file, retry / stall / status timers, attempts, live query | send, interrupt, park for limit / stall / overload / launch / login / switch / restart, resend, restore, dispose | SDK query, status page, account rotation | a disposed query keeps talking; awaits; crash between steps; handlers call back into themselves |
| Daemon ownership (`lock.ts`, `ownership.ts`, `main.ts`) | lock file, socket path, bound inode | claim, probe, signal, steal, bind, watch, shut down | other daemon processes | several processes, one system call at a time; pids are reissued |
| Transcript (`logStore.ts`, `session.ts`) | active file, archives, in-memory tail, counters | append, rotate, reload, page, de-duplicate | attach, history, phone retries | writes fail or tear; offsets cross memory and files |
| Attach and replay (`main.ts`, `daemonClient.ts`, `chatPanel.ts`, `chat.js`) | subscribers, panel's `lastSeq`, thread | attach, detach, push, reconnect, load earlier | transcript, window | replies and pushes interleave; connections are lost |
| Account rotation (`rotation.ts`, `main.ts`) | active account, limits per account | after a limit, after an expired login, before a retry | every session | one session's refusal moves all |
| Usage limits (`limits.ts`, `usage.ts`, `session.ts`) | usage windows, attempts | corroborate a refusal, plan a retry, poll | SDK, rotation | windows are stale or were never reported |
| Conversations across accounts (`accounts.ts`) | a file per account and folder | find the newest, copy, launch | Claude Code | the list of accounts changes by itself |
| One setup for all accounts (`sharedSetup.ts`) | settings files, credentials | merge, link, join logins | Claude Code of any account | other processes write the same files |
| Sign-in (`login.ts`, `main.ts`, panel) | child processes, entries, timers, the card | start, submit code, cancel, abandon | `claude` subprocess, window | either side gives up before the other |
| Window connection and upgrade (`daemonClient.ts`, `extension.ts`) | connection, attempts | connect, judge, refuse, replace, spawn, reconnect | daemon | windows of different builds share a daemon |
| Mobile gateway (`gateway.ts`, `coalesce.ts`) | connections, gathered text | send, gather, keep alive, drop | phones | silent clients; text held back while events pass |
| Uploads (`uploads.ts`) | partial files | piece, finish | phones | lost answers are retried, late ones arrive |
| Session registry (`registry.ts`, `importer.ts`) | the list and its file | create, touch, rename, import, delete, load | everything | several writes per operation |
| Titles (`titler.ts`, `session.ts`) | name, past names, looks under way | look, apply, rename, clear | SDK | the answer comes late |
| Permission prompts (`session.ts`, `chat.js`, `push.ts`) | open requests, pins, notices | ask, answer, bypass, draw, notify | CLI, panels, phone | several answer at once; request in memory, card in the log; a phone that is away keeps one notice |
| Subagents (`agents.ts`, `session.ts`) | who works | note, report, prune | panels | no message says an agent is done |
| Composer, streamed text, heartbeat (`chat.js`, `chatPanel.ts`) | attachments, previews, working row, border | attach, send, stream, settle, ping | panel, daemon | lists change during awaits; answers late or missing |
| Protection of the way in (`rescue.ts`) | `oom_score_adj` and nice of processes | protect, sweep | the operating system | children inherit it between the calls |
| Views, rendering, launching, protocol types | none of their own | read-only | | not a protocol |

`PROJECT.json` lists the hazards of this code one by one, each at its line, with
the properties that would catch it.

## Modules

| Module | Models | Checked through |
|---|---|---|
| `SessionOps` | the methods of `DaemonSession` as operators on its state | `Session` |
| `Session` | the event loop around one session, and the life of the daemon | `Session` |
| `SessionProofs` | proofs about `Session` | |
| `Ownership` | any number of daemon processes competing for lock and socket | `MCParts`, `MCProgress`, `MCOwnership` |
| `Upgrade` | windows of several builds around one daemon | `MCProgress`, `MCUpgrade` |
| `DaemonProofs` | proofs about `Ownership`, `Upgrade` and `Rescue` | |
| `EventLog` | the transcript of one session | `MCRecords` |
| `EventLogProofs` | proofs about `EventLog` | |
| `Replay` | one window, one tab, and the daemon's side of its subscription | `MCRecords`, `Replay` |
| `ReplayProofs` | proofs about `Replay` | |
| `Rotation` | the account that all sessions share, and who moves it where | `MCRecords` |
| `RotationProofs` | proofs about `Rotation` | |
| `PushStream` | what a connection is promised of the pushes of each chat | refined by `Coalesce` |
| `Coalesce` | the sender of a phone's connection, and its keep-alive | `MCProgress` |
| `Subagents` | the subagents shown as working | `MCProgress`, `Subagents` |
| `Uploads` | one file sent in pieces | `MCProgress` |
| `Login` | sign-in children, their entries, and the card in the panel | `MCProgress` |
| `Rescue` | protection from the OOM killer and who inherits it | `MCProgress` |
| `Heartbeat` | a tab's ping and its red border | `MCProgress` |
| `Titles` | how a session names itself | `MCParts` |
| `Permissions` | requests, their cards and pins, and the phone's notices | `MCParts`, `Permissions` |
| `PhoneProofs` | proofs about `Coalesce` (that it implements `PushStream`), `Uploads` and `Permissions` | |
| `Transcripts` | one conversation across accounts and folders | `MCParts`, `Transcripts` |
| `SharedSetup` | one settings file and one set of MCP logins for all accounts | `MCParts` |
| `Composer` | the attachments of the next message | `MCParts` |
| `Preview` | the streamed end of a thread and the working row | `MCParts` |
| `Registry` | the session list and its file | `MCParts` |
| `Limits` | waiting out a plan limit on one account | `MCParts` |
| `PartsProofs` | proofs about `Titles`, `Registry`, `Transcripts`, `SharedSetup`, `Limits`, `Composer` and `Preview` | |
| `SequenceLemmas` | what several proofs use about numbers and sequences | |

`MCRecords`, `MCProgress` and `MCParts` each put several modules
into one run.  The modules of such a run share no state: a variable `part` says
which of them moves in a behaviour, the others stay as they begin.  The run is
the union of the runs each module would have by itself.  Where components do
interact, the module that needs the other models its side of the interface:
`Upgrade` and `Replay` a daemon that goes away, `Limits` and `Rotation` a retry,
`Session` an account switch caused elsewhere.

Operators named `X_Something` next to an operator `X` are the mutants that
`PROJECT.json` lists: `X` with one plausible mistake.  No specification uses
them.  (`Goto_Upgrade`, `Restart_Permissions` and the like are no mutants: a module they
share a run with has the name too.)

### SessionOps and Session

The daemon is one JavaScript thread, so a handler is an atomic step up to its
first `await`, and handlers call one another synchronously.  Each method is an
operator from a session record to a session record, and a call is composition.
`ParkForLimit` contains, for instance, the account switch that `onLimited` makes,
which parks and disposes this same session before the caller goes on.  Actions
of `Session` are the entries into that code: requests (`UserSends`,
`UserInterrupts`, `UserMoves`, `UserSetsAccount`, `UserDeletes`), timers
(`RetryFires`, `WatchdogFires`, `StatusTimerFires`), the answer of an awaited
request (`StatusPageAnswers`), messages and ends of SDK queries (`SdkSpeaks`,
`SdkResult`, `SdkStops`), a switch another session caused (`AccountSwitched`),
and the process (`Shutdown`, `Exit`, `StandDown`, `Crash`, `Boot`).

What is abstracted:

- Time.  An armed timer may fire at any moment; the age of the last SDK message
  is one of four ages (`never`, under 45 s, under `STALL_MS`, more).
- Subagents in `busy`.  An agent's `lastActivityAt` is set only while an SDK
  message is handled, which sets `lastSdkActivityAt` too, and both are compared
  with 45 s; the model keeps the second.
- Texts.  Whether a result is a limit, an overload, an expired login or an answer
  is an input, and so are "a binary was found" and "the account moves".
- A setup failure with no account to move to behaves as an answer plus a notice.
- The identity of an incident: `namedIncident` is set or not.
- Status requests in flight saturate at `MaxPolls`: one beyond it is one that
  answers null.  `QueryIds` bounds the CLI processes alive at once.
- `persistPending` succeeds.  A write that fails is swallowed by the code, whose
  comment accepts that the turn then does not survive a restart.

History fields: `parkedBy` and `resends`.

The CLI processes outlive the daemon unless they were told to close.  `Stop` is
the end of the process, and `orphans` then says how CLIs came to be left behind: by
a crash or a stand-down (`abrupt`), by a session that began a query after its
teardown (`revived`, which `session_delete` shows to happen), or by a shutdown that
went as it should.  `NoOrphanCli` excludes the last.  A daemon that stands down
exits from the socket watch (`main.ts:1008-1010`) without disposing of anything, so
its CLIs go on with nobody to talk to, which is what the comments at
`main.ts:1081-1082` and `session.ts:1094-1098` are there to prevent on shutdown.

### Ownership

One process is one pid together with its start time; `ReusePid` lets the
operating system give the number to a stranger.  Every system call on the lock
file or the socket path is a step of its own, because the other processes run
between them; the exception is the stat followed by the unlink of the socket
during shutdown, which are one step.  The look at the holder's start time
(`Identify`) and `process.kill` (`Signal`) are two calls: `strays` keeps who
signalled a process that did not write the lock, and `outrun` whose holder's pid was
reissued between the two.  A socket's inode is named by the process that bound it.
`CloseUnlinks` says whether closing a listening server also removes its path,
as libuv does; `Wedges` whether a probe of a serving daemon may time out;
`HasProc` whether start times can be read.

### EventLog

Appending is synchronous: memory, file, clients, rotation, in that order, in one
step.  A write may fail (`AppendFails`), a rename may fail (the second disjunct
of `Rotate`), and a crash may cut a write short (`Tear`), leaving the active file
without its last newline, after a fragment or after a whole event; the next line
is then glued to it and neither parses.  Opening and closing the file descriptor
does not change what is in the file and is left out.  An event carries only its
number and its message id.

### Replay

An event is its sequence number.  Both directions of the connection are FIFO;
`Disconnect` loses what is on the way and fails what is awaited.  A promise
continuation runs after the rest of the chunk that resolved it and before the
next task, so `resolved` holds answers whose `attach()` has not gone on, and
`NextTask` guards everything that starts a new task.  `waiting` are handlers of
the panel that wait for `ensure()`; they go on when `reattachAll` has come back.
The log does not lose events here; `EventLog` is about that.

### Rotation

Several sessions and one active account.  Accounts are the config directories in
the order of the menu; a login (`accountIdentity`) may be held by several of
them.  A step is a whole handler: `Limited` is `parkForLimit` with the
`onLimited` it calls and the `activateAccount` that one calls, `AuthFails` the
branch for an expired login, `RetryFires` is `runPendingRetry` with
`beforeRetry`.  A session is reduced to what the rotation sees of it: whether it
is `busy`, has a queued turn, and which account its query was launched on.  A
query outlives its turn, which is why every switch has to dispose of it.

- Times are kept as what is left of them, so the clock needs no bound.  Timers
  may be late.
- The wait `planRetry` comes to is any from `MIN_WAIT_MS` to `MAX_WAIT_MS`.
- `Active` is computed from the account list, as `effectiveActive` does: the
  default account gives way to a named one with the same login.  The extra row
  that an exported `CLAUDE_CONFIG_DIR` makes is left out, and so is a directory
  that is signed into another login than before.
- `WorkingLogins` are logins on which nothing is refused; any other may refuse
  any turn at any time.
- `disturbances` counts what users, terminals and stalls do besides sending
  messages, and results that come outside of a turn.  It bounds them, and the
  statements about what the daemon does by itself look at it.
- How a session's retry survives a restart is `Session`'s subject; here the
  daemon may start with queued turns.

### Upgrade

A window is in a phase of `connect()`: at an attempt (`loop`), waiting for the
answer to `hello` (`asked`), `failed` and about to look whether anything listens,
`up`, `waiting` to reconnect, or `down` when nothing is scheduled or it is not open
yet.  `StalenessOf` is the judgement of `verifyProtocol`: too new to speak to, of an
older protocol or of a build that is gone from disk (told to stop at once), or fine.

`stalenessOf` also compares versions, and `deferUpgrade` waits for a quiet moment to
replace an older build of the same protocol.  No window gets there: a daemon takes
its version from `CLAUDE_PERSIST_VERSION`, which `spawnDaemon` does not pass
(`daemonClient.ts:411-415`), so `hello` answers null (`main.ts:565`).  That branch is
left out, and `upgrade_older` shows what follows, against the comment that "older
loses".

`Install`, `Uninstall` and `ReloadWindow` are the user's and the editor's.  Versions
are numbers, and `ProtocolOf` gives their protocol.  Which of two daemons that start
together survives is `Ownership`'s subject; here a window that finds none starts the
one there is.

### Coalesce and PushStream

`PushStream` is the abstract specification: per chat the items reach the wire in
the order they were offered, and anything but text at once.  `Coalesce` is the
code: text gathered per chat until a timer, other events behind the text of their
chat.  `KeepsTheStream` says that `Coalesce` implements `PushStream` under the
mapping `offered <- handed`, `delivered <- wire`; `NothingIsLost` is what it rests on.
The connection's side is the heartbeat sweep that lets a silent client go.

### Subagents, Uploads, Login

`Subagents` follows both ways of knowing who works: by who was heard of lately,
and by the level signal of a newer CLI, which from its first arrival replaces the
first.  `shown` is the list that clients were told last, apart from what the daemon
knows (`agents`), from what it published last (`lastAgentSignature`) and from who
has in fact fallen silent (`silent`): an agent leaves the list only when something
is published.  `Uploads` has a phone (external) that repeats a piece whose answer does
not come while the abandoned request may still arrive, and a daemon that may die
between appending and renaming.  A byte is its position in the file.  `Login` has
the child, the daemon's entry with its three timers, the window's request that
times out sooner than the daemon's exchange, and the one card of the panel.

### Rescue and Heartbeat

`Rescue` has one step per system call of a sweep, because processes fork and
start threads between them; the script protects a target in one step.  `Slips`
keeps which processes were boosted by one that the sweep was at.  `Heartbeat`
counts time in pings.  The link is good (a ping is answered before the next),
slow (answers arrive at any time) or down.

### Titles, Permissions

In `Titles` a name is the set of the stems of its words, since that is all
`isMaterialChange` compares.  A look reads the transcript before its await and
answers later.  `racedName` remembers that the user renamed a chat while a look
was under way.  In `Permissions` the transcript is a sequence of requests and
answers; a panel draws it from the last `REPLAYED` entries and pins what has no
answer.  The phone's notices travel to Google without waiting for each other
(`sends`), and Google keeps one for a phone that is away (`kept`): all attention and
resolved notices of a chat have one `collapse_key` (`push.ts:196`).  `wants` is
whether the phone is registered for attention notices, which is asked again for each
notice, the one that takes another down included (`push.ts:239`); `announced` is
bounded (`push.ts:245`).  Whatever keeps a notice up is named: `misled` when one was
not sent, failed or was overtaken, `replaced` when the withdrawal gave way to a
newer notice.  There is one chat and one phone: phones are sent to independently of
each other, and chats collapse apart.

### Transcripts, SharedSetup

In `Transcripts` a file is the sequence of turns it holds and its time; every
turn writes to the file the query resumed.  `scanAccounts` is the list with the
default account left out when a named one has its login.  In `SharedSetup` the
settings are merged in one step, the credentials are read together and written
file by file, and Claude Code writes in between.  An account's `settings.json` may
be a file, a link to the shared one, a link of the user's own to another file
(`elsewhere`), or unreadable; `shareSettings` merges only the first
(`sharedSetup.ts:146`) and replaces them all.  It is assumed that the default
account has a settings file that can be read.

### Composer, Preview, Registry, Limits

`Composer` follows a file from the browser's chunks or the server's disk through
the chips to a message; `caught` names the races in which it is lost or goes
twice.  `Preview` has the previews of streamed blocks, what settles or drops them,
and the working row.  `Registry` has one step per write to the disk and a crash
between any two.  `Limits` has usage windows of several kinds that the CLI reports
at some time or never; a refusal names none of them reliably.  A turn has
`MAX_ATTEMPTS` refusals, whatever they are about: `RefusedTurnComesBack` says how far
they go, for any number of kinds and attempts.  Each attempt is worth one spell of a
spent window (`spells`) or is lost to a retry that was planned for the wrong time
(`misplanned`): because the window was not reported, ends later than `MAX_WAIT_MS`,
or because of a `StaleRejection`.  The last comes from a window's status and its
reset time having different sources: one whose last status was a refusal may carry
the reset time of a later poll.  The code knows six kinds of windows
(`usage.ts:16-23`) and has five attempts (`limits.ts:30`), so a turn that all six
refuse one after the other is given up, and a stale rejection costs one of the five.
The run has three kinds and two attempts.

## Runs

Passing runs:

| Run | Checks | Bounds and what they let happen |
|---|---|---|
| `session` | `FileMatchesPending`, `ResendsBounded`, `NoOrphanCli`, `HangIsAnnounced`; `ParkedTurnIsSettled`, `SilentTurnIsNoticed`, `StatusWatchEnds` | 3 queries (installed, replaced, one still draining), budgets 2 / 3 / 1 so that each is exhausted and they differ, a poll that answers late, a restart |
| `records` | `BlameIsRight`, `SwitchIsJustified`, `CutTurnsAreQueued`, `SearchIsShort` of `Rotation`; `ReadsAreExact`, `RetryIsRecordedOnce`, `FaultCostsOneEvent` of `EventLog`; `PanelIsExactUnlessRaced`, `QuietPanelFollows` of `Replay` | 4 accounts on 3 logins (one always works, one is held twice), any of them listed at the start, 2 sessions, 5 attempts, cooldown 2 and settling time 1, one disturbance; 6 events, tail 2, rotation every 2: up to three archives, reads in memory, in files and across, 2 restarts; 4 events, replay of 2, 2 connections, the tab opened twice, 2 attaches in flight |
| `progress` | `KeepsTheStream`, `PhoneIsServed` (`Coalesce`), `SilentAgentLeaves`, `UploadSucceeds`, `SignInEnds`, `OnlyTheWayInIsProtected` (`Rescue`), `BorderIsRight` (`Heartbeat`); `DaemonsConverge`, `LostSocketIsRebound` of `Ownership`; `ConvergesOnNewest`, `UpgradeIsCareful` of `Upgrade` | 2 chats, 2 texts and an event; 2 agents and 2 tasks; files of 0, 3 and 6 bytes, pieces up to 2, limit 4, 3 lost answers; 2 sign-ins, 2 codes; 4 processes, one of another user, of 2 threads; staleness after 3 pings, 2 messages each way; 2 daemon processes; 2 windows that begin with different builds, 3 builds of 2 protocols, 2 attempts, a daemon that fails by itself |
| `parts` | `UserTitleIsKept`, `NamesFollowTheTalk`; `TranscriptIsTrue`, `PinsAreWhatWaits`, `NoticeComesDown`; `ResumesTheWhole`; `SharingLosesNothing`; `AttachmentGoesOnce`; `PanelShowsTheTurn`; `AnsweredIsDurable`; `RefusedTurnComesBack`; `NoStrayKill`, `LoneStartSettles` of `Ownership` | 3 names, the last made of words of the others, 5 looks, a clear; 2 requests, one a question, a restart, one announced request remembered; 3 directories with 2 logins, 2 folders, 3 turns; 2 entries, 3 writes, 2 rounds of sharing; a file of the server and one of 2 chunks; 4 blocks of 2 pieces; 2 sessions, 3 edits, 2 crashes; 3 kinds of windows, 2 attempts, windows used up 3 times: more kinds than attempts, and one used up again behind a stale refusal; 2 processes, an owner and the one that claims from it (the theorems are about any number) |

Symmetry is used in `records`, over sessions and message ids, and in the two
violation runs of `Ownership`, over processes; none of them has liveness properties,
and no definition tells these apart.  Deadlock is not checked:
every model may come to rest when its bounds are used up.

Many of the promises are joined from named parts (`UpgradeIsCareful`,
`BorderIsRight`, `OnlyTheWayInIsProtected`, ...); the parts carry the comments.

Fairness is what the event loop and the operating system do by themselves:

| Module | Fair | Because |
|---|---|---|
| `Session` | timers that are armed, answers of awaited requests (a failed one answers null), exit of a process told to stop, draining of a closed CLI, a new start | the event loop; a window that finds no daemon starts one |
| `Ownership` | the next step of every process that runs | processes are scheduled |
| `Upgrade` | the next step of a window, its reconnect when it waits, the exit of a daemon told to stop; strongly, the look and the spawn of a window while no daemon listens, and the exit of a daemon told to stop while a window is at its attempts | `connect()` tries again by itself and looks every 250 ms, and a window that lost its daemon waits longer than that before it looks, so it does not miss every moment without one; forty attempts outlast a shutdown |
| `Coalesce`, `Subagents`, `Login`, `Rescue` | their timers, the close event of a destroyed socket, the rest of a script or sweep | timers fire; the script has a timeout |
| `Uploads` | the phone asks on, and a request it waits for is answered once losses end | the phone is patient; `MaxLost` bounds the losses |
| `Heartbeat` | the interval, and delivery over a link that is not down | timers fire; messages are delivered |

Nothing is assumed of the user, of what the SDK says, of subagents, of the child
of a sign-in, or of a window whose attempts are used up.

Runs that end in a violation show where the code disagrees with what its own
comments or documentation say; `PROJECT.json` quotes the line for each:

| Run | Violated statement | How |
|---|---|---|
| `session_delete` | `DeletedStaysDown` | the status watch of a deleted session resumes it |
| `ownership_exclusive` | `ExclusiveClaim` | two processes clear the same stale lock, the second clearing the first one's new lock |
| `ownership_handover` | `HandoverKeepsTheTurn` | the lock is released before the turns are parked |
| `replay_race` | `PanelIsExact` | an event overtakes the continuation of the attach it follows |
| `transcripts` | `HistoryIsCarried` | the default directory is no longer searched once a named account has its login |
| `agents_empty_report` | `EndedTaskLeaves` | a report of no task at all has the signature that was just emptied and is not published: the tasks before it stay on the clients' lists |
| `push_collapse` | `EveryNoticeComesDown` | while the phone is away, the next request's notice replaces the one that takes an answered request down |
| `upgrade_older` | `OlderLoses` | a daemon does not say its version, and a window is served by an older build for ever |

Reading the code for the models brought up other places where it does not do
what a comment or the README says.  The models contain that behaviour; no run is
spent on it:

- a turn parked by the watchdog keeps the status `running`; if the user stops
  its retry, nothing drives the session any more (`session.ts:870`);
- a binary that cannot start is given up on with the words for a rate limit
  (`session.ts:566`);
- an answer of the status page asked for one parked turn can name an incident
  for the next one (`session.ts:645`);
- a daemon that stands down parks nothing and leaves its CLI processes running
  (`main.ts:1008-1010`, against `main.ts:1081-1082` and `session.ts:1094-1098`);
- a daemon that looks up its inode after another one has replaced the socket
  never stands down (`main.ts:898`);
- a message id is looked up in the tail only, and is found there also when the
  write failed (`session.ts:434`, `session.ts:410`);
- deleting a session leaves its archives (`main.ts:731`);
- an incremental replay is cut to the newest, which leaves a hole
  (`session.ts:352`);
- a connection lost while earlier messages load leaves the button disabled
  (`chat.js:1919`);
- a turn that ended less than 45 s before an account switch counts as busy and
  is told to "restart and continue" (`session.ts:515`);
- sequence numbers are given twice after a write that failed or was torn, because
  they advance in memory first (`session.ts:410`);
- with every account spent the wait is until the first limit ends, also that of a
  login that has expired (`rotation.ts:155`);
- the daemon never sends the `busy` flag by which a window would spare subagents
  at work (`main.ts:507`, `daemonClient.ts:345`), and no window comes to ask;
- a look for a name that is under way when the user renames the chat replaces the
  user's name (`session.ts:791`), and what it reads as recent reaches back across
  a clear;
- a card for a permission survives a reload of the window, and also a restart of
  the daemon, which no longer waits for the answer (`session.ts:1313`);
- an MCP login is as new as the file it is in: an account that saves its
  credentials after the sign-in elsewhere overrules it (`sharedSetup.ts:174`);
- files attached while a message is on its way are dropped from the list with it
  (`chatPanel.ts:511`);
- text of a subagent settles the preview of a block that was cut off, which is
  then gone (`chat.js:1531`);
- the reset that a retry is planned for is said to be "among windows that are
  actually blocking us", and may be of a window that is whole again
  (`limits.ts:296`);
- an account's `settings.json` that is the user's own link is replaced without being
  merged, against "every account's merged into the default's"
  (`sharedSetup.ts:137`, `sharedSetup.ts:146`);
- a phone that turned attention notices off, or a request forgotten at the bound of
  500, gets no notice that takes the first one down (`push.ts:239`, `push.ts:245`);
- after a code that was refused the card stays but no code can be sent with it;
  the result of a sign-in is shown on whatever card is there, and the timer that
  takes it away takes a newer card too (`chat.js:2091`);
- a protection script that fails half way leaves what it protected, with no
  sweeps; processes of other users keep what they inherited; a thread started
  while its process is swept keeps the nice (`rescue.ts:78`, `rescue.ts:140`).

The passing properties of the same modules say what holds in spite of these:
`HangIsAnnounced` that a session nothing drives any more has said so,
`DaemonsConverge` that two daemons become one when each knows its own socket,
`RetryIsRecordedOnce` that a retry within the tail is harmless,
`FaultCostsOneEvent` how much a bad write can cost, `PanelIsExactUnlessRaced`
that a race and a cut replay are the only ways a thread goes wrong,
`AttachmentGoesOnce` that the named races are the only ways a file is lost or
sent twice, `UserTitleIsKept` that nothing but such a look replaces a user's name,
`OnlyTheWayInIsProtected` that the protection itself is always taken back,
`NoticeComesDown` and `RefusedTurnComesBack` that only what they name keeps a notice
up or a turn from being answered.

`SearchIsShort` is a bound, and the code's budget does not follow from it: with
`n` accounts that refuse, a turn can need `2n - 1` retries to reach one that works,
two for an account when a late timer lets its limit end before the search goes on.
`MAX_ATTEMPTS` is 5, so it is enough for three such accounts and may not be for
four.  The count is of accounts and not of logins: a refusing login that two
accounts hold is met again at the second of them, if its limit has ended by then.

## Proofs

`SessionProofs` proves, for every value of the budgets, any set of query ids and
any bounds, that `Spec => []IInv` and from it each of `TypeOK`,
`FileMatchesPending`, `ParkedHasTimer`, `ResendsBounded`, `NoOrphanCli`,
`SpeakingIsNotIdle` and `HangIsAnnounced`.

The assumptions are `BudgetAssumption` (budgets are natural numbers, and an
overload has the largest), `QueryAssumption` (null is no query) and
`SessionAssumption`.

The argument.  None of the properties is inductive by itself.  `ResendsBounded`
needs to know that each resend was paid for by an attempt: `resends <=
consecutiveRetries`, strictly while a turn parked for a cause of `parkForLimit`
is waiting, and strictly below the largest budget then, because a turn is only
parked while attempts are left (`ResendsPaid`).  `SpeakingIsNotIdle` needs
`CliOwned`: only the installed query's process can be in a turn.
`FileMatchesPending` after a restart needs that a stopped daemon left nothing but
the file.  `NoOrphanCli` needs that a session that was torn down has no installed
query unless it was revived, so that what is still open at the exit is either
nothing or excused.  `IInv` is the conjunction of these.  The proof has one lemma per
operator of `SessionOps` that says what the operator keeps (its type, `Sound`,
the agreement of file and pending turn, `Timed`, `Announced`), composed as the
operators are, and one step per action.

`RotationProofs` proves, for any number of accounts, any assignment of logins to
them, any sessions and any waits, `Spec => []IInv` and from it `TypeOK`,
`QueriesRunOnActive`, `BlameIsRight`, and the action property
`SwitchIsJustified`.  It assumes `RotationAssumption`: there is an account, the
times are natural numbers, a wait is not zero, and the key of one directory is
not the identity of another.  `QueriesRunOnActive` is not inductive, because the
active account changes with the account list; `QueriesRunOnChosen` is: while the
default is chosen all queries are on its login, and while another account is
chosen they are on that very account.  The second half is what `BlameIsRight`
needs when the active account is no longer listed and is filed under its
directory.  `NextIsCandidate` says what `nextUsableAccount` returns, from the
fact that a non-empty set of numbers has a least element.

`SearchIsShort` counts over a whole search.  `SearchInv` measures how far it has
got: `Ahead` are the refusing accounts between the active one and the first that
works, in the order `nextUsableAccount` goes round (`Dist`), and `Passed` are the
others.  A switch never goes past an account that works, because such a login is
never held to be spent, so it leaves fewer ahead (`FewerAhead`).  A turn has spent
at most two retries on each account passed, and the second one on the last of them
only when the cooldown is over or will be by its retry (`Within`); a refusal then
finds the rotation free to go on.  The first attempt to prove this counted logins;
the step from a login to a later account that holds it too cannot be proved, and
with three refusing logins, one of them held twice and apart, TLC shows that the
statement was false.  The run could not show it: the account that shares a login
there is the default one, which is not listed beside its twin.

`CutTurnsAreQueued` is inductive by itself, once it is known of each operator on the
sessions that it leaves no working session without a query (`BackedWork`).

`PhoneProofs` has three parts.  The first is the refinement, for any chats, texts
and events and any
number of messages: `CoalesceSpec => KeepsTheStream`.  It assumes
`CoalesceAssumption` (texts are no events, the limits are natural numbers).  The
mapping needs to know that whatever was handed over and is not on the wire is
gathered, behind it, and that nothing is gathered while no window is open:
otherwise the first piece of the next window would overtake it.  This is
`NothingIsLost`; with the types it is inductive (`SenderInv`).  Handing over text
maps to `OfferText`, other messages to `OfferEvent`, a tick that sends to
`Release`, and everything else to a stutter.

The second part is about an upload of any size in pieces of any size
(`UploadsSpec => []UploadIsTheFile`).  What makes a request that comes late or twice
harmless is where it says it belongs: `UploadInv` holds that every request on its
way, the current one and the abandoned ones, lies within the file and is marked as
the last only if it reaches the end (`Fits`).  The daemon appends nothing unless
the offset is where its part ends, so the part is always the beginning of the file,
also when the daemon dies in the middle of a piece, and it is renamed only
when it is the whole.

In `DaemonProofs` the first part is about any number of processes, whether or not start times
can be read and whether or not closing a server unlinks its path.  It assumes
`OwnershipAssumption` only.  `NoProcessIsKilledByMistake` carries what was seen at
the look at the start time over to the signal: a process about to signal has a holder
that is not reissued, unless it was outrun (`SignalsFit`).  The other two results follow a process from its start.  `alone` remembers how a
start began: with nobody else running, or beside one settled daemon.  `OnItsOwn`
says where such a process can be and what it has read by then: the lock it finds is
one nobody else will touch, so it is respected at most once, and what is unlinked
is what was read.  `BesideDaemon` says that a start beside a settled daemon ends at
the probe.  Both need `Unacquired`: a process that has not claimed the lock is not
named in it.  `LoneStartIsNeverLockedOut` has no hypothesis.
`StartLeavesOneDaemon` has one, `~Wedges`: a probe that times out on a daemon that
listens is taken for a dead one, the daemon is signalled, and the start does not
leave it alone, which is what the code means to do with a daemon that hangs.  The
run `parts` has the same value of the constant, and two processes; the theorems are
about any number.

Its second part is about any windows, versions and protocols
(`UpgradeAssumption`).  `UpgradeIsCareful` becomes inductive with two facts more
(`UpgradeInv`).  A window that waits for an answer asked the daemon that runs,
because a daemon that goes takes every connection with it (`AnswersCome`).  And the
newest build stays on disk, so that no deleted one comes back under a daemon that
was told to stop for it (`NewestStays`).  Reloads do not spoil a reason to stop a
daemon, because protocols only rise with the builds.

Its third part is about any processes and threads (`RescueAssumption`).
`RescueInv` says of the process a sweep is at that the threads it has listed and
not come to are the only ones that may keep the boost without an excuse, and that
the script has come to every target not left to protect.

`EventLogProofs` is about every length of the tail, every rotation threshold, and
any number of events, restarts and faults (`EventLogAssumption`).  Everything the
readers see of the files is the sequence of their valid events, so the proof first
says what each step does to that sequence: rotation leaves it alone, an append adds
its event at the end, and an append behind an unended line adds nothing and takes
the last one away if that had been whole.  `LogInv` has four parts besides
`RetryIsRecordedOnce`: types (`LogTyped`); events are numbered apart, and a whole
line that a crash left without its end is none that was announced (`LogCounted`);
without faults the files hold what was announced and the memory its end and its
length (`LogExact`); and a fault whose unended line still waits for its victim has
cost nothing yet (`LogLost`), which is what makes `FaultCostsOneEvent` inductive.
`ReadsGiveTheTranscript` is then about the operators: what `EventsSince` and
`EventsBefore` return when memory holds the last `MAX_TAIL` events and the rest is
read from files.

`ReplayProofs` is about any length of the first replay and any number of events,
connections, opened tabs and attaches in flight (`ReplayAssumption`).  An attach
passes four queues (`requests`, `unsent`, `wire`, `resolved`), pushes join it on the
third, and a lost connection empties all of them, so neither property says anything
about one step.  `ReplayInv` says of the whole way:

- `Line`: of two attaches, the one behind is not the one of `reattachAll`, asks for
  everything if both belong to the open tab, and, once it is handled, has seen at
  least as much of the transcript.  So at most the first attach of a tab is incremental, and it
  is never answered after one that started over.
- `Waits`: the same of handlers that wait for a connection and have not asked yet.
- `Mine`: a tab that is loading has nothing in flight; replies of an earlier tab
  are not taken for its own.
- `Pushes`: pushed events come in order and are newer than every replay ahead of
  them and than what the panel has seen.
- `Fed`: once an attach of the tab was handled, or all are back, the tab is
  subscribed, no detach is on its way, and every event from what it has seen, or is
  being replayed, up to the end of the transcript is on the wire.
- `Unraced`: a panel no event raced has `lastSeq = seen`, its incremental attach
  asks from there, and its thread ends there without a gap.

With nothing in flight `Fed` leaves no event the panel has not got
(`QuietHasAll`).  `QuietPanelsFollow` and `PanelsAreExact` are what `Fed` and `Unraced`
say then.

The third part of `PhoneProofs` is about any requests, any length of the replay and any number
of restarts (`PermissionsAssumption`).  `PermissionsInv` adds three things to the
types: request, promise and transcript go together (`Together`), an answer in the
transcript is the one the CLI was given, and there is at most one
(`AnswersFit`), and an answered request whose notice went out has its withdrawal on
its way, kept for the phone or delivered, unless it is `misled` or `replaced`
(`WithdrawalIsSent`).

`PartsProofs` has one section for each of its modules.

| Theorem | Property | What makes it inductive |
|---|---|---|
| `UserNameStands` | `UserTitleIsKept` | a name the user chose with no look under way keeps looks from starting |
| `OldWordsAreLeft` | `OldWordsFade`, half of `NamesFollowTheTalk` | a clear is never later than the last event |
| `NamesMoveOn` | `NamesFollowTheTalk` | the look that names a conversation first is its oldest (`FirstLook`); the names worn are the title and, counted from the end, the names remembered, and no name remembered rewords the title, so the filter of `rememberTitle` drops none (`Remembered`) |
| `AnswersSurviveCrashes` | `AnsweredIsDurable` | what is on the disk, by what the request under way has left to do (`SoFar`); a daemon that is down does nothing; a damaged file is noticed before it is replaced |
| `TheWholeIsResumed` | `ResumesTheWhole` | no copy is longer than the conversation (`NoneIsLonger`), which settles ties of time |
| `SharingIsSafe` | `SharingLosesNothing` | some account has the last sign-in, no other one is newer, and what was read is still what is there while it is written back (`Untroubled`); entries behind a user's own link are outside |
| `RefusedTurnsComeBack` | `RefusedTurnComesBack` | every refusal is paid for: the attempts made and the windows that will still be spent at the retry are together no more than the spells of the wait and the retries that had to miss (`EachAttemptCounts`), since a retry that is planned well comes when one window fewer is spent |
| `AttachmentsGoOnce` | `AttachmentGoesOnce` | where each file is between the click and the message (`WhereItIs`), and that one not there yet is nowhere (`NotYet`) |
| `WorkingRowTellsTheTruth` | `WorkingRowIsTrue`, half of `PanelShowsTheTurn` | itself |
| `ThreadEndsWithTheTurn` | `PanelShowsTheTurn` | nothing on the screen is of a finished block, and only previews are of the block being written (`NothingOfFinished`); the previews together are the pieces heard, in order, and blocks to come have nothing settled (`HeardIsShown`) |

Their assumptions are those of the modules; that of `Transcripts` says there is a
folder, that of `Limits` that the kinds of windows are finitely many.  Where a proof needs a largest or smallest number with some
property (the newest file, the latest login) it takes it from the well-foundedness
of `<` on the natural numbers (`SmallestExists`, `LargestExists`).

Earlier forms of `RefusedTurnComesBack` excused what they should have counted.  One
held in the run only because windows were used up at most twice, another because
there were as many attempts as windows, which the code's own constants contradict.
The statement now has no such premise: it counts spells and badly planned retries
against the attempts, and the run has more kinds of windows than attempts.

Every inductive invariant but `SenderInv` was checked with TLC before it was
proved.  `TypeOK`, `ParkedHasTimer`, `SpeakingIsNotIdle`, `QueriesRunOnActive` and
the types of the other modules are proved and not checked by a run of their own.

Sequences.  `SequenceLemmas` holds what these proofs share.  The induction
theorems of the library take an operator and cannot be used; `Induction` there is
the same principle for a set of numbers (a set with 0 that contains every successor
of its members is all of the naturals), from the well-foundedness of `<`.  With it
`FlattenSeq`, which the library defines by a recursive function, is shown to be
well-defined and to satisfy `FlattenSeq(Append(s, x)) = FlattenSeq(s) \o x`.  The
filters and concatenations of the models are written with `FlattenSeq` for that
reason (`Valid`, `OthersThan`, the text of the previews).

Every safety property that a passing run checks is stated by a theorem.  Only
model-checked is liveness, because fairness and ENABLED are outside the prover:
`ParkedTurnIsSettled`, `SilentTurnIsNoticed`, `StatusWatchEnds`, `DaemonsConverge`,
`LostSocketIsRebound`, `ConvergesOnNewest`, and what `progress` checks besides
`KeepsTheStream`.  Of `UploadSucceeds` and `OnlyTheWayInIsProtected` the safety
parts are proved (`UploadsAreTheFile`, `SweepsAreRight`).

## Plan

1. Proofs: type correctness of `Login`, `Subagents` and `Heartbeat`, whose promises
   are liveness.
2. Model: `setOptions` of a session, the usage cache of the account menu, plugin
   directories in `SharedSetup`, other kinds of notices in the gateway.

## Not modelled

- Rendering of webview and sidebar: layout and sorting of what was received.
- Statistics, process tree, git and file views, syntax highlighting: read-only
  views of the machine.
- Launching Claude Code: path lookup and wording.  `Session` takes "a binary is
  found" and the kind of an error as inputs.
- Recognising a limit, an overload or a login error in the text of a result, the
  wording rules of titles, and what an import makes of a transcript: text
  processing without state.
- Downloads and static files: I/O without state.  Authentication of a phone.
- The type declarations of the protocol; messages are records of the modules that
  send them.
