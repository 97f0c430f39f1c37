# StreamLift: specifications, model checking and proofs

StreamLift downloads files for a user to a machine that is not the user's: to
Python *workers* (a Colab notebook, a server, a PC) that keep the files or
upload them to MEGA, or to a cloud backend that streams into MEGA. A Next.js
application with a Postgres database is in the middle; browsers keep a copy of
the rows in IndexedDB and decide, in a SharedWorker, when a pending row is to
be started. What has been downloaded is played in the browser or on a
television.

This directory holds TLA+ modules of the parts whose correctness depends on
the order of events, TLC configurations that check them on small instances,
and proofs, checked by TLAPS, that hold for every instance. `PROJECT.json` is
the index: which definition models which lines, which run checks what, which
change of the code each property notices, what can go wrong where, and which
theorem says what.

    tlc -workers 2 -config WorkerSlotMega.cfg MCWorkerSlot
    tlapm WorkerProofs.tla

## 1. The system

| Component | Source | State it keeps | Operations | Modules |
|---|---|---|---|---|
| Worker download engine | `python-worker/streamlift_worker/server.py`, `downloader.py`, `api.py` | `_current_task`, `_cancel_flags`, `_active_download_ids`, staging directories, download threads | start, cancel, the phases of a run, status reports | `Runs`, `WorkerSlot` |
| Dispatch | `next-frontend/app/api/worker/dispatch`, `status-update`, `heartbeat`; `public/sync-worker.js` | `file_downloads.status`, `updatedAt`, `workers.lastHeartbeat`, `dispatchInProgress` | choose a pending row, mark stuck rows, trigger, report | `Dispatch` |
| Session tokens and connections | `app/lib/sessionToken.ts`, `workerPresence.ts`, `workerConnection.ts`, `api/worker/register`, `connection`, `refresh-token` | token and expiry in the row, token in the worker, a tab's `_cache` and promises | rotate, register, clear, call with one retry | `SessionTokens`, `TabCalls` |
| Tunnel manager | `worker.py`, `tunnel/*.py`, `actions/workers.ts` | current tunnel, restart nonce, swap, watchdog threads, URL in the row | start, swap, heartbeat, register, edit, stop | `Tunnel` |
| Server downloads | `app/actions/downloads.ts`, `page.tsx`, the start routes and `progressMap` of three backends | row status, `progressMap`, runs | claim, start, run, end, revert, delete | `ServerDownloads` |
| Torrent and MEGA streams of the Express and Nest backends | `streamTorrentToMega` | store in memory, read head, timers | read, evict, fail, abort, complete | `MegaUpload` |
| Torrent engine of the Rust backend | `rust-backend/src/services/torrent` | session, connections, queue, buffers | take and give back connections, request, choke, stream | `TorrentEngine` |
| Delta sync | `public/sync-worker.js`, `app/lib/sync-worker/workerClient.ts`, `app/lib/idb/*` | cursor, `syncing`, known ids, IndexedDB, leader record | delta, full fetch, reconciliation, reset, elect, pull | `DeltaSync`, `SyncLeader` |
| Browser transfers | `workerConnection.ts` (`downloadWorkerLocalFile`), the cloud's `downloadCloudFileToDisk` | parts, controllers, write chain, reconnect slot | open, write, retry, refresh, close | `WorkerTransfer`, `CloudTransfer` |
| Worker local files | `local_files.py` | manifest, published names | publish, list, delete | none |
| MEGA sessions | `mega.py`, `api.py`, the link and report routes | `_client`, session in the row, flag | sign in, refuse, clear, report, link again | `MegaSessions` |
| Render queue | `renders.py` | jobs, dispatcher thread, directories, manifest | enqueue, cancel, encode, publish, delete | `Renders` |
| Streaming sessions | `streaming.py` | session, batch, segments, semaphore of jobs | request, batch, watch, fall back, sweep, evict | `Playback` |
| TV pairing | `app/lib/tvPairing.ts`, `tvAuth.ts`, `AppViewModel.kt` | codes, devices, tokens | start, poll, approve, revoke, call | `Pairing` |
| Accounts and web sessions | `accountAuth.ts`, `sessionAuth.ts`, `api/auth`, `api/session` | workspaces, sessions, the cookie | register, login, logout, validate | `Accounts` |
| Player and cloud playback | `components/watch/player`, `CloudMediaPlayerDialog.tsx`, `mega-stream-sw.js` | source, watchdog, position; registrations of the service worker | load, stall, seek, retry; register, probe, fall back | `WatchPlayer`, `CloudPlayback` |
| Downloads page | `page.tsx`, `AddUnifiedModal`, `actions/downloads.ts` | dialog, forms, rows | add, edit, delete | `AddDownload` |
| Workers page | `workers/page.tsx`, `WorkerDetails.tsx`, the worker dialogs, `actions/workers.ts` | selection, polls, dialogs, rows | select, save, log in to MEGA, delete | `WorkersPage`, `AddDownload` |
| Progress and status feeds | `public/sync-worker.js`, `useProgress.ts`, `useWorkerStatus` | streams, timers, followed and watched ids | follow, watch, fail over, stop | `Feeds` |
| TV application | `kotlin-tv/` | pairing state, views | pair, poll, play | its pairing in `Pairing` |
| Nest and Rust backends | `nest-backend/`, `rust-backend/` | as the Express backend | as the Express backend | twelve jobs of `ServerDownloads`, `MegaUpload`, `TorrentEngine` |
| Web user interface | `app/components/` | view state | display | none |

How they interact. A row is created `pending`. After each sync cycle a
SharedWorker asks `dispatch` for the oldest row whose destination is free, gets
the tunnel URL and session token of its worker, and posts the start to the
worker through the tunnel. The worker runs the download in a thread and reports
`downloading`, `uploading`, `completed` or `failed` to `status-update`, which
writes the row. Workers send a heartbeat every 8 s; one that is 20 s old makes
the worker offline, and a row in progress that nobody has updated for 90 s
while its worker is offline is marked failed by the next `dispatch`. A row of
the server or the cloud is claimed by a tab, which posts it to a backend; the
backend streams and writes the row itself. The copy in IndexedDB follows the
rows by deltas and reconciliations; without a SharedWorker one tab is elected
to sync. Files of a worker or of the cloud are saved in parallel parts, or
played: a worker encodes segments while they are asked for, or renders a file
beforehand; a service worker decrypts what comes from MEGA. A television gets
its token by a code that a signed-in browser approves.

What is hard: nobody holds a lock across these parts. The row, the worker's
slot and the browser's request change one after the other; reports are retried
and may arrive late or twice; the token is kept in two places that are written
one after the other; answers come to dialogs that show something else by then;
processes, tabs and service workers end between any two steps. What makes each
part correct:

- *engine*: one run per id, a run works in its own directory, the slot and the
  in-flight set are given back whichever way a run ends, `completed` follows
  delivery;
- *dispatch*: a pending row is started while its worker is there, a row whose
  run died is marked;
- *tokens*: the two copies agree unless a change was cut short, and a
  disagreement heals; in a tab a connection of another worker reaches a retry at
  most, never the cache or the first request of a call;
- *tunnel*: no tunnel is up that nobody will stop, and the row settles on the
  URL of the current one;
- *server downloads*: one run of an id unless an answer was lost, no tab takes
  the row back from a run, and a row is left in downloading in known ways only;
- *torrents*: a piece is in one place, what is delivered is whole, nothing that
  is still to be read is evicted, a download ends;
- *sync*: nothing behind the cursor is missed, the copy converges, one leader
  is left in the end;
- *transfers*: a file closed as complete is whole, and every transfer ends;
- *playback and renders*: job slots are conserved, a published segment is whole
  and is not touched while it is sent, what is offered as rendered is whole;
- *identity*: an account has one workspace, a signed-in browser stays so, the
  TV's token is its device's, an approved TV is not refused;
- *pages*: nothing on a panel is of another worker, a session belongs to the
  address beside it, a refused session is flagged, the status of a watched
  worker keeps coming, a held player is silent, what plays is registered.

## 2. Modules

| Module | Models |
|---|---|
| `Runs` | Abstract: what workers promise about download runs, without slot or threads. |
| `WorkerSlot` | The handlers, the slot, the in-flight set and the download threads of a worker. Implements `Runs`. |
| `Tunnel` | The tunnel manager, the watchdogs, heartbeats and registrations, the dashboard's edits. |
| `Dispatch` | The dispatch route statement by statement, the triggers, the reports, heartbeats, the recovery of a server backend that starts, and runs as `Runs` has them. |
| `SessionTokens` | The two copies of a worker's token, rotations and registrations. |
| `TabCalls` | Cache, shared promises and retries of one tab. |
| `DeltaSync` | Rows, routes, SharedWorker, tabs, IndexedDB. |
| `SyncLeader` | `DeltaSync`, or the fallback with an elected tab: a browser has one or the other. |
| `ServerDownloads` | One row, the tabs that claim it, the runs of a backend, `progressMap`. |
| `TorrentEngine` | Sessions, connections, workers and streams of the Rust engine. |
| `MegaUpload` | One torrent streamed to MEGA through a store in memory, Express and Nest. |
| `WorkerTransfer`, `CloudTransfer` | A file saved to disk in parts, from a worker and from the cloud. |
| `Playback` | One streaming session in one quality with everything that acts on it. |
| `Renders` | The render queue of one file. |
| `Pairing`, `Accounts` | A TV with a server and two browsers; workspaces, sessions and one cookie. |
| `WatchPlayer`, `CloudPlayback` | The player with its stall guard; the dialog of a cloud item and the service worker. |
| `AddDownload`, `WorkersPage` | The dialogs of the two pages, the rows they write, the reports in between. |
| `MegaSessions` | The MEGA session of a worker: row, process, threads, user. |
| `Feeds` | The SharedWorker's progress and status feeds. |

| Instance | Checks |
|---|---|
| `MCWorkerSlot` | `WorkerSlot` with the symmetry of thread names |
| `MCWorker` | `WorkerSlot` and `Tunnel` |
| `MCDispatch`, `MCSessionTokens`, `MCSyncLeader` | one module each |
| `MCMedia` | `Playback` and `Renders` |
| `MCTransfers` | `WorkerTransfer` and `CloudTransfer` |
| `MCTorrentEngine` | `TorrentEngine` and `MegaUpload` |
| `MCPage` | `WatchPlayer`, `CloudPlayback` and `ServerDownloads` |
| `MCIdentity` | `Accounts` and `Pairing` |
| `MCWeb` | `MCIdentity`, `AddDownload`, `WorkersPage`, `MegaSessions`, `TabCalls` and `Feeds` |

Where an instance lists several modules that share no state in the code, a
behaviour is one of one of them and the variables of the others stay as they
start. `SyncLeader` over `DeltaSync`, `WorkerSlot` under `Dispatch` (through
`Runs`) and `MegaUpload` beside `ServerDownloads` are real compositions or stand
for one: `Dispatch` uses a run as `Runs` says and `WorkerProofs` proves
(exclusive, its reports in order unless the sender has given one up, which may
then arrive late), so that threads, slot and staging do not appear in it. A
worker of `Dispatch` may start runs of two ids together, because
`OneTaskAtATime` does not hold of the code.

The eight proof modules are described in section 5.

### The worker

`WorkerSlot`:

| Variable | In the code |
|---|---|
| `task` | `_current_task`, its keys `id` and `status`; `"progress"` stands for a progress key in a dict without id |
| `cancel` | `_cancel_flags` |
| `active` | `_active_download_ids` |
| `thread` | the point a download thread has reached, its id, the report it is posting |
| `staged` | `.partial/<id>`: which thread made it, or `"stale"` after a restart |
| `delivered` | what is in the downloads folder or on MEGA (history) |
| `row` | the status column |
| `writes` | writes of the row under way that no thread waits for: reports whose sender timed out, and the marks of the backend |
| `stopping` | `api.stop_event` |

The handlers of `server.py` are coroutines without an `await` between the test
and the last assignment, so each is one step of the event loop. A download is a
thread and stops between any two steps. `Report` sets what the thread posts and
where it goes on; the post is applied and answered (`PostApplied`), given up at
last (`PostLost`), or refused with a 401 (`PostRejected`), after which
`sys.exit` unwinds the thread through its `finally` blocks. A post that is not
answered in time is sent again while the first request stays under way
(`PostTimesOut`). It is applied later, also after newer reports and after the
run is over, or lost (`WriteArrives`). Workers are not alone in writing the row:
dispatch, or a server backend that starts, reads it in progress and marks it
failed by its id, whatever it holds by then (`BackendMarks`). `Runs` promises
what is left in the presence of these: a row gets a status only from a report of
a run, at once or later, or the mark "failed", and "completed" arrives of
delivered ids only. The two handlers differ where the code does: the HTTP one
stages before it fills the slot, the torrent one looks for `aria2c` first and
clears the slot itself when there is none. `Restart` empties the memory and
leaves the directories.

`Tunnel` numbers URLs, a new number for every process that gets one. Each
tunnel has a watchdog thread; a swap has its own steps (spawn, wait for a URL,
register, stop the old one), between which the old process may end, the
provider may evict it, the user may ask again or stop the worker. How a
provider prints its URL is one step.

`Playback` has a pc per thread: the requests, the pre-roll and the prefetch,
the quality switch, the reaper, the batch's watcher. A thread holds the
session's `batch_lock` exactly in the pcs `Holding`. Of a segment it matters
whether it is absent, being written, whole or broken by a stream copy.
`Renders` makes everything under `_lock` one step; what the one dispatcher
thread does is a step per file system call that a crash may separate: segments
are moved one by one, and `rmtree` of a quality, for a delete or before it is
rendered again, removes file by file in any order (`DeleteRemoves`,
`ClearRemoves`) before the directory itself goes (`Clear`). The removal of the
whole store happens under the lock, so that only a crash can show a part of it
(`StoreCutShort`). `torn` is history: the qualities whose removal a restart cut
short with the last segment still there.

`MegaSessions` keeps, of a session, which one it is and whether MEGA accepts
it. The two requests of an expiry (clear the row, tell the dashboard) may fail,
or be applied when the worker has given them up.

### The middle

`Dispatch` makes each database statement of the route an action, because others
run between them: `ReadActive`, `ReadHeartbeats`, `MarkStuck` (one row at a
time, by id only, as the loop does), `ReadPending`, `ReadBusy`, `Choose`.
`disp[b]` holds what the request of the SharedWorker `b` has read so far. Times
are abstracted to what the thresholds tell apart: `old` (90 s without an
update) and `online` (20 s since the heartbeat). `triggers[d]` counts start
requests under way, `stray` holds status requests whose sender has stopped
waiting. `uploading` is not told apart from `downloading`, as the route does
not. `BackendStarts` is the recovery of the three server backends: at startup
they mark every row in downloading failed, also those of workers, which go on;
it hits any set of the active rows, since those in uploading are spared.

`SessionTokens`: `token` is the worker's `_session_token`, `row` the three
columns, `rot` and `reg` the requests: `asked` (posted to the worker), `took`
(adopted there), `accepted` (answered), `saved`; `posted` and `stored` for a
registration, which goes the other way round. `late` is a request nobody waits
for any more. `torn` and `alone` are history: a worker is torn when the last
change of its token was cut between the two sides, or overlapped another.
Tokens are only compared, so a random token is some token nobody holds.

`ServerDownloads` has one id, because ids share no state. The record `job` names
the backend, the source and the destination, and with them which tests a start
makes and what an error leaves behind; `env` is the set of faults that may
happen (lost answers, a failing database, closed tabs, restarts, a deletion).
`Restart` is the same for the three backends: each marks the rows in downloading
failed before it lets requests in (`recoverStaleDownloads` of Express and of
Nest's `app.module.ts`, `recover_stale_downloads` of Rust), and only logs when
the database refuses; a start that a tab has sent may be handled after it.
`MegaUpload` is what such a run does when it streams a torrent to MEGA: the
store keeps `held` pieces, evicts behind the read head of a file, and ends once,
by success, error, timeout or abort. `TorrentEngine` keeps for a piece where it
is (the queue, a worker, delivered) and which of its blocks are in the buffer; a
connection delivers blocks in any order, also old ones to a later reader.

`Accounts` and `Pairing` make every SQL statement a step. Requests carry the
cookie or the token of the moment they were sent, and one that nobody waits for
is served all the same.

### The browser

`TabCalls`: `cache` is `_cache`, `fetching` is `_connectionInFlight`, `refresh`
is `refreshInFlight` with the point `doRefreshToken` has reached, and `caller`
what each `callWorker` awaits. The tab has one thread, so what stands between
two `await`s is one action: the answer of a fetch is cached, the promise
forgotten in `finally` and the waiting callers resumed together. Of a
connection the model keeps the worker it leads to and how good it is (`fresh`,
`stale`, `overtaken` by this tab's own refresh, `dead`). The refresh is one for
all workers, so that callers of another worker are resumed with its connection.

`DeltaSync`: a row is a version and its `updatedAt`; a transaction may commit
after a later `updatedAt` was read (`late`). `fetch` is what a route has read,
`inbox` what a tab still has to write, `idb` the copy. The cursor a tab declares
is the epoch or nothing, as `saveCursor` stores it under a key no declare reads.
A failed reconciliation still advances the count, so the next one is
`RECONCILE_EVERY` syncs away; `unnoted` remembers that rows were broadcast, or
seeds of tabs dropped, without their ids being known to the worker.
`SyncLeader` adds the leader record, claims of several tabs, pulls, and tabs
that close, crash or are throttled; reading and writing the record are two
steps. Any number of tabs may take themselves for the leader, and their syncs
overlap. `setBack` remembers the rows over which one of them put an answer that
was older than what the other had put.

`WorkerTransfer` and `CloudTransfer`: a part is a run (a coroutine) per
generation, the chunks it has received and what was written at each position.
The cloud writes through one chain of promises. `WatchPlayer` queues the events
of the media element as HTML describes it and counts positions in stretches
longer than the buffer the watchdog wants. `CloudPlayback` numbers the runs of
the page's effect; messages to the service worker arrive in order, and the
browser may stop it when it is idle, with its memory.

`AddDownload` and `WorkersPage`: a form is the state of a mounted component,
closing it drops what it waited for; the two large dialogs of the workers page
stay mounted and outlive their being closed. `Feeds` handles a tab's message
and a broadcast in the step that sends it; the answer of a fetch comes later.

## 3. Runs

| Run | Properties | Question | Bounds |
|---|---|---|---|
| `slot_mega` | `StagingIsOwn`, `SlotHasOwner`, `ImplementsRuns` | Do racing starts, cancels, lost reports and restarts keep runs exclusive, directories private and the slot owned, and what may still happen to a row? | 2 ids, one a torrent, 2 threads; either both with reports answered in time, or one with up to 2 writes of its row under way (`MaxWrites`) |
| `worker` | `NoStrayTunnel`, `Settles` | Is every tunnel stopped by somebody, and does the row end with the URL of the current one? Beside it, a worker that keeps its files. | 3 tunnels, `MaxUrl` 6, 1 nonce, 1 process that ends by itself; 1 torrent and its duplicate |
| `dispatch` | `PendingStarts`, `OrphanIsMarked` | Does a pending row start? Is an orphan marked? | 2 rows of one worker that crashes and comes back, 1 trigger per row, 1 row with a late report |
| `session_tokens` | `AgreeUnlessTorn`, `DispatchGetsThrough` | Do row and worker agree? Is dispatch locked out by a wrong token? | 1 worker, 2 routes that rotate, 1 thread that registers, 5 tokens |
| `sync_leader` | `NothingBehindCursorMissed`, `Converges`, `OneLeaderInTheEnd` | Does the copy follow the rows, with and without a SharedWorker, when fetches fail and tabs sync beside each other? Is one leader left? | 1 row, 2 tabs, reconciliation at every other sync, clock and versions up to 2; failing fetches with restarts, or resets; without a SharedWorker failing fetches with throttled tabs, or with nothing written |
| `media` | `SlotsConserved`, `PublishedIsWhole`, `NotUnderAReader`, `ReadyIsWhole`, `JobEnds` | Are job slots conserved and segments whole, while everything acts on one session? Is what is offered as rendered whole? | 2 segments, 1 request, 0 to 2 slots, 2 attempts; 2 qualities, 1 delete at a time, 2 jobs, a restart anywhere |
| `transfers` | `FilesAreWhole`, `TransfersSettle` | Is a file closed as complete whole, and is there an end? | parts of 2 and of 1 chunk, 2 attempts, 2 restarts, 1 click, 1 abort |
| `torrent_engine` | `PieceInOnePlace`, `FilesAreWhole`, `DownloadsEnd`, `AheadIsHeld`, `CompletedIsWhole` | Is no piece lost, fetched twice or evicted too early, and is what ends as complete complete? | 2 peers, 2 pieces of 2 blocks, 2 downloads to the disk or a stream; 3 files that share a piece, 4 selections, buffer 1 |
| `web` | `OneWorkspacePerAccount`, `SignedInUnlessCrossed`, `TokenIsCurrent`, `NotRefusedOnceApproved`, `FeedsAreKept`, `ActiveHasWorker`, `LiveIsOfWorker`, `SessionIsOfEmail`, `UnlinkedIsFlagged`, `OnlyRetriesStray` | Do overlapping and late requests of browsers, televisions, tabs and workers leave identities, panels, sessions and feeds right? | 2 of everything that can overlap (requests, accounts, workspaces, codes, links, machines, logins, threads, calls, tabs), 3 sessions, 1 worker to delete |
| `page` | `HeldIsSilent`, `PlayedIsRegistered`, `NothingLeft`, `PlaysOn`, `OneRunIfAnswered`, `StuckOnlyBy` | Does playback go on, and is nothing left behind? Has a server download one run, which no tab takes back? In which ways is a row left? | 3 stretches, 1 act of the viewer, 1 retry; 2 items, 4 runs of the dialog, 1 stop of the service worker; 2 tabs, 2 starts, 12 jobs, with no fault, restarts only, all faults, all but lost answers |
| `identity_expiry` | `PermanentStays` | "Permanent account workspaces stay permanent." | **violated** |
| `web_uploading` | `WorkingHasWorker` | "Cannot delete a worker with active downloads" | **violated** |

Why the bounds are enough. Each safety property speaks of one thing (an id, a
row, a segment, a part) and of at most two actors that race for it; two actors
and, where a bystander matters, one more value give every order in which they
can meet, and the proofs of section 5 say the same for all values. Bounds by
name:

- `Threads` bounds the threads alive together, `MaxTriggers` the requests under
  way for a row, `LateRows` names the rows that may have one late report,
  `Limit` is the page of 20 rows; the run has fewer rows than the page holds.
- `Tokens` bounds the tokens in circulation: worker, row, two routes and one
  handler hold at most five. Workers share only `StaleCleared`, which treats
  each by itself.
- `MaxUrl`, `MaxNonce`, `MaxExits` bound processes that got a URL, requests of
  the dashboard and processes that end by themselves: with three tunnels there
  is one current, one being swapped in and one old.
- `MaxTime`, `MaxVersion`, `MaxFetches`, `MaxInbox` bound the clock, the changes
  of a row, the fetches under way and the broadcasts a slow tab has not handled.
  A row that changes twice around one sync is what every race of the cursor
  needs.
- `MaxWrites` bounds the writes of rows that nobody waits for: two can overtake
  each other and the reports of the run. `worker`, which asks about tunnels, has
  none.
- `MaxAttempts`, `BackoffAfter`, `MaxRestarts`, `MaxErrors`, `PipelineMax` are
  constants of the code, with smaller values: at, below and beyond each limit
  is reached.
- `MaxClicks`, `MaxAborts`, `MaxRefreshes`, `MaxQueued`, `MaxActs`, `MaxRetries`,
  `MaxRuns`, `MaxWorkerStops`, `MaxStarts`, `MaxAdds`, `MaxLinks`,
  `MaxApprovals`, `MaxPairings`, `MaxAnswers` bound what users and the outside
  do; once they are used up the system runs to its end.
- `Envs`, `FallbackEnvs` and `Jobs` choose, at the start of a behaviour, which
  faults may happen: all of the sets named in the MC modules are explored.

`CHECK_DEADLOCK FALSE` stands where the system may stop: everything is done and
the bounds are used up. It is not set in `slot_mega`, `dispatch` and `media`.

The two violated runs are the findings of `PROJECT.json`:

- *identity_expiry*: the next expiry of a workspace is computed from a row read
  earlier and written by id (`sessionAuth.ts:107`, and the same in
  `tvAuth.ts`). A request that read the workspace while it was anonymous and
  writes after the registration gives the account's workspace an expiry again.
- *web_uploading*: `deleteWorker` (`workers.ts:347`) looks for pending and
  downloading rows; one that is uploading loses its worker, the report that
  ends the upload is refused, and the row stays in uploading.

Other disagreements were seen while modelling. They are kept as definitions,
violated by what the code does, and are listed in no run:

| Definition | What the source says | What happens |
|---|---|---|
| `OneTaskAtATime` | `server.py:846` "Only one task may run at a time." | The slot is tested by the handler and filled by the thread. |
| `NoDoubleTrigger` | `sync-worker.js:703-704`, no double-triggering | `dispatchInProgress` is reset before the trigger is posted. |
| `MarkHitsActiveRow` | `dispatch/route.ts:41-42`, only active rows are marked | The rows were read earlier, the update names only the id. |
| `AvailableIsRead` | `dispatch/route.ts:134`, the first row with an available destination | The page of 20 may hold only rows of busy workers. |
| `StartMarksStale` | `express-backend/src/index.js:33-34`, rows in downloading at startup "were in-flight when Express last stopped" | They may be of a worker, which goes on and has its row failed under it. |
| `Clean` | `sync-worker.js:57-59`, the ids are gathered "so no orphan is missed" | When the first reconciliation fails the seeds of the tabs are dropped, and rows broadcast by a sync whose ids could not be fetched are not noted: if they are deleted, they stay in the copy until the SharedWorker starts anew. |
| `ReadyIsFull` | `renders.py:231`, "fully rendered" | Only the last segment is looked at; a restart in the middle of the removal of a quality may leave it alone. |
| `TokenIsCurrent` without `unheard` | `tvPairing.ts:184`, a fresh token on each approved poll "makes a lost response safe" | A poll that the TV has given up and that is answered late issues a token as well, and with it ends the one the TV holds. |
| `CallReachesItsWorker` | `workerConnection.ts:409` | One `refreshInFlight` for all workers: the retry may go to another one. |
| `RetryIsNotOvertaken` | `workerConnection.ts:358-359` | A 401 that arrives after the shared rotation rotates again. |
| `OneRun` | the tests of `progressMap` | A lost answer and the await between test and set give two runs. |
| `NeverOverwritten` | `_ensure_batch`, "Never overwrite an artifact" | The segment is not looked at again after the join. |
| `NeverLosesAccess` | `register/route.ts:34-35` | A logout or login that overlaps ends the new session. |
| `OnlyGoneRowsLeave` | reconciliation removes deleted rows | A reset during a sync lets a row go that is there. Proved without resets. |
| `OnlyConsumedEvicted`, `BufferIsBounded` | `streamTorrentToMega.js:404`, `:424` | Files selected in another order evict pieces ahead; several read heads hold more. |
| `RunningIsLeftAlone` | "Cannot edit a download that is no longer pending" | The row starts between the test and the update. |
| `StatusIsOfWorker` | `workers/page.tsx:52` | The old status is shown until the new stream says something. |
| `FreshIsKept`, `FlagIsOfStored` | `mega.py:315` | The clear is not conditional on the session that was refused. |
| `WatchedByAny`, `FollowedIsFed` | `sync-worker.js:587`, `useProgress.ts:6-7` | There is no count of watchers: one tab stops what another follows. |
| `PlayedStaysRegistered` | `CloudMediaPlayerDialog.tsx:124-128` | A cancelled run unregisters the item of its successor. |
| `EndIsReached`, `PauseHolds`, `PositionOutlivesSource` | `MediaPlayer.tsx:934-935`, `:376-378`, `:1102-1111` | The last stretch is shorter than the buffer asked for; a resume undoes a pause; a teardown resets the position first. |

Smaller observations: the branch of `page.tsx:261` ("Download not found") and
`startWorkerPoll` of `sync-worker.js` are dead code; the catch block of the
Express upload calls a function declared inside the `try`; late metadata makes
Nest write `downloading` over `failed`; `AddWorkerModal` keeps its fields after
a create; the restart message of `WorkerDetails` is not keyed by worker; a
cancel that comes after the last look of a run leaves its flag set
(`server.py:915`), and the next run of the id is cancelled at its first.

## 4. Fairness

- `WorkerSlot`: each phase of a thread ends, because `requests.get` has a
  timeout, `aria2c` a `--bt-stop-timeout`, and `_post` a fixed number of
  retries. Whether by success or failure is open. Nothing is assumed of
  requests, cancels or crashes. No run asks a liveness question of it.
- `Tunnel`: watchdogs, the swap, the heartbeat and its answer or loss, the
  retry time and a begun edit go on (weak fairness). Strong fairness of
  `GetsUrl`, `SwapSpawns`, `SwapGetsUrl` and `BeatAnswered` says that a provider
  or the backend does not fail for ever; without that no URL can be expected.
- `Dispatch`: the route's steps end. A SharedWorker runs the dispatcher after
  every sync cycle, and triggers, reports and answers are repeated when they
  fail; strong fairness of `Choose`, `Accept` and `ReportApplied` says that not
  all repetitions fail for ever. With no open browser nothing is dispatched, in
  the code as in the model. Workers that are down go offline.
- `SessionTokens`: dispatch keeps asking and is now and then answered in time
  (strong fairness), a request does not stay under way for ever, the four hours
  pass. Nothing is assumed of other routes, registrations or restarts, and
  `DispatchGetsThrough` excepts states in which they are busy.
- `SyncLeader`: intervals fire (weak fairness of `RunSync`, `Evaluate`,
  `Heartbeat`), requests end, an open tab handles its broadcasts. Strong
  fairness of a `WriteRecord` after which no tab is about to write: the reads
  and writes of two tabs, milliseconds apart on timers of seconds, do not
  interlock for ever. `Converges` presumes in its statement (`Calm`) that from
  some time on no fetch fails and the SharedWorker is not started anew; failures
  and restarts before that are free.
- `Renders`: the dispatcher thread goes on, or what it runs fails.
- `TorrentEngine`: workers, disk downloads and the stream go on, with no
  fairness on reads: a peer may be silent for ever, the timeout is not.
- `WorkerTransfer`, `CloudTransfer`: the polling loop and every coroutine go on;
  the write chain is served. A single stream that is refused may stay open.
- `WatchPlayer`: the media element loads, seeks, shows frames and dispatches its
  queue; timers fire. Time passes only when the queue is empty, as a task
  takes no time against the seconds of the watchdog. What the viewer does is
  not assumed.
- `CloudPlayback` and `ServerDownloads`: the page, the service worker's answers
  and the steps of a backend's run go on; a stream to the player need never
  become ready, and nothing is assumed of faults. Their properties in `page` are
  safety; the fairness is that of the specification the run checks.
- `MegaUpload`, `Playback` and the parts of `web` have safety properties only and no fairness.
- Where an instance has several components, the one that a behaviour is not of
  rests in a state in which no action that is owed fairness is enabled.

## 5. Proofs

The proofs hold for all values of the constants that the assumptions allow. An
assumption says only what the constants are (bounds are numbers, the value for
"none" is not among the others, a torrent's files lie in its pieces); TLC
evaluates them on every run. Every safety invariant and every action property
of a passing run is a theorem; each but type correctness needs an invariant that is
stronger than it.

| Module | Theorems of properties | Others |
|---|---|---|
| `WorkerProofs` | `StagingIsNeverShared`, `SlotIsNeverLatched`, `WorkerImplementsRuns`; `NoTunnelStrays` | `TypeCorrect`, `RunsAreExclusive`, `InFlightIsExact`, `CompletedMeansDelivered`, `TunnelTyped`; `DispatchTyped`, `PageSuffices`, `OrphanIsFreedBy` |
| `WebProofs` | `CopiesAgree`, `RetriesStrayOnly`, `FeedsKept`, `UnlinkedFlagged`, `LiveOfWorker`, `SessionOfEmail`, `ActiveKeepsWorker` | `TokensTyped`, `NullTokensExpire`, `TabTyped`, `InfoOfSource` |
| `IdentityProofs` | `OneWorkspace`, `StaysSignedIn`, `TokenStaysCurrent`, `ApprovedIsNotRefused` | `AccountsTyped`, `PairingTyped` |
| `MediaProofs` | `SlotsAreConserved`, `PublishedStaysWhole`, `SentIsNotTouched`, `ReadyMeansWhole` | `PlaybackTyped`, `RendersTyped` |
| `PageProofs` | `PlayedRegistered`, `ClosedLeavesNothing`, `OneRunOfAnId`, `StuckInFiveWays`, `HeldSilent` | `CloudTyped` |
| `TorrentProofs` | `PiecesPlaced`, `DeliveredWhole`, `NothingAheadIsEvicted`, `CompletedHasAll` | `TypeCorrect`, `OnlyLateReopens` |
| `SyncProofs` | `BehindCursor` | `BrowserTyped`, `OnlyGoneRowsLeaveUnlessReset` |
| `TransferProofs` | `TransferredFilesAreWhole` | `OneWorksOnAPart` |

**WorkerSlot.** `Inv == TypeInv /\ ClaimInv /\ PhaseInv /\ StagingIsOwn /\ SlotInv`.

- `ClaimInv`: the in-flight set and the claims are the same and no two threads
  share one; each direction is needed to keep the other when an id is released;
- `PhaseInv`: only torrents are at `aria2` or `abandon`, only MEGA workers at
  `upload`, and a `completed` in transit is delivered already. Without it the
  directory of a thread that leaves `post` and the status of the row are open;
- `StagingIsOwn` is preserved because the ids of two claims differ;
- `SlotInv` strengthens `SlotHasOwner`: a slot with an id belongs to a thread of
  that id which still has to leave its `finally` blocks, a slot without an id to
  a thread that wrote a key into the emptied dict.

`WritesOk` says of the writes under way that they may be made at any time: none
brings a row back to pending, and a "completed" is of what has been delivered,
which stays delivered. The refinement follows: steps of the in-flight set are
`Start` and `End`, `Publish` and `UploadDone` are `Deliver`, an applied report is
`SetRow`, one that is not answered `Delay`, the backend's mark `Doubt`, a write
that arrives or is lost `Arrives`, `Restart` is `Crash`, everything else
stutters. **Tunnel**: `SwapHolds` says
which tunnels the swap owns at each of its steps, `AllHeld` that a tunnel that
is up or about to start is owned or marked as revived, `UrlTold` ties URLs to
processes. **Dispatch** (an instance of the module inside `WorkerProofs`): rows
do not return to pending, so what a request has read covers what is pending
until it answers; hence `AvailableIsRead` when the page is as long as the table
(`PageSuffices`): the limit is the only cause of its violation. Both of its
checked properties are liveness; `OrphanIsFreedBy` is the safety side of
`OrphanIsMarked` and of the exception in `PendingStarts`.

**SessionTokens.** Per worker `Alone /\ Carried /\ Agrees`: a request marked
alone has no company; the side such a request has changed still holds its token;
with no half-done change the copies agree. A step changes the entries of one
worker, and `WorkerFrame` says the others keep their part. **TabCalls** adds
`Shape`: a promise that is there has its worker, and its answer is about that
worker; what a caller keeps after a shared fetch is then of its own worker, and
only the shared refresh hands one to others. **WorkersPage**: `PanelHolds` (a
poll under way for the selected worker is the latest), `SessionsOwn` (a session
in a dialog was minted for the address in its field). **AddDownload**: `PageInv`
and `RowsInv`; the second relates what `deleteWorker` has read to what rows may
become after it. **MegaSessions**: a thread that will clear or report accounts
for a missing flag. **Feeds**: `FeedsAreKept` is inductive as it stands. It says
that what has a stream is tracked by it and that the status of a watched worker
comes; that every followed download is fed is not true of the code
(`FollowedIsFed`).

**Accounts.** `Requested`, `Owned` and `NewIsOwn` say what a request that waits
between two statements knows of the row it has read or made; `OpenOnLogin` and
`Harmless` that the other requests end no session of the browser. **Pairing**:
`Coded`, `Unapproved`, `OldIsLost`, `Polled`, `AnswerHolds`, `TokenHolds`,
`Shown` and `Refused` follow a code from its start to the token, on the server,
in the answer under way and on the TV.

**Playback.** `Control` (who holds the lock, which job holds a slot, where a
batch stands) and `Data` (what that says of the files). The count of slots is
an equation between what is free, what pcs hold and what the batch holds.
**Renders**: `Book`, `Apart` and `Store`: the job that runs is one, it runs
apart from deletes of its quality, and its progress is what is in the store. In
`Store`, `LastIsLast` says that a directory with the last segment has them all,
unless its removal goes on or was cut short (`torn`).

**CloudPlayback.** `RunState`, `WaitState`, `BoxState`: what each run, its wait
and the messages to the worker may be; `KnownIsOpen` and `OpenIsKnown` relate
the worker's memory, after the messages in the queue, to the open item.
**WatchPlayer**: `Behind` says that while the watchdog holds and the element
plays, an event or promise is queued whose handler pauses it again.
**ServerDownloads**: `OneHolds` counts the pending row, the claims of the tabs
(one that is going to revert its claim too), the starts and the runs as one.
`StuckOnlyBy` is proved from the steps alone, with types.

**TorrentEngine.** `WorkersOwned`, `Placed`, `ResultsCome`, `StreamSends`: a
connection is in the session or with one worker of a running download, and each
piece is counted where it is. **MegaUpload**: `DoneSoFar`, `EndsOnce` and
`AheadIsHeld`, which is inductive because files in ascending order make the
frontier monotone.

**DeltaSync and SyncLeader.** Under a SharedWorker the invariant is `SyncInv`:
`Lines` (one sync at a time; a fetch, the broadcasts and the copy are in order,
each row of the copy is accounted for) needs no assumption about resets;
`Course` (the cursor is that of the last fetch that was told, what was read
behind it is under way or there) assumes, like the property, no late
transaction, slow tab or reset. In the fallback `LeadInv` says that every cursor,
the saved one, the one a sync began with and the one it is to save, `Covers`
what it should, for any number of tabs whose syncs overlap. The later of two
syncs saves its cursor over the work of the other; what it put as it was before
the other's newer answer is in `setBack`, the one exception of the invariant.
`SyncManager.ts` has no guard against it, and such a row may stay old in the copy
until it changes again.

**Transfers.** `WorkerInv` has types, flags that belong to the live coroutine
(`HasFlags`), a stream that stands at `receivedBytes` (`AtReceived`) and nothing
at a wrong position (`Sound`). `CloudInv` says that a file that is being closed
has received everything, and for each part that was not overtaken that what
waits in the chain are its next chunks in order (`InLine`), before those that
the stream is going to give (`InFlow`).

What stays with TLC: liveness and `ENABLED` (`Settles`, `PendingStarts`,
`OrphanIsMarked`, `DispatchGetsThrough`, `Converges`, `OneLeaderInTheEnd`,
`JobEnds`, `TransfersSettle`, `DownloadsEnd`, `PlaysOn`), which is out of the
prover's reach; induction over data, for which the prover cannot instantiate the
library's theorems. The modules have no `RECURSIVE` operator.

## 6. Not modelled

- `local_files.py`: sequential file system code; its one interleaving, with a
  publication, is a step of `WorkerSlot`. The rest of the web interface:
  rendering and local state.
- In `WorkerSlot`: byte counts, speeds, file names, the selection of a torrent's
  files.
- In `Dispatch`: titles, payloads, the counters of `status-update/route.ts`
  (that a repeated `completed` counts twice is plain from the code).
- In `ServerDownloads`: metadata that comes late, which `MegaUpload` has, and a
  tab that writes "failed" when the progress feed reports an error
  (`page.tsx:246-259`). In `MegaUpload`: files of no bytes. In `TorrentEngine`:
  trackers, the DHT, metadata, the clean-up of idle sessions, the MEGA client.
- In `DeltaSync`: sessions and several workspaces, the boot debounce (any order
  of steps covers it). In `CloudTransfer`: cancelling and disk errors. The
  single-stream path of small files in both transfers.
- In `Playback`: audio renditions, the progressive MP4, a source that is
  replaced, thumbnails, subtitles.
- In `Pairing` and `Accounts`: passwords, rate limits, the expiry of a TV's
  workspace, the pull of a new workspace's rows.
- In `WatchPlayer`: refused autoplay, native HLS. In `CloudPlayback`:
  back-pressure, ranges and their decryption, quota.
- In `AddDownload` and `WorkersPage`: lost answers of edits and saves, the
  restart message of a tunnel. In `MegaSessions`: the session that a worker
  with credentials saves, the older table of sessions, a retry of the clear that
  is applied late. In `Feeds`: downloads by
  workers, percentages.
- Outside: WebTorrent with its cache, megajs, ffmpeg, aria2c, the tunnel
  providers, the media element and hls.js appear as what they may do to the
  code. Encryption, geo-IP and logging do not touch the state above.

## 7. What is left

- A simulation of `Runs` by the runs of `Dispatch`.
- The liveness properties, for which a prover with fairness would be needed.
- `local_files.py`, the playback of the TV application, transfers of small files.
