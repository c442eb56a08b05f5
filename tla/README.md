# A TLA+ model of Face Biometric Attendance

This directory models the attendance system: the API (`attendance-api`, NestJS on
PostgreSQL, Redis and an object store) from its start to its handlers, the mobile
application (`attendance-app`, React Native) with its storage, screens and
cameras, and the camera of the web kiosk page that the API serves
(`attendance-api/public/index.html`). TLC checks small instances of every module;
TLAPS proves what matters most about eight parts for every value of their
constants.

Paths below are relative to `src/`; `API` is `attendance-api/src`, `APP` is
`attendance-app/src`.

## 1. The system

### Components, their state and their operations

| Component | State it keeps | Operations that change it | Modelled in |
|---|---|---|---|
| Attendance punches (`API/attendance`) | table `attendance_logs` | `create` (POST /attendance), `recordAutomatic` (POST /attend/kiosk) | `Attendance`, `PunchBook` |
| Roster (`API/attendance/roster.ts`) | none: a function of the rows | read only | `Reports` |
| Face enrollment (`API/recognition/templates.service.ts`) | `face_templates`, files under `enroll/`, CompreFace subjects | `enroll`, `reset` | `Enrollment` |
| Storage and retention (`API/storage`, `API/common/retention.service.ts`) | files | put, remove, the nightly `deleteOlderThan` | `Enrollment` (as used by it) |
| Regularization requests (`API/regularization`) | `wfh_regularization_requests` | create, approve, reject, cancel; the geofence gate reads it | `Regularization` |
| Self-registration (`API/auth/auth.service.ts`) | one pending record per address in Redis; `users`, `employees` | start, resend, verify | `Registration` |
| Sign-in and refresh (`API/auth`, `API/redis`) | failure counts and refresh tokens, in Redis or in memory | login, refresh, the fallback | `Session` |
| Employee administration (`API/employees`) | `employees` | create, update (a read and a save), remove (three statements) | `Identification`; the statements of remove are steps of each module they race with |
| Identification (`API/recognition/recognition.service.ts`) | the metrics; reads templates, employees, CompreFace | identify, kiosk identify, verify, bound and unbound | `Identification` |
| Start-up and schema (`API/main.ts`, `API/database`, `onModuleInit`s) | the schema, its indexes and checks, the administrator | the statements of a start, which may stop anywhere | `StartUp` |
| Mobile storage, shell, Settings (`APP/services/storage.ts`, `App.tsx`, `SettingsScreen.tsx`) | token and settings, on disk and cached; role and tab | login, bind, logout, save, refresh of the role | `MobileShell` |
| Attendance screen (`AttendanceScreen.tsx`) | period, rows, a cache that outlives the screen | load, pick a period, pull down, midnight | `RosterScreen` |
| Enroll screen (`EnrollScreen.tsx`) | selected employee, list, pose, working mode | capture, reset, select, search, set the mode | `EnrollScreen` |
| Regularize screen (`RegularizationScreen.tsx`) | form, rows, request in flight | submit, approve, reject, cancel, load | `RequestsScreen` |
| Camera of a phone (`CameraView.tsx`, `VisionNativeCamera`) | permission, device, poll, preview | device effect, listener, events, tabs | `NativeCamera` |
| Mobile offline queue (`APP/services`, `APP/screens/KioskScreen.tsx`) | `offline_queue` on the phone | capture, enqueue, flush | `OfflineQueue` |
| Camera broker (`API/camera`) | one capture process, its streams, a stop timer | subscribe, unsubscribe, process events | `CameraBroker` |
| Camera of the web kiosk page (`attendance-api/public/index.html`) | the flags of each window, the camera | open, stop, yield, takeover, retry | `KioskCamera` |
| Camera of the app in a browser (`CameraView.tsx`, `WebCamera`) | the run of an effect in each window, the camera | acquire, release, poll, messages | `WebCamera` |
| Geofence, shifts, devices, roles, exports, camera scripts | see section 8 | | not modelled |

### How they interact

* The handlers of the API run in one Node process: between two `await`s nothing
  else runs, at an `await` every other handler may. There is no transaction
  around a check and the write that relies on it (the one exception is the
  account transaction of registration), so each module gives a handler one
  action per stretch between two awaits. That is where most of the hard
  behaviour is.
* `Attendance`, `Enrollment` and `Regularization` share the employees with
  Employee administration: a removal deletes punches, templates and then the
  row, and a handler that has looked the employee up before goes on.
* A clock-in outside the office asks `Regularization` for an approved request
  of the day (`HasApprovedWfh`), and the roster counts approved `mark_present`
  requests (the argument `marked` of `Reports`).
* The mobile app replays saved punches against `create`; `OfflineQueue` uses
  the server as the atomic book that `PunchBook` states.
* `CameraBroker` is the server side of `/camera/mjpeg`; `KioskCamera` sees it as
  one more user of the camera.
* `Identification` reads what `Enrollment` and Employee administration write; a
  query of a probe interleaves with every one of their changes.
* `Regularization` relies on the unique index that `StartUp` builds, drops and
  builds again while another process may serve.
* In the app, `RosterScreen` extends `MobileShell` (its screen is mounted by the
  role, its cache outlives a logout) and `EnrollScreen` extends `NativeCamera` (it
  captures only after `onReady`). `RequestsScreen` sees `Regularization` as the
  status of a request and the check of a date.

### What is hard about it, and what makes it correct

| Component | Hard behaviour | Correct when |
|---|---|---|
| Attendance | check and insert are separate awaits; a request straddles midnight; `repo.save` re-inserts a deleted row | a day has one punch of a type, unless two requests for it overlapped; a removed employee leaves no row |
| Enrollment | three stores without a transaction; calls that fail half-way; similarity check before the write | a template's photograph exists; no orphans and no look-alike poses without a race |
| Regularization | read-modify-write with column-wise `save` | one active request per day and type; a decision is final and whole unless two raced |
| Registration | stale records written back; codes and mails out of order; unique numbers | the newest code works; an account gets the password of the code that was entered; codes are tried a bounded number of times |
| Session | counters and one-time tokens without atomicity; the store in use may change | a lockout bounds wrong passwords, a token is used once, a session is not lost |
| Offline queue | lost and late answers, a killed app, two users of one stored array | nothing saved is lost; one press gives one row unless something went unheard |
| Camera broker | exits reported late, one flag for all of them, a timer racing a new client | one camera process, none without a client, waiting clients are answered |
| Identification | four queries without a transaction; CompreFace keeps a removed employee's photographs; `save` of an entity read before | an accepted probe names the person in front of the camera, who is enrolled; an edit is not undone |
| Start-up | no transaction around the migrations; two processes; a stop after any statement | what serves has its guards; a stopped start is made good by the next |
| Mobile shell and screens | caches over asynchronous storage; answers out of order; a row tapped while a request runs; midnight; a killed app | memory agrees with the disk once it is quiet; a screen shows the employee, period and rows it says it shows |
| Cameras of the app | permission, devices and preview in any order; windows that ask each other for one camera | who may capture can; who may not waits for something that comes |
| Kiosk camera | opens that are stale when they answer, peers, timers | a hidden window has no camera; windows do not take it from each other in turns |

`PROJECT.json` lists every hazard at its line with the properties that cover it.

## 2. The modules

Each module is a state machine in the same form: `Init`, one action per stretch of
a handler, `Next`, `Spec`, and the properties with comments. Where theorems are
proved about a module it has a `TypeOK`, which is proved rather than checked; where
one record holds the whole state of a window its fields and their values are listed
beside its initial value. Handlers
are named by the request that runs them: `pc[r]` is the await that request `r` is
suspended in, the other functions of `r` are its local variables. A row, a file or
a token is named by the request that made it. Variables marked `history` in the
declarations are never read by an action; they exist so that a property can say
what went wrong before.
Operators that start with a `Slip:` comment are plausible mistakes in the code of
the operator after them; no specification uses them. They serve to see that a
property can fail.

* **`PunchBook`** - the abstract specification of punches: a set of punches with
  three atomic steps (record, move a clock-out later, forget an employee).
  One IN and one OUT per employee and day; the promise is off for a type of punch
  of an employee once two requests for it have overlapped, and for nothing else.
* **`Attendance`** - `create` and `recordAutomatic`. `Begin` and `Handler` are the
  two endpoints, `Lookup`/`Decide` choose IN or OUT for the kiosk, `Gate` stands
  for face match, geofence and liveness (a free choice to pass or fail), `CheckIn`
  and `CheckOut` are the duplicate checks, `Put` the upload after which
  `event_time` is taken, `Insert`, `Load`, `Update`, `Reinsert` the writes (the
  last is what TypeORM's `save` does for an entity whose row has gone).
  `StartRemove`, `DeleteLogs`, `RemoveEmployee` are `EmployeesService.remove`.
  `Book == INSTANCE PunchBook WITH ...` maps its rows to the book, and
  `ImplementsPunchBook` says that every step is a step of the book or a stutter.
* **`Reports`** - the roster as operators on the rows of `Attendance`.
* **`Enrollment`** - `enroll` (diversity check, CompreFace example, existing
  photograph, upload, upsert, unlink), `reset` (forget the subject, select the
  urls, delete the rows, unlink), the removal of an employee, the retention job.
* **`Identification`** - `identify`, the kiosk's and `verify`, bound and unbound: one
  action per query (employee, CompreFace, subject, template search, enrollment
  status, legacy check), with the metrics; `Create`, `Load`/`Save` of an update,
  `Enroll`, `Reset` and the removal of an employee. Two embeddings are similar when
  they show one person and were computed the same way (model or prototype).
* **`StartUp`** - `pc[p]` is the statement process `p` is about to run: the
  environment, the extension, the schema (or the fallback file), the role check,
  the request index of the old and of the new release, the administrator and the
  HR account, the model; then requests that are checked and inserted under the
  index that is there.
* **`Regularization`** - create with its check and the partial unique index;
  decisions as `Load`, `SaveSelect`, `SaveUpdate`: `save` reads the row again and
  writes the columns that differ (`dirty`).
* **`Registration`** - pending records with their time-to-live, the mail, the
  comparison, and the account transaction with its retries on a taken number.
* **`Session`** - the failure count and the refresh tokens over `RedisService`,
  which turns to the memory of the process at the first failing call and stays
  there until a restart.
* **`OfflineQueue`** - presses, the stored queue, syncs; a network that loses
  requests or answers or delivers late; the app may be killed at every step.
* **`CameraBroker`** - `ensureStarted`, `stop`, the events of the processes, with
  the single flag `expectedExit` and exits reported after a successor started.
* **`KioskCamera`** - windows of the page: `camChain` runs one open at a time,
  `step` is the await it is suspended in, `current` whether its generation is still
  the present one.
* **`WebCamera`** - the effect of the `WebCamera` component in each window: `step` is
  the await of its open, `queued` and `watched` what is done after it, `poll` and
  `spent` its timers; messages go to the other windows in order.
* **`MobileShell`** - AsyncStorage as a queue of operations (`io`) over a `disk`, the
  caches `token` and `conf` with the value `"unread"`, logins and binds in flight,
  the role of the shell and its tab.
* **`RosterScreen`** - extends `MobileShell` with the loads of the roster, the
  periods of the picker as ranges of days (`RangeFor`) and the module's cache.
* **`NativeCamera`** - the effects of `VisionNativeCamera`: the device effect with
  its interval and give-up timer, the device listener, the preview's events, and
  `Announces`, the effect that calls `onReady`.
* **`EnrollScreen`** - extends `NativeCamera` with the requests of the screen, each
  asked, served and answered in three steps.
* **`RequestsScreen`** - the form with its type and date, the rows, and one request
  in flight.
* **`Attendance_proofs`, `Enrollment_proofs`, `Regularization_proofs`,
  `Registration_proofs`, `Session_proofs`, `StartUp_proofs`, `Kiosk_proofs`**
  (`CameraBroker`, `Identification` and `WebCamera`), **`MobileApp_proofs`** (the five
  modules of screens, `OfflineQueue` and `KioskCamera`) - theorems. `MC*` modules give
  TLC its instances (symmetry, calendars, look-alike relations, constraints).

`PROJECT.json` maps every definition to the lines it models.

## 3. The runs

| Run | What it asks | Bounds | States |
|---|---|---|---|
| `attendance_races` | what holds when nothing serialises requests: `DuplicateNeedsRace`, `RowsHaveEmployees`, `KioskDayPresent`, `ClockInFrozen`, `ImplementsPunchBook` | 3 requests of 1 employee, 4 instants on 2 days, cooldown 1 | 1.9 M |
| `enrollment_overlap` | `ImagesExist`, `NoOrphans`, `SubjectFollowsTemplates`, `SimilarNeedsRace` | 3 requests, 3 poses, 2 looks, CompreFace on, retention of a day within 3 days | 0.38 M |
| `enrollment_retention` | the finding of section 4 | 2 requests, 2 poses | 3 k |
| `identification` | whom an accepted probe names and what an edit does: `AcceptedIsTheFace`, `AcceptedIsEnrolled`, `VerdictsCounted`, `EditsHold` | 2 people, 2 codes, 2 poses, 1 probe, 1 update at a time | 1.2 M |
| `regularization_overlap` | `OneActive`, `FinalNeedsRace`, `MixedNeedsRace`, `BypassBacked` | 2 creates, 2 decisions, 2 employees, 2 types, 2 days | 2.7 M |
| `registration_overlap` | `AccountsAreRight`, `NewestCodeWorks`, `AttemptsBounded` | 4 calls, 2 addresses, 3 instants, 1 attempt, 2 tries | 1.3 M |
| `session_account` | `LockHolds`, `UsedOnce`, `SessionKept` | 3 sign-ins, 2 refreshes, 2 failures, 3 instants | 0.59 M |
| `offline_sync` | `LossNeedsOverlap`, `TwiceNeedsCause` | 2 presses, 2 syncs, 3 days | 1.5 M |
| `mobile_app` | what the screens show: `StorageAgrees`, `RosterIsCurrent`, `WaitsForSomething`, `EnrollIsTrue`, `DateFits`, `RowsAreTrue` | 3 tokens, 2 servers, 2 loads, 2 days; 2 employees, 2 poses, 2 requests; 2 regularization requests, 3 days | 0.55 M |
| `camera_streams` | `OneCamera`, `NoIdleCamera`, `WedgeEnds`, and `WaitEnds` under fairness | 3 streams, 3 processes | 37 k |
| `browser_windows` | `HiddenIsDark`, `QuietAfterYield` of the page, `KeepsTrying` of the app in a browser | 2 windows, 1 event of the page, at most 2 messages under way to a window | 2.3 M |
| `start_up` | `ServedGuarded`, and `StartsAgain` under fairness | 2 processes, 3 stops, 2 requests, 2 types; each kind of database and environment | 0.25 M |

Every property of a passing run has a mutant in `PROJECT.json`: the definition it
names is replaced by one of the operators marked `Slip:`, and TLC finds the property
violated.

### Why these bounds are enough to be interesting

A race of check and write needs two requests; a third one can use what the race
left (a kiosk punch after two raced ones) or move a clock-out again, and
three requests show all of it. One employee suffices in `Attendance` and
`Enrollment`: handlers of different employees touch different rows and files.
Two days with two instants each let a request straddle midnight and let a cooldown pass
within a day. A pose needs a rival, and a request that replaces one needs a third,
hence three poses and requests; four requests (2.1 M states) were tried once and
agree. In `Regularization` a re-create needs a row that was decided, and a race
two decisions; two types and days tell the index's columns apart. In
`Registration` four calls reach start, resend, a wrong and a right answer, or two
verifications for two addresses that compete for one number. `Session` needs
three sign-ins to pass a limit of two. Three camera processes are needed for an
exit that is late by one and mistaken for another's; three clients for one that
joins while another leaves and a third waits.

Bounds that are there only for TLC: `MaxTime`, `MaxDay`, `MaxProcs`, `MaxEvents`
and the finite sets of requests, taps and syncs. `MCOfflineQueue!Apart` stops at
the first overlap of two uses of the queue, after which the properties say
nothing. `MCBrowserCameras!ShortInboxes` keeps at most two messages under way to a
window (the browser delivers them within milliseconds, an open takes at least
fifty) and does not follow a window of the app after `stray`, where `KeepsTrying`
says nothing. The bound `QueueMax` of the offline queue is not reached in the run.

Two runs compose programs that share no variable: `MCBrowserCameras` follows the
windows of the page or those of the app, `MCMobileApp` one screen at a time (the
variable `focus` says which), while the rest stays as it began. Their product would
add states and no behaviour. Within `mobile_app`, `RosterBounded` and
`EnrollBounded` keep apart what does not meet: what only touches the shell
(settings, a device's token, the other tabs, a token set during a first read) is
followed before the roster is loaded; settings are edited and stored with one
account and one device only; the periods are today, one month and "none yet";
the Enroll screen is followed with the camera and one request, or
with samples, or with working modes, and not after both its samples and its list
are excused. `MCIdentification!Bounded` combines embeddings of both kinds with the
internal provider only, without removals and updates in flight; with CompreFace,
updates ask for no status and are followed before the probe only. The invariants are
checked in the first state beyond the bound, too.

`identification` needs two people for a probe that could name the wrong one, two
codes for one that is given anew, and both providers. `start_up` needs two
processes for one that serves while the other starts, and three stops for a start
that is stopped, made good and stopped again. In `browser_windows` two windows show
every exchange of "release", "released", "holding" and "idle".

`CHECK_DEADLOCK FALSE` stands in all configurations but that of `start_up` because
the systems may really stop there: every request has been made and answered, every
stream is closed, every window hidden. A process that is down can always start.

### Fairness

Two modules state fairness. `StartUp!FairSpec`, for `StartsAgain`, assumes that the
container is started again when nothing is up (`restart: unless-stopped`) and that a
start that nothing stops goes on; which processes a restart policy keeps up is left
open, and `MaxStops` bounds the stops. `CameraBroker!FairSpec`, for `WaitEnds`,
assumes that
the runtime fires the stop timer and reports the exit of a process that has
ended; that a live camera delivers a frame again and again or ends; and that a
response which `onStop` has ended closes. Nothing is assumed of clients otherwise
(they may stay for ever) and of crashes. The other properties are safety
properties: `KeepsTrying`, `WaitsForSomething` and `StartsAgain` are about the same
kind of hazard, somebody forgotten, and the first two say in each state what is
still going to happen rather than that it will, for users and other programs may
keep the camera.

## 4. What the code does otherwise

One run is refuted by TLC, and the sentence it states is the repository's:
**the retention job removes enrollment photographs** (`enrollment_retention`). It
walks the whole directory; `docs/ENV.md:42` and `docs/RUNBOOK.md:191` speak of
proof images. A template then outlives its photograph, and `ImagesExist` excepts
what the job has purged.

The following limits of the code were met on the way. They are stated in the
properties as the exception under which a promise is off.

* Two clock-ins of a day: `create` reads the day's rows and inserts after further
  awaits, with no transaction or unique index, although
  `API/attendance/attendance.service.ts:179` says "One clock-in per IST day".
  `DuplicateNeedsRace` says that overlap is the only way.
* The cooldown of the kiosk does not span midnight: `recordAutomatic` looks only at
  the punches of today.
* A wrong answer saves a registration record with a full time-to-live: the code
  lives longer than the minutes its mail names.
* A removed employee's photographs stay with CompreFace under the code, which may
  be given to somebody new, or back to one whom an update saves after the removal
  (`AcceptedIsTheFace`, `inherited`).
* An update saves the entity it read whole: an employee removed meanwhile comes
  back, a status set meanwhile is overwritten (`EditsHold`, `"any"`).
* `getToken` stores what it read when the read is done, over a login that ended
  meanwhile (`StorageAgrees`, `raced`); settings saved before they were read
  overwrite the stored ones (`early`).
* The Enroll screen shows an answer for the employee who is selected, whoever it is
  about (`mixed`); the lists of screens take answers in the order they come.
* On a phone, a camera that is listed between the last poll and the end of the ten
  seconds is never used (`late`).
* In a browser, a window whose stream ended asks for the camera once and never
  polls (`lost`); those that wait for a window that asked and was refused, or went,
  wait for nothing (`stray`).
* Of the kiosk page, `scheduleCamPoll` is called by nobody but itself, although the
  comment at `attendance-api/public/index.html:1722` says that "a busy page keeps
  trying": `KioskCamera` has no polling action.
* While a process starts, another one serves without the unique index over active
  requests; two active requests of one kind made then fail every later start
  (`ServedGuarded` and `StartsAgain` except overlapping processes).
* The roster shows a day as Absent when its only clock-out lies before its first
  clock-in (`API/attendance/roster.ts:125`); POST /attendance allows that order.

## 5. What is proved

The theorems hold for every value of the constants under the assumptions named
in the modules (`TimeAssumption`, `DayAssumption`, ...): that bounds are naturals,
that calendar days never go back, that similarity is symmetric, that "no row" is
neither a row nor an instant, that no token, settings or window is one of the marks
"unread", "blank", "none", "app" and "server" it is compared with, that probes are
finitely many, that a press is not a sync. Every proof is an inductive invariant: a
type invariant with its own step lemma, a strengthening `IInv`, one lemma per group of
actions that disturbs the same part of the state, and one temporal step.

**Attendance** (`TypeCorrect`, `DuplicateNeedsRaceCorrect`,
`RowsHaveEmployeesCorrect`, `ClockInFrozenCorrect`, `ImplementsPunchBookCorrect`,
`KioskDayPresentCorrect`). That two rows of a day imply a race is not inductive:
one has to know what a request that is about to write relies on. `CheckStillHolds`
says that without a race nothing has been recorded since the check which would make
it wrong, on that day or a later one (a request may write on the day after the one
it checked: `Clocks`); `OverlapIsRaced` that two requests in their windows have been
noticed; `HeldRows` what the row a handler holds may be. `RowsHaveEmployees` is part
of the invariant because a removal and an insert meet in it. That the handlers
implement `PunchBook` is proved step by step under the mapping `Recorded`: an
insert is a `Record`, a replaced clock-out a `MoveOut`, a removal a `Forget`, a race that
begins an `Overlap`, every other step a stutter;
`StampsLater` adds that the instant of a handler which did not race is not older than
what is on record. `KioskDayPresent` needs `KioskInv`: the clock-in that a kiosk's
clock-out rests on is on record from the choice on, whoever holds or writes the row;
and that a day with punches has a first and a last one, which follows from the
library's well-foundedness of `<`.

**Enrollment** (`TypeCorrect`, `ImagesExistCorrect`, `SimilarNeedsRaceCorrect`,
`NoOrphansCorrect`, `SubjectFollowsTemplatesCorrect`).
`Provenance` says which requests' images a template may hold, `StoredFirst` that
an image about to be referenced is in the storage, `UnlinkStale` that what a
handler still has to remove is referenced by nothing, `OwnSteps` that each kind
of request takes its own steps, `WindowsDiverse` that a request past the
similarity check stays different from the table and from other requests in
their windows, unless two overlapped. For `NoOrphans` and
`SubjectFollowsTemplates` the invariant is `TInv`, about employees whose handlers
neither overlapped nor failed: one handler at a time is under way (`OneHandler`), and
`OnTrack` says at each of its steps which files it still owes a removal, that what it
read of the templates is still so, and where that leaves the CompreFace subject.

**Regularization** (`TypeCorrect`, `OneActiveCorrect`, `FinalNeedsRaceCorrect`,
`MixedNeedsRaceCorrect`, `BypassBackedCorrect`). `AloneWithPending` says that a
decision alone with its row still sees it pending, `DirtyIsExact` that the
columns `save` will write are those that differ, `RowsInserted` when a row
exists. `FinalNeedsRace` is an action property, proved from the same invariant.

**CameraBroker** (in `Kiosk_proofs`: `TypeCorrect`, `OneCameraCorrect`, `NoIdleCameraCorrect`,
`WedgeEndsCorrect`, `ToldNeedsStopCorrect`). `FreshAbove` (numbers not used yet are
new), `ChildRuns` (what `child` names), `ExpectedComes` (the flag is set only while
an exit is to come), `WedgeOpen` and `OneEnding` (how many exits can be
outstanding) strengthen `OneCamera`, `NoIdleCamera` and `WedgeEnds`.

**Registration** (`TypeCorrect`, `AccountsAreRightCorrect`,
`NewestCodeWorksCorrect`, `AttemptsBoundedCorrect`). Records are written back by
calls that read them long before, so the invariant speaks of every copy, stored or
held: `RecordsInv` says of each where its code, password and count come from,
`NumbersInv` that the numbers tried in a transaction are free or taken by rivals
(`RetriesNeedRivals` counts them), `Alone` that without a race a call holds the
present record, `NewestInv` and `WrongsInv` that it then has the newest code and
the true count.

**Session** (`TypeCorrect`, `LockHoldsCorrect`, `UsedOnceCorrect`,
`SessionKeptCorrect`). `Awaits` says what a call that is suspended has read,
`MemoryEmpty` that memory is unused while Redis is up, `CountInv` that the stored
count and the one a lone sign-in holds are what was guessed, `UseInv` that a token
that is still stored has paid for nothing unless a refresh shares it.

**StartUp** (`TypeCorrect`, `ServedGuardedCorrect`). `Reached` is the assertion
between two statements: what a start that is alone has established by each value of
`pc`; `AskedInv` ties a request to a process that serves; `AloneInv` adds that one
process at most is up and no two active requests are of one kind, until two
processes overlap. Nothing about the database is assumed before a start reaches
the statement that mends it, so a stop anywhere keeps the invariant.

**The screens** (in `MobileApp_proofs`: `StorageAgreesCorrect` of `MobileShell` and `RosterIsCurrentCorrect` of
`RosterScreen`, both of `AttendanceSpec`, the shell with the roster;
`WaitsForSomethingCorrect` of `NativeCamera`; `EnrollIsTrueCorrect` of `EnrollSpec`, the
Enroll screen with its camera; `DateFitsCorrect` and `RowsAreTrueCorrect` of
`RequestsScreen`; `HiddenIsDarkCorrect` and `QuietAfterYieldCorrect` of
`KioskCamera`).

* `StorageAgrees` speaks of an empty queue; `TokenInv` and `ConfInv` say what holds
  with any queue: if a write is in it, the last one writes what is cached and no read
  can undo it; if none is, the cache is what is stored or unread, and whoever shows a
  role has it from the cache or has a read in the queue. They are stated with four
  predicates on queues, and lemmas say what appending to a queue, serving its head
  and cutting it off at a crash do to each. That a queue with a write has a last one
  is well-founded induction on its positions, from the library.
* `CurrentInv`: unless something excuses the screen there is one load at most
  (`OneLoad`), its range is the asked period's of today and it carries the login of
  now (`LoadsAsOf`), and the cache, if any, is of today.
* `Announced` says that the effect which calls `onReady` has run, `Sought` that the
  device effect has a device, looks for one or has said that there is none, `Missed`
  why a running poll has none.
* `SampleInv` and `ListInv`: until requests overlap or fail there is one request about
  samples and one about the list or a mode, and what it has been answered, or what the
  screen shows if it has not, is what the server has.
* `RowsInv` follows the truth from the server through a load into the rows.
* `PanelInv` (`PanelOK` of each window): a window has a live track exactly when it has
  the camera, and then no open of it is under way; an open that may still attach its
  stream, one that waits in `camChain`, and a feed belong to a panel that is shown.
  `OpenGoesOn` and `OpenEnds` say what the awaits of an open have in common; the same
  steps show that a window which has yielded turns nothing on by itself (`Rests`).

**OfflineQueue** (in `MobileApp_proofs`: `LossNeedsOverlapCorrect`,
`TwiceNeedsCauseCorrect`). The two properties hold only because a use of the stored
queue that is not overlapped still knows it when it writes. `QueueInv` says so for
the one user there is (`Alone`): a press that has read holds a copy of the queue, and
what a sync has put aside and what it has still to send are together the queue without
what was accepted or dropped (`gone`). `Copies` says that nobody else has a copy, that
every copy is `Storable` - no punch is in it twice, it is not too long, only presses
that are over are in it - and that the two parts of a sync's copy have nothing in
common. `Once` is about a second row: without an overlap or a killed process, a punch
that is on record, and whose sender was not left without the answer (`unheard`), is in
no copy that will be sent again (`KnownOnRecord`). Positions in a queue are the data
here: `QueueHead`, `StoredAppend` and their like say what taking the head of a sequence
and appending to it do to its items.

**Identification** (in `Kiosk_proofs`: `AcceptedIsTheFaceCorrect`,
`AcceptedIsEnrolledCorrect`, `VerdictsCountedCorrect`, `EditsHoldCorrect`).
`FoundKnown` says for each `pc` of a probe what the candidate it holds may be: a
recognised code, whose photographs, if similar, are of somebody who has or had it;
then an employee who, if similar, is the person at the camera, or has that person's
code by having `inherited` it from a removed one; and who is active or in `moved`
since. `AnswerKnown` and the property itself carry it through the verdict. `CodesKnown`
says whose photographs CompreFace has under a code, and that who did not inherit
a code shares it with nobody, alive or gone; `EditsKnown` ties an update in flight to
the row it read. To prove `CodesKnown`, `inherited` had to count an employee whom a
stale update inserts again under a code somebody else had meanwhile: the first version
of the model missed that behaviour, which the instance for TLC did not reach. `CountsKnown` relates the two
counters to cardinalities of sets of probes; the probes are finitely many
(`ProbesAssumption`).

**WebCamera** (in `Kiosk_proofs`: `KeepsTryingCorrect`). That somebody still goes on
is a global statement: each window that waits points to another, and the chain of
them must end at one that acts. `Rooted` says it ends: until a window is `stray`, some
window that is up is a `Root` - it has a stream or lost one, or every "holding" in its
mail is followed by an "idle" (`Answered`), or by a "released" while it waits for the
answers to its request, so that nothing it will read can keep it from trying.
`Motive` gives each window its own reason (an open that is watched, a poll, or a
window known to hold the camera), and `Asks` a window behind each request on its way,
which is what makes that window a root when another gives the camera up. `QuietStep`
and `WebInvFrom` reduce each action to the one window it changes.

Some of these strengthenings were checked with TLC as invariants of the instances
above before they were proved.

`Spec` in a theorem is the specification of the module named (`QueueSpec`,
`IdentifySpec` and `WebSpec` where several share a module of proofs); `mobile_app` and
`browser_windows` check the same properties with their modules composed and bounded.

### Only model-checked

Liveness under fairness (`WaitEnds`, `StartsAgain`) is out of the proof system's reach,
as are statements about `ENABLED` and inductions over data (the calendar of
`RangeFor`). Every other property of a passing run is stated by a theorem.

## 6. Where the models are coarser than the code

* The answer of a database and what the handler does with it up to the next await
  are one action.
* An answer of the API that is lost is not modelled in the API's own modules: it
  changes nothing there, and the retry of the client is another request.
  `OfflineQueue` models it on the client's side.
* `Attendance`: verdicts of face match, liveness and geofence are free; one
  removal of an employee at a time. Notes, shifts and photographs of a punch are
  left out.
* `Enrollment`: quality checks are free; a handler does not run over midnight; the
  local store, not S3; a URL is a fresh name.
* `Regularization`: TypeORM's `save` is modelled by what it does (read, compare,
  update). The role checks in front of the handlers are left out.
* `Registration`: a record that Redis drops at its time-to-live is one that
  `Pending` no longer returns; the fallback of `RedisService` is in `Session` only.
* `Session`: one account; a refresh token outlives the model's few instants;
  change-password and the other endpoints are left out.
* `OfflineQueue`: the request to /attend/identify is made with the press; the
  server's `create` is atomic here (its races are in `Attendance`); failures of
  AsyncStorage are left out; a lost request is one that is never served.
* `CameraBroker`: a spawn that fails reports its error before anything else runs;
  the error event of a failed kill, the release endpoint and the parsing of frames
  are left out.
* `Identification`: similarity is the same person and the same kind of embedding;
  liveness and quality are a free choice of the probe; enrollment and reset are one
  step each (their own steps are in `Enrollment`). A removed row is forgotten at its
  last statement.
* `StartUp`: of the schema, what statements of two processes can disagree about:
  the role check and the unique index. Migrations that only add columns with
  IF NOT EXISTS, the demo accounts, HTTPS and the seed script are left out, and of
  the role accounts one is kept.
* `MobileShell`: AsyncStorage does not fail and serves one operation after the
  other; the change of password is left out.
* `RosterScreen`: search and filter are left out; loads are answered only to roles
  with access; rows are known by the login and the range they were answered to.
* `EnrollScreen`: the text of the search is empty; no other client changes these
  employees; the modals are an open menu or a notice.
* `RequestsScreen`: the reason is never blank; a logout unmounts the screen.
* `NativeCamera`: one front and one back camera; that reopening the tab never clears
  an error, as its text says it does, is kept.
* `WebCamera`: the camera is exclusive; the effect is mounted once in each window.
* `KioskCamera`: the camera is exclusive; several physical cameras and the mobile
  browser's second attempt are left out; a stream that arrives after its
  timeout is stopped at once; the page in the background (visibilitychange) is
  left out, a window is hidden when a tab without the camera is chosen or the page
  goes. `MaxEvents` counts taps, tab changes to the camera, device changes and
  other applications that take the camera; hiding is free.

## 7. Plan

Done: the modules above. What is left, most important first:

1. **Proofs**: what the invariants above give beyond the properties of the runs, such
   as the order in which a sync replays the punches of one person.
2. **Web session client**: two tabs of the page that share a one-time refresh
   token (`refreshSession`, the retry of `api()`), composed with `Session`.
3. **The page's offline queue** (replayed by hand, no expiry) as a second client of
   the book, next to `OfflineQueue`.
4. **The payroll export** as an operator on the rows of `Attendance`, compared with
   the roster: it pairs by UTC date, the roster by IST day.
5. **Location**: `collectGps` of the app, which takes the best of several fixes
   within a deadline, and the geofence's answer to a late one.

## 8. Not modelled, and why

* **Liveness, quality, embeddings** (`API/recognition` helpers): arithmetic in
  floating point. Their verdicts are free choices in `Attendance`, `Enrollment` and
  `Identification`.
* **Sites and geofence**: floating-point geometry over constant sites.
* **Shifts**: a note text. **Devices**: one find-or-create and a signed token that
  nothing modelled reads.
* **Roles and access**: stateless checks before a handler starts.
* **Payroll and CSV exports**: formatting; the payroll export pairs punches by UTC
  date (a hazard in `PROJECT.json` that no property covers).
* **Search, filter and pictures of the mobile screens**, layout, location, the
  change of password.
* **The rest of the web page**: session, offline queue, capture loop, forms.
* **Camera scripts**: Windows device control. `CameraBroker` sees a process that
  starts, delivers frames and exits.
