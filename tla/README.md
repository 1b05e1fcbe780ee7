# Wedding Master: a specification of the program

Wedding Master is a Node/Express server with one SQLite file (better-sqlite3) and a directory of
photos. Guests of a wedding join with a contact and a PIN, upload photos for tasks, earn points and
badges, like and comment; hosts manage tasks and guests, moderate photos and hand out badges.

Node runs one synchronous stretch of JavaScript at a time and every database call is synchronous, so
a handler that never awaits is one atomic step. What makes the program hard is the rest: the
handlers that give the event loop away (multer, sharp, bcrypt, the HEIC worker) and go on afterwards
with what they read before, the file system, which no transaction covers, and the process dying
between two writes.

## 1. Inventory

State, operations, what they meet, and what has to be true. Paths are under `src/`.

| Component | State | Operations | Hard because | Correct when |
|---|---|---|---|---|
| Task-photo submissions: `services/submissions.js`, `routes/guest/tasks.js`, `services/photos/moderation.js`, `paths.js` | `submissions` rows, originals, thumbnails | upload, replace, owner's delete, takedown, restore, hard delete with a guest or a task | `submitPhoto` awaits `makeThumb`; files are outside the transaction; three actors write one flag | a row always has its files; a takedown sticks; bonuses are banked once; answers are true; nothing leaks |
| Concurrency gates: `utils/semaphore.js`, `utils/upload-concurrency.js`, the HEIC and login gates | counters and resolver queues | acquire, release, give up | hand-over, timeouts and disconnects race | no slot lost or doubled, FIFO, bounded backlog, nobody starves |
| Photo intake and HEIC: `services/photos/intake.js`, `heic.js`, `services/heic-worker.js` | files under temporary names, a worker thread | sniff, decode in a worker, rename | message, error, exit and timer race; a decode can hang | one settlement, no worker outlives it, no file left behind |
| Memories: `submitMemoryBatch`, `routes/guest/memories.js` | rows and files of a batch | batch upload, caption | per-file thumbnails, then one insert transaction | all rows or none, with their files |
| Profile and avatar: `routes/guest/profile.js`, `photos/processing.js` | the guest row, avatar file | edit, remove photo | the row read before multer is written back after sharp | an edit changes only what it was asked to |
| Scoring and badges: `services/scoring/*` | `guest_badges`, derived points | recount, award, revoke, points, leaderboard | many writers must each trigger the recount | badges equal what the photos earn; points agree with the leaderboard |
| Crowd favorites: `scoring/crowd-favorites.js`, likes in `routes/community.js` | `likes`, recap events | like, unlike, diff of the placing set | every mutation of visible likes has to diff | one event per change of place |
| Task badges: `services/task-badges.js`, `routes/admin/task-rank.js` | ranks, awards | rank, release, re-release, fold | stamps survive a delete and re-grant | a celebration happens once |
| Recap: `services/notifications.js`, `routes/guest/recap.js` | events, seen checkpoint | record, retract, read, mark seen | one-second clock, checkpoint sent by the page | nothing is lost between two visits |
| Badge moment: `services/render-locals.js` | `celebrated_at` | pick and stamp the owed badge | stamped at render | at most once, most important first |
| Task rules: `services/tasks.js`, `event-days.js` | task columns, the clock | live, sealed, which rule pays | day boundaries, several rules on a task | one rule pays |
| Access: `routes/auth.js`, `services/lockout.js`, `middleware/session.js`, rate limits | lockout counters, windows | join, login, admin login | bcrypt is awaited between reading and counting | a lockout holds; a window bounds |
| Host administration: `routes/admin/*`, `services/host-checklist.js` | all tables, a row of settings per field | edit, delete, order, configure, tick off, moderate | cascades and files; pages that are older than the database; saves of several writes | nothing dangles; a page acts on what it shows |
| Backup, lifecycle: `scripts/backup.js`, `utils/shutdown.js`, `scripts/serve-resilient.js` | snapshots, restart times | copy, drain, restart | copies while the server writes | a backup restores; a crash loop stops |
| Schema and migrations: `db/*` | the tables' columns and indexes | create, alter, rebuild, backfill, seed | databases of every earlier version; the process dies between two statements | every start ends in the same schema and data |
| Feed and screens: `services/feed.js`, `event-stats.js`, `public/js/feed*.js`, `slideshow.js` | nothing on the server; windows, hearts and slides in the page | cut a window, join it, tap, play | photos come and go under an open page; answers come late or never | no photo skipped or doubled; with every answer in, a card is the server's |
| Reports and crash log: `routes/guest/bug-report.js`, `error-report.js`, `client-error.js` | `bug_reports`, a capped map | report, track, close, log | duplicates, beacons, several tabs | kept once, logged once |
| Export: `services/export.js` | none | read, write the workbook, open the files | two reads and the files, with awaits between | every photo that stayed is in it |
| Client scripts: `public/js/*` | in-flight tokens, open dialogs, a list under a drag | like, upload, edit, rank, reorder | watchdog against late answers; a second tab | a tap counts once; what is shown is what is sent |
| Views, icons, seeding, load tests, tooling | | | | not modelled (section 5) |

Interactions: the routes call the services; every change of which photos are visible ends in the
badge engine's recount, in the same transaction for moderation and after the commit for an upload;
scoring and moderation record recap events; uploads, avatars, HEIC decodes and admin logins each
pass through a gate; a hard delete reaches rows and files an upload may be holding. The client
scripts meet the server only by their requests, which may be served and answered in any order or
lost.

`PROJECT.json` lists the hazards with the line where each bites and the properties that cover it, or
why none does.

## 2. Modules

| Module | What it is |
|---|---|
| `Submissions` | the life of a task photo |
| `Profile` | the guest row under overlapping profile edits |
| `SlotGate`, `Gate` | what a concurrency gate promises; the semaphore and the four gates, shown to implement it |
| `Scoring`, `Screens` | points, crowd favorites, the crown and its events; what the pages make of the standings |
| `Badges` | badge rows, announcements, celebrations |
| `Recap` | the recap's five sources, its count and its panel |
| `EventClock`, `Specials` | the event's local calendar; one-day challenge, lucky task, flash |
| `TaskDialog`, `TaskList`, `TaskOrder` | the hosts' Tasks page; the guests' list; the order by dragging |
| `HostDesk` | the hosts' checklist and configuration |
| `Access`, `Csrf` | joining, logins, lockouts, limiters; the CSRF check as a function |
| `Databases`, `Boot` | the databases a start may find; the schema and the migrations |
| `Backup`, `Lifecycle`, `Export` | the backup script beside the server; drain and restarts; the keepsake |
| `Memories` | a batch of memories with the HEIC decoder |
| `Feed`, `Card`, `Slideshow` | the growing feed page; likes and comments on it; the show at the end |
| `UploadPage`, `RankPage`, `Wall` | the browser around an upload; Rank & award; the hosts' photo wall |
| `Reports`, `Beacon` | bug and error reports; the log of client crashes |
| `MCSubmissions`, `MCProfile`, `MCGate` | instances for TLC of one module each |
| `MCParts`, `MCHost`, `MCServer`, `MCRecap`, `MCTasks` | compositions of several: which component runs is chosen at the start, the components share no variable |
| `GateProofs`, `ProfileProofs`, `SubmissionsProofs` | inductive invariants and theorems of one module |
| `ScoringProofs`, `BadgesProofs`, `AccessProofs`, `RecapProofs`, `SpecialsProofs` | the same for the parts of `MCParts`, `MCHost`, `MCServer`, `MCRecap` and `MCTasks`, which they extend: the constants of a composition are parameters with assumptions, and the definitions named `MC...` are the values its configuration gives them |

In every module a synchronous handler is one action, the whole of it; a handler that awaits is one
action for each stretch between awaits; and where the process may die between two writes the stretch
is split there. Definitions whose comment begins with "Mutant" are wrong on purpose: `PROJECT.json`
names for each property one that must break it.

### Submissions

`subs` is the `submissions` table with the columns the properties tell apart: the photo (original
and thumbnail share a random name, so a photo is named by the upload that stored it), `taken_down`,
`taken_down_by`, `resubmitted` and the banked bonus. `originals` and `thumbs` are the two
directories, `mode` what `isTaskLive` and `isSealed` say of a task, `credited` what the badge
engine's last recount of a guest saw. `purge` is a hard delete in progress.

Each request has a `pc`. `stored` to `ready` is spread over turns of the event loop (multer, the
upload slot, `makeThumb`). From `ready` the handler runs without a pause to its answer; it is still
split where it reaches the disk or commits, because the process may die there (`Crash`), and
`LoopIsFree` keeps every other handler out. `seen` is the row the handler holds: the one read before
`makeThumb`, then the one read again at `submissions.js:443`. A hard delete is split the same way.

`HostEditsTask` and `DayComes` change a task under an upload; which special rule is on offer when an
upload is admitted is an input, since the rules' columns and the clock decide it and nothing else
here reads them. `RefuseCsrf` stands for every refusal that takes the stored original back before
`submitPhoto`, `MissesTask` is the one that does not: the 404 of an address that is no task id. Four
failures the code swallows are actions: the un-hide, the sweep, the recount, and an unlink of a hard
delete; they and `Crash` set the history variable `faulted`, which three properties use to say
"while no step has failed".

### Profile

`row` is one guest's row with `avatar_path` and the PIN; the name and the social links are carried
over by the same line of code and the PIN stands for all three. A request is a signup (`Join`) or an
edit. `Arrive` is `attachGuest`: for a multipart form it runs before multer has read the body, so
`copy` is older than everything the edit does. `AvatarSkipped` is the avatar gate refusing or timing
out, `AvatarFails` everything else `saveAvatar` may throw. `AvatarSet` is `saveAvatar`'s own UPDATE;
from there to the answer the handler does not pause, and is split for `Crash` as in `Submissions`.
`chore` is the other two handlers with more than one step: the removal of the photo and the guest
delete. `OtherRecount` stands for every recount that a change of the guest's task photos causes. A
deleted guest does not join again: that would be another row.

### Gate and SlotGate

`active` and `queue` are the semaphore's fields; a caller is `queued` while its resolver is in the
queue, `granted` between the resolution and its continuation, `running` inside the gate. The gate
picks which of the four users it is: whether there is a ceiling (`Refused`) and whether a waiter may
give up (`Withdraw`: the wait's timer or the login's disconnect). A refused caller changes nothing
and is no step. A refusal, the slot count and the queue are read and written in one turn. `SlotGate`
knows no queue: a set of waiting and a set of holding callers, and five steps.

### Scoring and Screens

The rows (photos, likes, bonus points, avatars) are state, everything a score is made of is derived
from them by operators, as the code derives it on every read: the points of one guest, the
leaderboard of all, the crowd's places. Stored are the crown (the `TOPLIKED` badge, which is in the
registry of `services/badges.js`, although the comment at `community.js:931` calls that registry
empty) and the trail of gained and lost places. The like route writes its row, moves the crown and
records the events in three statements outside a transaction: `LikeInterrupted` is a death between
them. `Screens` adds what tiles, feed, profile and statistics read off the same rows.

### Badges

A row of `guest_badges`, its `celebrated_at`, and the `badge_granted` event, kept in step by four
writers (milestones, crown, host awards, release) and spent by two readers: the page being rendered,
which stamps the first owed badge before it arrives, and its script, which posts a stamp for each
further one. What `Scoring` derives (completed counts, placing guests) is an input.

### Recap

Stored events, comments, likes by photo, the couple's likes and derived announcements are merged
newest first by a one-second clock and an id compared as text, as in the code (ids start at 9, so
that text and number order differ). The document, its cursor and its paging are the panel's state.
History variables remember what the document knew of. Two limits of the code the properties name: a
row that a later stretch of the same second sorts in front of a cursor (`strays`), and likes that a
checkpoint moved in another tab removes.

### Specials, EventClock and the task pages

The special rules are columns of a task row. A host's request is one action, an upload two: it reads
the row, awaits a thumbnail, inserts. `EventClock` translates `event-days.js`: a zone has an offset
before and after one jump, and the way back from a wall time is the code's guess and check.
`DaysGoOn` assumes that in the zones the event is played in a local day never returns: in a zone
that falls back over a midnight, yesterday's challenge is live for an hour more, and it may then
share a task with today's. `TaskDialog` reuses `Specials` for what the server makes of a post; it
starts from boards given at the start. A title-only save of a flash opened while active and posted
after it ended starts the flash again, and a "Today only" row left open past midnight keeps its
marker: both are what the code does, and the properties are worded so. The hidden `flash_cancel` is a
field of the dialog: a Cancel the browser holds back, because the minutes are invalid, leaves it set
until the dialog is opened again. `TaskOrder` has two pages
whose drops are posted and served in any order. `HostDesk` has the checklist's order and the save of
the configuration as a row per field, which a death may cut short (start after end is then
possible). A photo the host took down stays down when its guest replaces it: it is no longer waiting
for its rank, but for a second look.

### Access and Csrf

Limiter windows and guest lockouts live in capped maps and are lost with the process, the host's
lockout is in `settings`. Only the host's login awaits (`AdminLogin`, `AdminRight`, `AdminWrong`),
so overlapping attempts answer in any order. `Csrf` is a function of one request.

### Boot, Backup, Lifecycle, Export

A migration of `Boot` is the sequence of databases its committed statements leave behind; a death is
possible after each, and each start begins at the top. `FromTheApp` says what a database the app
made looks like, at whatever version and cut off wherever; `Databases` is every table at its first or
last version but one, which is at any (a table's columns are assumed to have come in the order of
`db.js`). `Backup` walks the script's steps while the server uploads, replaces and deletes; a
half-written photo copied at that moment stays in the store for good, although `backup.js:106` calls
the presence of a name "a sound proxy" for a backup of it. `Lifecycle` counts time as ages and time
left, so nothing bounds how long it runs. The wrapper restarts a child that was signalled alone and
drained, since it then exits with code 0 and no signal. `Export` reads the rows twice and the files
later still; the workbook and the archive are sets of entries, each with the folder and the name the
code makes for it.

### Memories, UploadPage, Feed, Card, Slideshow

`Memories` is a batch from multer's files to its rows, with the worker, its slot, its timer and its
exit. Batches that fail at the INSERT, crash or cannot write a conversion leak files: `leaked` says
which. `UploadPage` is the form, its engines, and the one-shot cookies every request carries along
and every answer may clear or set. That a flash "shows exactly once" (`session.js:254`) holds only
without a second tab, and a reward can then be shown on another task's page; `meddled` says so.
`Feed` cuts windows when the server reads and joins them when the answer arrives; `slipped` records
that the pager at the newer end no longer said where to go on, the one case in which the walk may
miss a photo. In `Card` a request whose guard was given back (watchdog, takeover) is no longer held,
and its late answer still counts for what is on screen. `Slideshow` makes the sequence and plays it.

### RankPage, Wall, Reports, Beacon

`RankPage` is the list under a drag, apart from the picks; a re-render during a drag can duplicate a
pick on screen, which the server refuses. `Wall` renders the tiles and the feed behind them in one
request and moderates the card under the viewer; its lists are newest first, a photo in its place by
the number of newer ones. `Reports` has the duplicate window and the host's
tabs, `Beacon` the page's throttle and the server's dedupe map.

## 3. Runs

| Run | Shows | Distinct states |
|---|---|---|
| `submissions` | all eight properties over every interleaving of two uploads, moderation, edits, hard deletes, failures and crashes | 717 429 |
| `profile` | what overlapping edits of one profile cannot break | 655 526 |
| `gate` | the gate's invariants, its order, the refinement of `SlotGate` and service under fairness | 759 |
| `parts` | scores agree however derived; feed pages join; uploads, of one photo or a batch, are answered truly | 140 320 |
| `host` | celebrations, rankings and the photo wall | 741 468 |
| `server` | limits and lockouts, CSRF, starts, backups, restarts, the keepsake | 961 144 |
| `recap` | bell and panel, cards, slideshow, reports, crash log | 1 392 331 |
| `tasks` | special rules, the Tasks page, the guests' list, the order, the hosts' desk | 833 974 |
| `submissions_duplicate` | a disagreement: the loser of two overlapping first uploads leaves its files behind, although `paths.js:52-55` says the route cleans them up | violated |
| `profile_stale_pin` | a disagreement: an edit that leaves the PIN blank can put an old PIN back | violated |
| `boot_deaths` | a disagreement: a death between an ALTER TABLE and its backfill skips the backfill for good, although `migrations-badges.js:291` says they run together | violated |
| `specials_twice` | a disagreement: east of UTC a wall time shown twice becomes its second occurrence; `event-days.js:258` says never | violated |

**submissions.** `RowsStayWhole`: a row's two files are on disk from the moment it is written.
`HostTakedownIsSticky` and `BonusIsBankedOnce` are about the stale read: an upload that decided from
the row it read before `makeThumb` would break either (the mutants do that). `ResubmittedIsPending`
ties the flag to visibility over four writers. `AnswerIsTruthful` and `AnswerMatchesVisibility`
relate what the guest is told to the row at that instant. `LeaksAreAccountedFor` bounds the orphans:
without faults a file that no row names belongs to an upload under way, to a refused INSERT, to an
upload sent to an address that is no task id, or to something the host deleted. `BadgesAreFresh`: no
path forgets the recount.

*Bounds.* One guest and one task: every property is about one row and its files, rows are
independent but for the hard delete (which walks the rows of one guest or task; two tasks add only
the order of the walk) and the recount (a set over tasks). Two uploads are needed, and enough, for
every overlap of two handlers; the old row of `Init` supplies a third photo, the one superseded.
Rules `daily` and `lucky`: one that a replacement may bank and one that it may not. The two uploads
are symmetric. A request is used once, so the run is finite and stops: deadlock is not checked.

**gate.** Four callers fill two slots and a full backlog of two. Callers come back without limit, so
the run has no end states, and deadlock is checked.

*Fairness.* `Resume` is the continuation of a resolved promise, a microtask: weakly fair. `Release`
follows from what runs inside a gate settling: sharp and bcrypt do by themselves, a HEIC decode at
the latest when `HEIC_DECODE_TIMEOUT_MS` kills its worker (`heic.js:294-352`), and `finally`
releases either way. Arrivals and withdrawals are not fair: nobody has to come, or to give up. No
other run assumes fairness.

**profile.** `PhotoStays` holds under overlaps and names its two exceptions, which the code does
have: the removal and the guest delete unlink the file before they change the row, so a crash in
between leaves the row naming a deleted file; and an edit without a new photo writes the old path
back from a copy that may be out of date. `FilesMatchTheRow` says what is left when nothing overlaps
or fails: exactly the row's avatar; overlapping edits do orphan files. `AnswerIsTruthful` includes
issue 929: a
photo the gate turned away does not cost the guest the rest of the edit.
`CreditFollowsPhoto` names the one path that forgets the recount: joining with a photo.

*Bounds.* Three requests: a signup and two edits, the least with which an old photo, a new one and a
stale copy meet; two PINs tell the host's from the guest's. Requests and PINs are symmetric.

**parts.** `ScoresAgree`: the places equal their definition, the leaderboard's points equal the
profile's, a golden crown is the champion's, the statistics count what the scores count.
`StandingsAreKept`: crown and trail follow the likes, but for what a death inside a like left out.
*Bounds:* three guests and three photos (a task photo, two memories of another guest, a guest who
only likes), one paying place, so a like can push out and a tie let in; of avatar, flag and bonus
one is set at a time, since the terms they add do not meet. `PagesAreWhole`: windows meet, the
gallery is whole and the walk is without gap or double (*bounds:* pages of two, up to six photos,
two changes under an open page); and what the browser makes of an upload and its answer, in
`UploadPage` (two posts, one request of another tab), with three bounded comparisons of arithmetic.
`BatchesAreWhole` is the four properties of `Memories`: two batches, a clock of two, four kinds of
file lists.

**host.** `BadgesKeepTheirWord`: an owed celebration is announced, celebrated at most once, and the
standings are those of the release. `ReleaseKeepsCelebration` is an action property: a re-release
never takes back a seen celebration. *Bounds:* two guests, a threshold of one or two, three badge
changes, one guest's browser. `RankingIsTheHosts`: what is released is what was on screen or it is
refused with a reason (three photos, two ranks, two events beside the page). `WallIsTrue` (three
photos, two visits and moderations, one change by others).

**server.** `WindowsHold`: no stretch of time sees more than its limit. `LockoutsAreKept`: a lockout
ends early only by the named causes. `OnlyOwnPagesAct`: the CSRF check. *Bounds:* five requests,
three contacts of which two are alike, a lockout map of two and a limiter of one (so that eviction
and the full map happen), limits of two; the host's lockout and the guests' are followed one at a
time, since they share nothing but the clock and the restarts (the theorems follow them together).
`DataSurvives`: every start of every database converges in three starts. `ScriptsKeepTheirWord`: the
drain is bounded and patient, a crash loop ends and only a loop ends; a snapshot has its photos and
one survives (two photos, two runs, retention one; the photos are alike, so the first is called 1,
and the files of one stay). `KeepsakeIsWhole`: four rows of two guests, memories and a task, so that
a replaced photo meets the unique index, and two changes during the export.

**recap.** `ListsAreTrue`: the bell's count is what the pages render, compared with the panel at
rest, since neither the count nor a fresh document reads the panel's state; and the slideshow shows
the night once with one timer (every night of four photos of eight kinds). `PanelKeepsItsWord`: no
row is skipped or shown twice, opening reads what it shows. *Bounds:* three facts in two seconds,
pages of one row, one document. `CardsAreTrue`: a card with every answer in is the server's (two
photos, two taps). `ReportsArrive`: three posts and two touches of the host; four throws.

**tasks.** `SpecialsKeepTheirWord`: a task is one special at most and a day has one lucky task, a
banked bonus is explained by its task unless an edit overtook the upload, the instant computed for a
wall time shows it when any does, and a day whose midnight comes once, or starts a skip, opens at
its first instant. *Bounds:* two tasks, one photo, three host requests, days of four ticks up to
instant 10, a played zone that springs forward in the event, and the last part over 189 zones that
jump either way or not. `DialogsKeepTheirWord`: an untouched save keeps the task, a choice lands, a
Cancel held back being the last word on the flash, and a refused save is explained (days of two
ticks, two touches, one other host's edit, four boards and their mirror images). `ListIsTrue`:
markers, clocks and counts are what the tasks pay (six mornings), and drags leave one order (three
tasks, two pages, two drops). `DeskKeepsItsWord`: the checklist comes down to its tips exactly when
the host is free, the night ends no ranking that is due, and the configuration holds together (three
tasks, three deeds, three days, a new event or one under way). The tasks `t1` and `t2` are alike: no
definition chooses one, and the boards are closed under swapping.

Runs with bounded requests stop, and deadlock is not checked in them. Because the parts of a merged
run share no state, it explores exactly the union of their runs.

**Found on the way.** Beside the four disagreements: the bug list's "track" after "close" moves a
report back to `tracked`, although `bugs-export.js:53` says that it only advances
(`Reports!OnlyAdvances` states it); the slideshow is empty when the only visible photos are unliked
memories; `serve-resilient.js` restarts a child that was signalled alone, where its comment reads
"Clean shutdown"; the home page's bar can be full while a live task is undone, since a hidden task's
photo counts; a favourite's second, stale tap takes it back; the typed comment is dropped when the
dialog moves to another photo; the wall takes a task without a title for a memory; the comments
sheet of the export calls a memory `Task #null`; saving the configuration takes several writes, and
a death between them can leave a start after the end; `tasks.js:562` answers 404 to an address that
is no task id when multer has already stored the file, and leaves it there; a Cancel of a flash that
invalid minutes held back stays pressed, so the next save ends the flash although minutes were typed
after it; `event-days.js:267` promises the first real moment at or after a time that is skipped, and
half past two in a gap from two to three becomes half past three; a takedown of a photo its owner had
hidden records no event; an event in the second of a visit never becomes unread; a badge celebrated
on a page that never arrived is not celebrated again.

**What the properties let pass.** Where the code does what one might not want, the property names the
case, and a change for the worse within it would not be noticed: a bonus banked by an upload that an
edit overtook; a photo whose copy in the backup is half written, or that was replaced between the
copy of the database and that of the photos; the celebration of a lost page; a like tapped again
after the watchdog gave the button back, which counts as meant; an event in the very second of a
visit, or none at all for a photo its owner had hidden. The hazards of `PROJECT.json` without a
property are these and how full the disk is, and say so.

## 4. Proofs

All theorems hold for every value of the constants, from the assumptions named in the modules
(`SubmissionsAssumption`, `GateAssumption`, `ProfileAssumption`, `ScoringAssumption`,
`BadgesAssumption`, `AccessAssumption`, `CsrfAssumption`, `RecapAssumption`, `ClockAssumption`,
`SpecialsAssumption`, `DaysGoOn`, and of the compositions `NewsAssumption`, `ServerAssumption`,
`PartsAssumption`, `HostAssumption`, `DeskAssumption`, `OriginsAssumption`, `NamesAssumption`): sets
are finite or of numbers where the code's are, sentinels are not values, limits are natural. Three
say more. `DaysGoOn`: a local day never returns. `OriginsAssumption`: the database a start finds was
made by the app, at any version and cut off anywhere, or is empty. `NamesAssumption`: no two tasks
share both place and title in the export (places are unique, `TaskOrder`). TLC evaluates each of
them in a run.

| Run | Proved, of the properties it checks | Model-checked only |
|---|---|---|
| `submissions` | all eight | |
| `profile` | all four | |
| `gate` | `SlotsAreHeld`, `QueueIsLive`, `BacklogIsCapped`, `FirstComeFirstServed`, `KeepsThePromise` | `WaitersAreServed` |
| `parts` | `ScoresAgree`, `StandingsAreKept`, `BatchesAreWhole` | `PagesAreWhole` |
| `host` | all four | |
| `server` | all six | |
| `recap` | `PanelKeepsItsWord`, `CardsAreTrue`, `ReportsArrive` | `ListsAreTrue` |
| `tasks` | `SpecialsKeepTheirWord`, `DeskKeepsItsWord` | `ListIsTrue`, `DialogsKeepTheirWord` |

A theorem about a part of a composition is `...Spec => []P` for the composition's own specification.
`PartsIsScoring`, `HostIsBadges` and `ServerIsAccess` carry the theorems of the component a
composition is built around over to it; `TasksKeepSpecials` does so for `Specials`.

Types are proved with each, alone or as a part of the invariant.

**SubmissionsProofs.** No property is inductive: `RowsStayWhole` needs to know that no upload's
sweep can name a photo of another row. The invariant `IInv` says so in parts: at most one
synchronous stretch is open (`OneStretch`); a hard delete works on existing rows (`PurgeIsSound`); a
photo in a row was put there by its own upload, once, for that upload's pair (`PhotoOwners`); an
upload's files exist until it writes (`FilesArrive`); the row copy an upload holds names no photo
another upload still has to write, and none its own row still shows while it sweeps
(`ReadsAreUsable`, `CopiesAreHeld`); a row an upload relies on disappears only with its guest or
task (`RowsAreKept`); and within a stretch the copy still tells the row's visibility
(`VisibilityIsKnown`, `NotAnsweredYet`). `BadgesAreFresh` and `LeaksAreAccountedFor` rest on a
second invariant beside it, `AccountsInv`: while nothing has failed, a recount differs from what is
visible only for the pair of the stretch or the hard delete under way; a hard delete misses no row
and leaves no file of the rows it takes; and a replaced photo that is still on disk is about to be
swept by the upload that replaced it. One lemma per action and part.

**GateProofs** includes the refinement `KeepsThePromise`. The invariant adds to the properties that
the holders are finitely many (so that cardinalities can be computed with) and that nobody waits
beside a free slot, which is what makes `Leave` and `HandOver` of `SlotGate` match `Release`.

**ProfileProofs.** `IInv` has again one open stretch, and says what each stage of a request implies
(`Stages`), that the row and all copies name only photos whose upload has put them there (`Names`),
hence that a sweep or an unlink never hits a photo on its way (`Disk`). `FilesMatchTheRow` needs
`Tidy`, the directory's content at every step of a lone request; `CreditFollowsPhoto` is inductive
beside `IInv`.

**ScoringProofs.** `RowsRefer` (no like of a photo that is not stored) and the fact that a fresh
photo brings no likes carry `StandingsAreKept`: every action either leaves the placing set alone or
records its difference. The places are computed by sorting; that the photo in place n has n - 1 in
front of it is proved without induction: the map from a photo to the number in front of it is a
bijection, by cardinality. The sums of `ScoresAgree` are folds, which are recursive functions over
the subsets of a finite set; that they may be taken element by element, in any order, and split,
is proved by the smallest counterexample, so that the leaderboard's one query and the profile's
terms can be compared. `MemoriesInv` has three parts: what each stage of a batch says of its files
on disk (`FilesInv`); that the decode slot is held by the batch whose decode runs and by nobody else
(`SlotInv`); and that the attempts a limiter still counts and the history of admissions agree on
every stretch of time that can still be asked about (`WindowsInv`).

**BadgesProofs.** `BadgesInvariant` adds to the types what each held badge says of its release, and
that the crown is remembered by who wears it: only that keeps a crown that flaps from being
celebrated twice.

`RankInv`: outside a drag the rows of the list are the picks; the page shows what it loaded or what
the host made of it; a list under a drag can be released, and the dragged row is in it unless a
re-render took it out; what a fresh page posts can be released. `WallInv`: the open page is one the
server rendered, the group the viewer steps through is the one that shows, and the feed under it
stands at the card that was acted on.

**AccessProofs.** `AccessInvariant`: while a lockout is off, its count is at least the failures
inside its window, while it is on they all lie before it; a bucket's count accounts for what its
window let through, and what an older window let through lies before it. That a window of time holds
the newest entries of a history is a suffix by cardinality. Eviction is why the lockout property
names its case: the evicted contact is the one whose lock ends first. `OnlyOwnPagesAreLetThrough` is
for every width of a token.

`LifeInv`: the timer that ends a drain is armed as long as one drains, and time spent plus time left
make the timeout; a stop reaches the child; the restarts of the window are the ones that happened in
it. `BackupInv`: the script copies rows before files and the server writes files before rows, so
the files of a snapshot's rows are in the store or still to be copied; a snapshot is marked only
when they are there; and the newest one is never the one retention deletes. `BootInv`: the
database is the app's at every statement; what the steps before the current one make is made
(`Ready`); and it says what the first one said but for the backfills a death cut. Under it lies one
lemma for each of the 33 steps: run from any of its own statements, it ends in what it makes and
undoes nothing, but for the four whose backfill hangs on the column they add. `ExportInv`: a photo
that stayed is in the reads, in the queue or in the archive; entries differ in row and in name; and
while nothing was touched the sheet is what there is.

**RecapProofs.** `RecapInvariant`: what the document knew of is on its first page, or is older than
all of it and more is announced; the cursor is the end of what was paged and everything not yet
paged lies behind it; one page at a time is asked for with a cursor; ids are fresh. Its merge lemma
says that the newest n + 1 rows of each source suffice for the newest n + 1 of all: a row left out
by its source has n + 1 of that source in front. The front element of a finite set is found by the
well-founded order of strict inclusion.

`CardInv` says of each request on its way, and of each whose guard was given back, what its answer
will make of the card, and that the comments on it are the thread's as far as answers are in.
`ReportsArrive` rests on the reports' ids growing with the clock, so that a duplicate is found by
the newest of its kind, and on the dedupe map holding, of every crash, the last time it was logged
unless it was evicted.

**SpecialsProofs.** `SpecialsInvariant`: a row is whole and is one special at most at every
comparison with today and now, so that passing time cannot make it a second one; lucky days are
apart; every photo that no edit overtook is explained. Below it lie the calendar lemmas: a later
tick is no earlier a day (where `DaysGoOn` enters), a day whose midnight comes once or starts a skip
opens at its first instant (`DayOpensOnce`), and the code's two candidates find an instant that
shows the wall time whenever there is one, in every zone of one jump, either direction.

`DeskInv`: types, that the rankings due before a night are due after it (`DueStays`), that a tick is
where the last click put it, and the clauses on the configuration, which are inductive as they stand.
The checklist is a concatenation of six lists, each the list of a set, and empty exactly when the
condition of its rows holds nowhere: so no row is left exactly when the host is free.

**Left to TLC, and why.** `WaitersAreServed` is liveness under fairness, which needs ENABLED.
`PagesAreWhole`, `ListsAreTrue`, `ListIsTrue` and `DialogsKeepTheirWord` have no theorem yet: they
speak of `Feed`, `Screens`, `UploadPage`, of the bell's count and `Slideshow`, of `TaskList` and
`TaskOrder`, of `TaskDialog`. The first two count and join sequences built by folds and
`SelectSeq`, whose recursion only a proof for each sequence operator would reach; the bounded
comparisons of arithmetic in `UploadPage` and of the dialog's calendars in `TaskDialog` are over
widths and wall times the code fixes, which TLC enumerates. A refused action of a run, and what its
bounds leave out, is no matter for the theorems: they hold with and without.

## 5. Not modelled

Names, captions, wording, templates; the multer parser (a request's file is there or not); sharp's
work on pixels; disk space; histograms, the QR and the badge poster; the guests page of the hosts;
the gallery's Show more and the photo page's own writes; the badge picker's search; the tests' CSRF
bypass; seeding, load and smoke scripts and the tooling of the repository.

Of the 43 500 lines counted as implementation nearly half are comments, 7 000 are the icon data of
`badge-icon-tags.js`, and the load tests are among them; the map names the lines each definition
stands for, about 30% of the total.

## 6. Plan

Every module of the plan is written and checked, and all but five of the runs' properties are
proved. What is left is proof, in this order:

1. `TaskOrder` and `TaskList` (`ListIsTrue`): the order is one after every drop that was answered;
   each marker and clock of the list says what its task pays.
2. `Feed` (`PagesAreWhole`): a window joined to the one before it skips nothing that stayed.
3. The bell (`ListsAreTrue`): its count is a union's cardinality; keys that are texts of numbers
   need a model of their comparison that says only that it is a total order.
4. `TaskDialog` (`DialogsKeepTheirWord`): the action properties of a save, field by field.
