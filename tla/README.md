# A verification development for wami

wami is a Go program that sends WhatsApp messages at planned times. Its users
plan messages, to a number or to a group of numbers, once or every day, week or
month, with or without a picture from an archive; a goroutine looks every 30
seconds for what is due and sends it; another keeps the WhatsApp connection and
shows a QR code until a phone has scanned it.

This directory holds TLA+ models of it, TLC configurations that check them on
small instances, and proofs, checked by TLAPS, of the properties that matter most
for instances of any size. `PROJECT.json` lists the runs, what each definition
models, the hazards, the findings, and the theorems.

    tlc -config SchedulerChain.cfg MCScheduler      # a run
    tlapm SchedulerProofs.tla                       # the proofs of a module

## 1 The system

| component | source | state | operations | talks to |
|---|---|---|---|---|
| scheduler | `scheduler/scheduler.go` | the snapshot of a tick and the position in it | `Run`, `process`, `send`, `nextSchedule` | reads and writes the tables, sends through the client |
| message and group tables | `store/db.go` 161-324 | `scheduled_messages`, `contact_groups` in bot.db | one SQL statement each | called by scheduler and handlers |
| schedule and group handlers | `web/handlers.go` 56-147, 365-423 | none | submit, delete, create, rename | tables |
| direct sending | `web/handlers.go` 462-536 | none: only what its goroutine holds | `handleSendImage`, `handleMediaTree` | groups, files, the client |
| media archive | `web/handlers.go` 149-352, `store/db.go` 360-532 | `media_folders`, `media_files`, the directory uploads/ | create, upload, rename, delete a file, delete a folder with what is in it | the scheduler reads paths and bytes |
| WhatsApp client | `wa/client.go` | `qrCode`; the device store and the connection are whatsmeow's | `Start`, `loginWithQR`, `Logout`, `SendMessage`, `SendImage`, `GetGroups`, `handleEvent` | whatsmeow; called by scheduler and handlers |
| reset | `web/handlers.go` 612-623, `store/db.go` 562-573 | none | deletes every table, then uploads/ | all tables |
| sessions | `web/auth.go`, `web/server.go` | a map from token to expiry, in memory; a cookie in each browser | login, check, logout | every handler |
| support tickets | `web/handlers.go` 538-603 | `support_tickets` | create, reply, delete | - |
| message templates, history | `store/db.go` 240-267, 326-356 | two tables | insert, list, delete | nothing reads the history |
| pages | `templates/`, `web/handlers.go` 35-75, 626-657 | what a browser was sent | draw, submit, poll | show what the tables and the client hold |
| process | `main.go` | - | starts two goroutines and the server; ends on a signal | all |

What is shared is bot.db, which is opened without a busy timeout, the directory
uploads/, and the connection. There are no locks across statements and no
transactions over two of them. `main` returns on a signal without waiting for
the goroutines. Only the databases and uploads/ survive a restart.

What is hard:

* `process` works on a snapshot, for up to two minutes per recipient, while users
  delete and reset what it is working on.
* It writes twice after a message, the next occurrence and the mark; either write
  may fail, and the process may die before, between or after them.
* A send has three outcomes, not two: it may arrive and count as failed.
* A message names a group by its id and finds its members only when it is sent.
* `Start` follows a library that reconnects, closes connections after pairing and
  ends its channel, each at its own time.
* Dates: repetitions are computed in UTC, and users think in Istanbul time.
* Every form is filled in on a page of an earlier moment, and names rows by ids
  that may be gone when it arrives.
* A picture sent at once leaves no record, and its request ends with its browser.
* Tabs share a cookie, and the answers that set it arrive in any order or never.
* Deleting a folder is two walks over folders others are changing. No handler looks
  whether the folder a form names exists, so the folders need not be a tree.

What makes each component correct:

* scheduler: nobody gets a message twice, or one meant for others, or one that was
  deleted; every message that can be sent is sent; a repeating message goes on,
  once, for as long as its plan exists;
* repetition: it moves forward, evenly, and is shown at the hour submitted;
* client: it always comes back to a connection or to a code that can be scanned;
* archive: what nobody deleted stays; what was deleted never comes back; no folder
  comes to be inside itself; a deletion ends and is complete;
* direct sending: one submission reaches nobody twice, nobody its page did not
  mean, and ends;
* sessions: nothing is done for a session that is over, and nobody with one that
  is not is turned away;
* tickets: a deleted one stays deleted; nobody replaces an answer he was shown;
* pages: the connection card follows the client; a plan has one place in the year.

## 2 The modules

| module | what it models |
|---|---|
| `Delivery` | abstract: what wami promises for one message - not before its time, not again once marked, not marked unless somebody got it |
| `Media` | abstract: what the scheduler may rely on in the archive - files appear under fresh ids, lose their row and their bytes in either order, never come back |
| `MessageStore` | the tables `scheduled_messages` and `contact_groups`, one operator per SQL statement; extends `Media` |
| `Scheduler` | `Run`/`process`/`send` in steps, and everything that runs beside it; extends `MessageStore` |
| `MCScheduler`, `SchedulerProofs`, `DeliveryProofs` | its instances; its invariant and what follows; that it implements `Delivery` |
| `DirectSend`, `MCDirectSend`, `DirectSendProofs` | `handleSendImage` in steps, and the page of /schedule it is asked from; extends `MessageStore` |
| `Calendar`, `CalendarProofs` | `nextSchedule` on dates, time zones, order of stored times |
| `Takvim`, `MCCalendar` | the year view drawn for the plans of `Calendar`; instances of both; proofs in `CalendarProofs` |
| `WAClient`, `WAClientProofs` | `Start` and `loginWithQR` against whatsmeow |
| `StatusPage` | the connection card in a browser beside the client; extends `WAClient`; proofs in `WAClientProofs` |
| `Archive`, `ArchiveProofs` | the archive's tables, uploads/ and handlers in steps |
| `Sessions`, `MCSessions`, `SessionsProofs` | `auth.go`: login, middleware, logout, with cookies and requests under way |
| `Desk`, `MCDesk`, `DeskProofs` | the support tickets and the pages they are asked from |

`Archive` implements `Media` and `Scheduler` implements `Delivery`; both are
checked as properties of a run and proved. So the scheduler and the direct sends are
checked against anything the archive can do, and not with all of the archive's state.

### Scheduler

The variables `pc`, `batch`, `cur`, `todo`, `sentTo` are where `process` and
`send` are: `batch` is the rest of `msgs`, `cur` is `msg`, `todo` the JIDs still to
be tried, `sentTo` those counted in `sent`. One iteration is

    Load -> Take -> SendOk | SendFails | SendLate, per JID
         -> Retry                                      sent == 0 && total > 0
         -> Reschedule | RescheduleFails | NoReschedule -> Mark | MarkFails

A tick is one of `Load` and `NothingToDo`. A table is the function of all rows ever
inserted, with the set of ids still present: no statement rewrites a column other
than `sent` and names. Two columns of a row are not in the database: `origin`, the
first row of a chain of repetitions, and `wanted`, the JIDs the target named when
the message was submitted; the properties need them. `delivered`, `faulty`, `lost`
are ghosts too; no guard reads them. `faulty` collects the messages whose handling
a fault interrupted after somebody may have got them: a late answer, a failed
`MarkAsSent`, a crash between the first send and the mark.

Left out: message texts and captions, names, the history, logging, the order of
JIDs within a group (each can fail on its own, so no order is privileged).
A date is a natural number here; `Calendar` says what the period of a rule is.

### DirectSend

`click[r]` is the r-th submission of the form and where its request is: `asked`,
`found` after `GetMediaFile`, `sending` after `GetContactGroupJIDs`, `done`. In
between every JID is one `ReadPicture` or `ReadFails` and then one `SendOk`,
`SendFails` or `SendLate`, the three outcomes a send has in the scheduler too;
`left` says that the browser is gone and with it the context of the request. `page`
is what the user looks at, and `wanted` (a ghost) whom he means by it. The page is
drawn by `ScheduleForm` and completed by `MediaTree`, a request of its own. Several
submissions may be under way. The handlers of the groups run beside them, and
`Media` stands for the archive.

### Calendar and Takvim

A time is a year, month, day and hour; minutes go along unchanged. `AddDate` is
translated from what Go documents of `time.Date`, normalising months and then
days, and it is checked against a day count (`DayNumber`), which is defined
without it. Turkey has been at UTC+3 without summer time since 2016, so years
before 2017 are excluded by assumption.

`Takvim` is `MonthCard` and the query for its badges, applied to the plan `Calendar`
is repeating. `time.Weekday` is external and stands there as Zeller's congruence.
The two properties relate the year view to what the index page shows: the one badge
of a plan, and the column of a weekly plan over all ends of months and years.

### WAClient and StatusPage

`pc` is where `Start` is: `top`, then `id` between the reading of `IsConnected`
and that of `Store.ID`, then `channel`, `dial` and `events` for `loginWithQR`, or
`connect`, `backoff`, and `wait` for `<-ctx.Done()`. whatsmeow is not part of the
repository and is modelled by what `Start` relies on: `GetQRChannel` refuses a
connected or paired client, the channel ends with one event that is not a code, a
connection that has paired is ended by the server, and a paired client that has
been connected reconnects by itself. The events it sends are queued, so they may
be read after what they report is out of date.

`StatusPage` puts a browser beside it. `card` is the card on the screen, or which
read of `handleIndex` is next: it asks `IsConnected`, `IsLoggedIn` and `GetQRCode`
one after the other while `Start` goes on. `image` is a copy of the code that was
valid when `/api/qr.png` was answered. Only the card with a code has a script; it
stops being answered when a restart takes the browser's session away.

### Archive

Each handler is the steps it takes on the disk and on the tables. A folder's
deletion is the walk of `deleteMediaFolderFiles` (`erasing`) and that of
`DeleteMediaFolder` (`emptying`, then `closing` on the way back); a visit sees the
files and folders that are there at that moment. The walks are depth first; the
model lets folders side by side be visited in any order, which allows more. Every
`os.Remove` and every DELETE may fail, as the code ignores their errors, and so may
the query for the folders within (`Within`).

Folders and files are put under any `Address`: the root, a folder, one that is gone,
or an id that is still to come. `handleFolderCreate` and `handleFileUpload` take what
the form says, and `handleArchive` draws their forms for any `/history?folder=N`. A
folder that is created under its own id, or under a folder that is inside it, is
inside itself; `early` (a ghost) collects the folders put under an id not yet given
out. `Around` is what following parent ids leads to, on a tree or round a circle, and
`InItself` says that this leads back. On a tree the calls for the folders within
return before a folder's own row is deleted (`NoneWithin`). Round a circle a call
returns only when a query fails somewhere; which row goes first depends on where, so
the model allows any order, and calls that delete a row while outer ones for the same
folder are still under way (`CloseInner`). Ids are bounded by `MaxFolder`; a larger or
a negative one would be an address that is no folder yet, or never. A form for a
deletion names what is listed on a page, so anything but the root.

One upload, one deletion of a file, one deletion of a folder and one reset are under
way at a time; all of them interleave, and folders are created meanwhile. Two
instances of one handler beside each other are not modelled.

### Sessions

A request is `sent` with the cookie of that moment, `passed` when `authMiddleware`
has let it through, and `answered` when there is a `Set-Cookie` under way, which
`Receive` applies and `Lose` drops. Tokens are 32 random bytes: no two are equal, and
here they are numbers. The clock runs between any two steps, so the middleware looks
at a time the handler may already be past. `over` (a ghost) collects the tokens that
were logged out of or that a restart forgot.

### Desk

A page is the table of the moment it was drawn; `HandleTicketReply` and
`HandleTicketDelete` take a ticket of any page, however old. The text of an answer is
the tab it was written in.

## 3 The runs

| run | bounds | checks |
|---|---|---|
| SchedulerGroups | 1 message, text or picture, 2 groups of {a} or {a, b}, 1 file, 1 outage, 1 reset, times 0-1 | `NoDuplicate`, `OnlyIntended`, `ImplementsDelivery` |
| SchedulerChain | 3 rows of a chain, 1 outage | `TypeOK`, `Inv`, `OnePendingPerChain`, `SuccessorExists`, `DeletedIsFinal`, `ImplementsDelivery` |
| SchedulerSettles | 2 messages, 1 group, 1 outage, fair | `Settles` |
| DeleteRace | 2 rows | violated: see findings |
| DirectSend | 2 recipients, 2 groups, 1 file, 1 click, 1 outage, fair | `DirectInv`, `OncePerClick`, `OnlyMeant`, `EveryClickEnds` |
| CalendarEdges | all dates of 2023, 2024, 2100, four hours, 14 repetitions | `TypeOK`, `EvenlySpaced`, `ShownAsSubmitted`, `MonthlyDrift`, `OneBadge`, `WeeklyInColumn`, `StrictlyLater` |
| ClientPairs | 3 faults, 1 logout, fair | `TypeOK`, `RestsReady`, `NeverInVain`, `NeverStuck`, `PairedLogsIn`, `QRCardEnds`, `ScannableOnScreen` |
| ClientLogout | 1 fault, 1 logout, fair | violated: see findings |
| Archive | 2 folders, 2 files, 1 reset or restart, fair | `TypeOK`, `OnlyEarlyLoop`, `OnlyAskedVanish`, `ImplementsMedia`, `DeletionEnds` |
| FolderLeftovers | 1 folder, 1 file | violated: see findings |
| Sessions | 1 browser with 2 tabs, 3 tokens, sessions of 2 units, 1 restart | `SessionInv`, `AdmittedInTime`, `RefusedInTime` |
| Desk | 3 tabs, 3 tickets | `DeskInv`, `DeletedTicketStays`, `ReplacedUnseen` |

The bounds are chosen by what a violation needs. A duplicate or a wrong recipient
needs one message, two recipients and a second group after the first; a fork of a
chain needs three rows: the one sent, and two next ones. The period is one unit of
time, so a repetition falls due within the run. A direct send goes astray with one
click, a group deleted after the page was drawn and one created in its place; it has
a second recipient to go on to after the first failed. The years of CalendarEdges are
a common year before a leap year, a leap year, and a century that is none, and
fourteen months pass every end of a month and a year's end; the four hours are on
both sides of the change of day in both zones. Three faults let `Start` meet any two
faults and recover from them. In Archive two folders are enough for one in the
other, for one created in a folder that is being deleted, for one inside itself and
for two inside each other. Two tabs let a login
and a logout overtake each other and a third token replace one; three units of time
outlive a session of two. Three tickets and tabs let one ticket be deleted, another
created, and two users answer it from pages of different ages.

Deadlock is checked, except where the model does stop: when the repetitions of a
calendar run are used up, and when `Start` only waits and nothing is left to
happen to it within the bounds.

### Fairness

* `Scheduling` and `Tick` are weakly fair: the goroutine and the ticker run.
  `GoOnline` is: whatsmeow reconnects. Taking a message that is due, sending to a
  JID and marking are strongly fair: no database or network error is permanent. A
  message, its group or its picture may be deleted at any time, so `Settles`
  leaves out those that cannot be sent any more. The number of outages is bounded.
* `Start` is weakly fair, its two dials strongly so: a server that is tried again
  and again is reached. Nobody has to scan a code.
* A folder's deletion that has begun goes on: one handler's goroutine. Fair is a step
  in which the query for folders succeeds (`WalkOn`): that one fails, which would end
  a walk round a circle, is never certain. Others may go on creating folders in it;
  the bound on folders makes this finite.
* A direct send is weakly fair for each click: net/http gives every handler its own
  goroutine, and every call it makes returns, with an error if need be. Nothing says
  that a send succeeds.
* The index page is answered and its script asks on. Its requests are strongly fair
  at the moments a code is valid (`Poll` and `FetchImage` with a valid code): a code
  is valid for 20 seconds or more, its successor follows at once, and the script asks
  every 15 seconds, so requests do fall into these times.

Users, outages, resets and restarts are never fair.

### Findings

Three runs show a difference between what the code does and what it says it does;
in each, TLC finds the property violated.

* **DeleteRace** - a plan deleted while it is being sent is inserted again from the
  snapshot (`scheduler.go` 67), after the user confirmed its deletion.
* **ClientLogout** - after a logout the code is not shown again until the process is
  restarted (`client.go` 87), because `Start` is called once and then only waits.
* **FolderLeftovers** - a folder is deleted without the rows of its files
  (`db.go` 430), when these deletions fail behind their own open query.

Others were met while modelling, and need no run of their own:

* The error of inserting the next occurrence is dropped and the message marked as
  sent (`scheduler.go` 67); the comment above it says both are done. A repeating plan
  ends unnoticed. `SuccessorExists` shows that nothing else ends one.
* A folder can come to be inside itself: `handleFolderCreate` takes any `parent_id`
  (`handlers.go` 175), and the page of an id that is given out next has its form, by
  a typed address or left open from before bot.db was replaced. From such a folder the
  loop of `GetFolderBreadcrumb` (`db.go` 402: "returns ancestors from root to given
  folder") does not end, and both walks of its deletion go on until a query fails or
  the stack is full. `OnlyEarlyLoop` shows that this is the only way into a circle.
  `DeletionEnds` leaves out targets inside themselves; without that, TLC shows folder 1,
  created under 1, being visited for ever.
* "Every month" is computed on the UTC date (`scheduler.go` 83): a plan for 1 March
  01:00 repeats on 29 March. What does hold is `MonthlyDrift`: a monthly plan skips at
  most one month in its life, and only plans of a month's last days move.
* The card that asks its reader to wait never asks again (`index.templ` 83).
* The map of "active session tokens" (`auth.go` 29) keeps those that have expired.

`NoDuplicate` and `OnePendingPerChain` leave out the messages and chains in `faulty`,
and `SuccessorExists` those in `lost`. So they show that the faults of these ghosts are
the only causes of a duplicate, a fork or an end, not that none happens: after a late
answer, a failed `MarkAsSent` or a crash in between, a message does go out twice.

And some are silent rather than wrong: messages missed while offline all go out, one
per tick; the answer of `handleSendImage` does not tell who got the picture; the list
of plans ends after the hundred latest.

## 4 The proofs

All are for every value of the constants within the named assumptions: any
recipients, any numbers of rows, groups, files and faults, any forms and groups.

`SchedulerProofs` proves `Inv` inductive and derives from it

    TypeCorrect      Spec => []TypeOK
    SentAtMostOnce   Spec => []NoDuplicate
    RightAudience    Spec => []OnlyIntended
    ChainContinues   Spec => []SuccessorExists
    ChainNeverForks  Spec => []OnePendingPerChain
    DeletionIsFinal  Spec => DeletedIsFinal

None of the properties is inductive. `NoDuplicate` needs `LoopOK` (a message of the
snapshot is not marked as sent, and there once) and `SendOnce` (a message that can
still be taken has reached nobody; the one being sent has reached exactly those in
`sentTo`). `OnlyIntended` needs `AudienceOK`: members are known for every group a
row names, and what a target expands to is what it named when submitted; it rests
on ids that are not used again. `SuccessorExists` needs `NextPlanned`: at `mark` the
next row is there. `OnePendingPerChain` needs two facts beside `Inv`. `LastIsActive`:
of the rows of a chain no fault hit, only the last is pending or held by the loop,
except that the one at hand stays until it is marked; so the row `process` inserts
follows the last one, and a submitted row begins a chain of its own. `Reaching`: no
group is empty, so whatever is at `mark` has reached somebody, and a crash there is a
fault of the message.

`CalendarProofs` is about every form, all years and any number of repetitions:

    NextIsLater, TypeCorrect, RepetitionsAdvance    times exist and move forward
    OneSkipAtMost             Spec => []MonthlyDrift
    ShownWhenSubmitted        Spec => []ShownAsSubmitted
    RepetitionsEvenlySpaced   Spec => []EvenlySpaced
    BadgedOnce                Spec => []OneBadge
    WeeklyKeepsColumn         Spec => []WeeklyInColumn
    StoredOrder               Before(ToUTC(s), ToUTC(t)) <=> Moment(s) < Moment(t)

They rest on a small theory of the civil calendar. `LeapYear` relates the divisions of
`LeapsBefore` to the test of `Leap`; with it a month (`ElapsedMonth`) and a year
(`ElapsedYear`) begin when the one before is over, so `AddDate` adds exactly the days
it is given (`DaysCounted`), the day before and the day after undo each other
(`DayBefore`, `BackAgain`), and so do the two zones (`ThereAndBack`). The invariants
are about the stored times: the hour is that of the first one (`Stored`), the days
are whole steps from it (`Counted`). Zeller's congruence is the same count modulo
seven (`WeekdayCounts`), and a column of the year view another (`ColumnCounts`), so a
weekly plan cannot leave its column. `StoredOrder` is what lets `Scheduler` take a
date for a number: the texts the query compares are in the order of the hours, for
any two forms (`YearsApart`, `MonthsApart`, `ThreeHours`).

`WAClientProofs` proves `RestsReady`. Its invariant follows the connection
along the steps of `Start`: what is known at each `pc` of the pairing, the channel
and the queue, although any of them may change between two steps. With one fact more,
that an open channel being read still has its connection (`Served`), it also yields
`NeverInVain`: `Start` never blocks on what nobody will bring, which is the safety half
of `NeverStuck`. `TypeCorrect` holds after logouts as well, and has an invariant of its
own: a client that is not paired is connected only while `Start` reads the channel or
has stopped acting (`Wired`), so `GetQRChannel` does not refuse it, and an event that
ends the channel is the last one in it (`Shape`). `PagesOnlyRead`, PageSpec => Spec,
says that a browser beside the client changes nothing about it; so the theorems above
hold of `StatusPage` too.

`ArchiveProofs` proves `TypeCorrect`; `MediaKept`, Spec => ImplementsMedia; and
`LoopsAreEarly`, Spec => []OnlyEarlyLoop. The type invariant says that nothing is left
to visit when a deletion has returned. It needs `WalkOK`: the second walk of
`handleFolderDelete` begins when the first is over, and a folder it is yet to visit is
the target or lies in one that waits for it, on a tree or round a circle. `MediaKept`
needs `UploadOK` and paths that are never used again: a written upload becomes a file
nobody had before (`Appear`), and every other step only forgets rows or erases files.
`LoopsAreEarly` rests on `EarlyOK`, that a folder put under an id given out before is
younger than it, and so on ids that grow: without an early folder on the way, nothing
around the one a folder is in is as young as the folder itself.

`Around(d)` is in every set that has d and, with a folder, the one it is in. This takes
no recursion, and so no induction: that something is around d is shown by giving such a
set (`AroundLeast`). From it follow how the folders around one are composed
(`AroundIs`), that no step takes any of them away (`AroundGrows`), and that all on the
way round a circle are inside themselves (`LoopShared`).

`OnlyAskedVanishes`, Spec => OnlyAskedVanish, says that nothing else is ever lost. Its
invariant has two parts: every folder a walk has to visit has the target around it
(`Asked`), and no two rows, nor a row and an upload, share a path (`PathsOwn`), so that
removing the bytes of one file never takes those of another. `DeletionGoesOn` is the
safety half of `DeletionEnds`, and holds round a circle too: a deletion under way
always has a folder to visit, or one to close with none left within, namely the one
with most folders around it (`DeepestOf`); and a walk comes to a folder inside itself
only if it began at one.

`DeliveryProofs` proves `PromiseKept`, Spec => ImplementsDelivery. `Inv` does not say
enough for it: `LoopPromise` adds what the loop knows of its message - it is due, it
is for somebody, those in `sentTo` have got it, and `mark` is reached only after
somebody has - and `NoEmptyGroup` that no group is without members, as
`handleGroupCreate` refuses one; a message to nobody would be marked without having
been delivered. With them, an insertion is an `Issue`, a send a `Deliver`, `Mark` a
`Finish`, a deletion or a reset `Withdraw`s, the clock `Pass`es, and every other step
leaves the abstract message alone.

`DirectSendProofs` proves `DirectInv` inductive, and from it `SentOncePerClick` and
`SentAsMeant`. Neither property is inductive: the first needs that whoever a click
still has to reach has got nothing from it (`ClickOK`), the second that a page's
groups still mean what it shows (`PageOK`), which rests on group ids that are not used
again and on members that are never rewritten.

`SessionsProofs` proves `SessionInv` inductive: the map holds exactly the tokens that
are not over, each with its expiry, expired or not. `AdmissionInTime` and
`RefusalInTime` are then statements about one step. `DeskProofs` does the same for the
tickets: a form is on a page only where the page shows no answer, so whoever replaces
an answer has not been shown it (`RepliesAreUnseen`).

All invariants, action properties and refinements that the passing runs check are
proved. Only model-checked are the liveness properties, which rest on fairness and
so on ENABLED, out of the prover's reach: `Settles`, `EveryClickEnds`, `NeverStuck`,
`PairedLogsIn`, `QRCardEnds`, `ScannableOnScreen`, `DeletionEnds`. Two of them have their
safety halves proved, as said above. The three violated properties are refuted by a
run and need no proof.

## 5 Not modelled

Message templates are texts that are copied into a form; the history is written and
never read (`GetHistory` has no caller). No route leads to the year view and nothing
calls `GetScheduledCountByDay`; both are complete and are modelled beside `Calendar`,
not as a page somebody has open. Names of groups and folders are left out, so
renaming is a step that changes nothing. The page of the archive, layout, static
files, the encoding of the QR code, the bytes of an upload and the start-up failures
are input and output without state.

## 6 Plan

Done, the most important behaviour first: `Delivery`, `MessageStore`, `Scheduler`,
`Calendar`, `WAClient`, `Media`, `Archive`; then `DirectSend`, `Sessions`, `Desk`,
`StatusPage`, `Takvim`, and the refinement of `Delivery`.

Then their proofs: the type invariants, the refinements of `Delivery` and `Media`,
`OnePendingPerChain`, the civil calendar, `OnlyAskedVanish`, and the page beside the
client; at last the archive once more, with folders under any id. Left: the safety halves of `Settles` and `EveryClickEnds`, that a tick and a
click always have a step to go on with.
