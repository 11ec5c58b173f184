# Signage backend in TLA+

A model of the backend in `src/`: a NestJS service over PostgreSQL and an S3
bucket that takes poster, banner and story submissions for campus TVs, has them
reviewed, and tells each TV what to play. Several pods run the same code; they
share nothing but the database and the bucket.

All paths below are relative to `src/src/`.

## The system

| Component | State it keeps | Operations | What makes it hard, and what makes it correct |
|---|---|---|---|
| Submission lifecycle (`submissions/`) | `submissions`, details per kind, target groups | create, update, submit, cancel | Every handler reads the clock, reads the row, checks, then writes. The only guard at the write is `version`. Content on a screen is content a reviewer approved; closed submissions stay closed. |
| Kinds (`submissions/kinds/`) | columns and detail rows of posters, banners, stories | resolve a form, patch, respond, make items for TVs | A form is checked before the transaction that stores it and read in two queries. Whatever is stored could have been asked for as a whole. |
| Reviews (`reviews/`) | `reviews` | approve, reject, suspend | Reviewers race one another, the requester and the job. One decision per revision. |
| Status job (`jobs/submission-status.job.ts`) | none | end, publish, schedule every minute | Runs while handlers commit; must catch up with the clock and never run ahead of it. |
| Playlist (`playlist/`) | none (reads) | what a device plays now, in two versions | Selects by status, period, target groups; must agree with the lifecycle. |
| Media uploads (`assets/assets.service.ts`) | `assets`, the bucket | presign, complete | No transaction spans row and bucket; complete may run twice at once or die anywhere. A READY asset is playable for as long as it is used. |
| Video queue (`assets/video-processing.service.ts`) | claim columns of `assets` | claim, convert, give up | Pods that stall or die with a claim; late results. Every queued video is decided, once. |
| Asset cleanup (`jobs/asset-cleanup.job.ts`, `storage/`) | `storage_deletions` | delete unused rows, drain the deletion queue | Races with complete and with new submissions; no used file deleted, no unused file forgotten. |
| User roles (`users/user-roles.service.ts`) | `user_roles`, audit log | grant, revoke | Guards judge by roles read earlier; an administrator always remains, and the log explains every role. |
| Login and guards (`auth/`, `idp/`, `users/users.service.ts`) | `users` | login upsert, token checks | Identity provider I/O. |
| Idempotency (`common/idempotency/`) | `idempotency_keys` | claim, complete, release, expire | A 30 s lock that a slow handler outlives. One execution per key while the lock lasts. |
| Devices and target groups (`devices/`, `target-groups/`) | `devices`, `device_target_groups`, `target_groups` | create, update, rotate token, remove | Checks before the transaction that depends on them. The program group of a device is one of its groups. |
| Programs, lineups, live (`programs/`, `lineups/`, `live/`) | `programs`, `group_lineups`, `lineup_blocks`, `live_states` | create/update/remove, replace under a version, set/clear | References in foreign keys and in jsonb; targets checked outside transactions. Nothing refers to what is gone. |
| Resolution (`lineups/resolve-lineup.ts`, `live/resolve-live.ts`, `lineups/quiet-hours.ts`) | none | which block, which override, whether quiet | Precedence of device and groups; exceptions that outlive their block; windows that cross midnight. |
| Realtime (`realtime/`) | sockets, rooms, budgets, in memory | join, relay, disconnect, batch change notices | Asynchronous authentication against token rotation; limits counted late. |
| Telemetry and statistics (`device-telemetry/`, `jobs/play-event-aggregation.job.ts`, `stats/`) | `play_events`, `play_event_daily`, `job_watermarks` | record, aggregate, expire | Resent batches, events that commit late, retention. |
| Slack notifications (`notifications/`, `jobs/device-offline-alert.job.ts`) | `slack_notifications`, delivery and alert state | detect, enqueue, lease, send, retry | Leases that run out while a message is being sent; outage and recovery in order. |
| Audit, categories, policy, stories, HTTP shell | `audit_logs`, reference data | append, read | Plain reads and writes. |

How they interact. A submission refers to an asset, to target groups and to a
category by foreign keys; creating one asks `checkMediaAsset` whether the asset
is READY. Reviews write the submission's row and their own in one transaction.
The status job and the cleanup job change rows that handlers are working on.
The playlist reads submissions, assets, lineups, live overrides and groups.
Writers emit signage changes, which the device control channel batches and sends
over sockets. Crons run on every pod; those that must not overlap take a
PostgreSQL advisory lock.

`PROJECT.json` lists every component with its status and every hazard found
while reading, at its line, with the properties that cover it or the reason why
none does.

## Modules

| Module | What it is |
|---|---|
| `Publication` | Abstract: a submission is none, waiting, cleared, returned or closed, and moves atomically. |
| `Submissions` | The handlers, the reviewers and the status job, interleaved. Implements `Publication`. |
| `SubmissionsProofs` | Theorems about `Submissions`. |
| `Assets` | complete requests, video workers, cleanup, the bucket. |
| `AssetsProofs` | Theorems about `Assets`. |
| `UserRoles` | grant and revoke under the role lock. |
| `Notices` | The notification table as its writers and its reader share it. |
| `Outages` | Abstract: incidents open and close with their notices, results are final. |
| `DeviceAlerts` | Which silences of a TV become incidents and notices. Implements `Outages`. |
| `SlackDelivery` | From notices to what the channel reads, by dispatchers under a lease. Implements `Outages`. |
| `SlackDeliveryProofs` | Theorems about `SlackDelivery`. |
| `Signage` | What TVs are configured with: groups, lineups, programs, devices, live layers, changed by administrators whose requests interleave. |
| `Playlist` | Extends `Signage` with TVs that poll, read by read, and with what is on air. |
| `SignageProofs` | Theorems about `Signage` and `Playlist`. |
| `Realtime` | One process's sockets: limits, authentication, rooms, change notices. |
| `RealtimeProofs` | Theorems about `Realtime`. |
| `PlayEvents` | Plays from the TV to the counts requesters see. |
| `TelemetryProofs` | Theorems about `PlayEvents` and `DeviceAlerts`. |
| `Intake` | Idempotency keys, the daily limit, the one open submission per notice, the paged list. |
| `IntakeProofs` | Theorems about `Intake`: the limit and the index, then the keys, then the list. |
| `Kinds` | The rules of the three kinds, as pure functions. |
| `Contents` | Extends `Kinds`: from form to row to what reviewers and TVs read. |
| `ReviewProofs` | Theorems about `Contents` and `UserRoles`: what reviewers decide on, and who they are. |
| `MCSubmissions`, `MCAssets`, `MCSlackDelivery`, `MCPlaylist`, `MCRealtime`, `MCIntake`, `MCContents` | Constants, symmetry, views and constraints for TLC. |

A definition whose name has an underscore (`VersionHolds_Unchecked`) is a wrong
variant of the definition that follows it. It is no part of the specification:
it stands for a bug that the named property of `PROJECT.json` must notice when
it takes that definition's place.

### Submissions

`rows` is the table `submissions` reduced to what the rules look at: kind,
content, period, status, version. Content is a value that stands for every
column, detail and target group a reviewer sees. `reviews` is the table of
decisions, each with the content its reviewer had on the screen (the code pins
the asset's checksum and the revision). `requests` holds one record per client:
the form it has open (`viewing`, with the row it showed), or its handler between
its last check and its transaction (`writing`, with the row it read and the row
it will write). A GET is `View`. `Update`, `Submit`, `Cancel`, `Approve`,
`Reject` and `Suspend` are the handlers up to the transaction; their guards are
the early returns in the order of the code. `Commit` is the transaction: the
UPDATE guarded by the version, with the review inserted beside it. `GiveUp` is
every way to end without a write: a 409, an error, a crash. Handlers take the
time on entry and the row later, so their `t` is any time up to `now`.

`StatusJob(t, missed)` is one run of the cron: ended, published, scheduled, with
one time; `missed` are rows that another transaction wrote after the statement
had passed over them. ARCHIVED and DRAFT are statuses of the schema that no code
path writes today; they stay in the type.

Abstracted: notes and reasons, details per kind (`Contents` has them), the audit
entry of the same transaction (one per commit, unread by any rule), the change
notice after it (`Realtime`). The daily limit and the unique open notice are in
`Intake`.

### Assets

`rows` is `assets`; `content` what the client PUT at the signed URL; `files` the
keys in the bucket; `queue` the table `storage_deletions`; `used` the assets some
submission refers to; `forms` those that the handler of a form has found READY and is
about to refer to; `calls` the requests in `complete`; `pods` each pod's one
video worker; `doomed` the rows a running cleanup has chosen. `calls` and `pods`
have one step per access to the database or the bucket, in the order of the code,
so that any other process, a failure or a crash fits between any two. Thumb,
preview and tv images are one key `webp`. What a file turns out to be (good,
corrupt, huge) is fixed when it is uploaded; a damaged one may be sent again.

Time is abstract. `Age` moves an asset past the URL's expiry plus grace, then
past the limits for unused and rejected assets; `Stall` makes a claim older than
`STALE_AFTER_MS`. Both may happen at any moment: a process can be arbitrarily
slow. `processing_started_at` is the number of the attempt that wrote it, which
is as unique as the timestamp: a claim needs the previous one to be null or 15
minutes old.

The cleanup's DELETE chooses by a subquery. Under READ COMMITTED a chosen row
whose status changes before the DELETE locks it is deleted all the same, so
choosing and deleting are two steps; deleting at once is among their behaviours.
The foreign key of `submissions` makes the whole transaction fail
(`CleanupRollsBack`). A form is as free: `CheckMedia` is the check before the
transaction, `Attach` the insert any time later, which nothing but the foreign key
guards, `Abandon` every other end.

One client behaviour is assumed: a file that arrived whole is not PUT a second
time, although the signed URL would allow it for 15 minutes. Not modelled: the
batch limits, the wording of refusals, which of several claimable videos is the
oldest.

### UserRoles

`users`, `granted` and `audit` are tables (the log reduced to how often each
grant and each revocation is in it); `lock` is the advisory lock; `requests` are
the calls in flight. `Arrive` is both guards and the refusal to revoke oneself;
`Lock`, `Recheck`, `Change` and `Commit` are the transaction in four steps, so
that what it reads and what it writes are apart; `Dies` rolls back anywhere.

### Outages, DeviceAlerts and SlackDelivery

Detection and delivery meet in two tables, `device_alert_states` (here `incident`,
the open incident of each device) and `slack_notifications` (`notices`, the status
of each). `Outages` states what each does to them; `DeviceAlerts` refines its
detecting half and takes any delivery it allows, `SlackDelivery` refines the
delivering half and takes incidents as they come. Notices are the dedupe keys: of an
outage, of a recovery, of a reminder. A new UUID is the device's next number.

`DeviceAlerts` has a run of the job in three steps: what it reads (`JobReads`, which
evaluates `evaluateDeviceAlert` for every device), for each outage that is over the
status of its notice (`JobLooks`), and what it commits (`JobWrites`); heartbeats,
edits and deliveries fit between. A delivery that commits after `JobLooks` may leave
a recovery of a notice that has failed by then: `Outages` allows that, and
`SlackDelivery` drops it before sending. Runs are taken to come in the order of the
times they took. A run takes its time before it waits for a connection and the lock
(`jobs/device-offline-alert.job.ts:28`, `jobs/job-lock.ts:26`); one that another
overtakes there judges by an old time and may find a TV still heard, drop its incident
and have the next run notify again. The model has no such runs. Whatever lasts 90 seconds is a flag:
`recent` for the last heartbeat, `shield` for grace, quiet hours and the last
edit together, which postpone the alarm alike. `edited` is
`updatedAt > checkedAt`, `spell` counts activations and is no column: it tells
outages apart in `OneNoticePerOutage`.

`SlackDelivery` has a dispatcher on each pod: `Claim` (a transaction, in which the
UPDATE of the lease row excludes others), `Check` (`isRelevant`), `Posts` or
`PostFails` (the webhook), `Finish` (a transaction). `lease` is the row
`slack_delivery_state`: whose token it carries, and whether `locked_until` or
`next_send_at` is still ahead. `LeaseRunsOut` may come at any moment, also under a
dispatcher that is only late, which then posts all the same. `claim_token` of a
notice is left out: it is always of the same claim as the token of the lease, or
of one that came before. Not modelled: the pause for `Retry-After` beyond a lease
that is not free yet, and the settings that turn kinds of notices off.

### Signage and Playlist

`groups`, `lineups` (with their blocks), `programs`, `devices` (with their groups
and exceptions) and `live` are the tables. An administrator's request is one
record in `requests`: what it read, and the step it has reached. Requests that
check outside their transaction take two steps (`CheckLive`/`SetLive`,
`ReadDevice`/`PrepareOverrides`/`WriteDevice`, `CheckRegistration`/`RegisterDevice`);
a replacement of a lineup takes four (`OpenLineup` is the GET whose version it
sends, then `LockLineup`, `CheckPrograms`, `CommitLineup`), a removal of a program
two. A row lock is no variable: it is held by whoever has reached the step behind
it (`LineupLocked`, `LockedForUpdate`, `KeyShared`), and who would wait is not
enabled. `Draft` in `Signage` is what an editor may send: blocks kept, dropped,
added or renamed to an id that is not theirs. Only a block's program, the groups
of a device and those of a submission are foreign keys; info bars are jsonb and
live rows plain text, so `ReferencesHold` is about code.

`OpenLineup` takes the two reads of the GET in one step; the version comes with the
first of them, so an editor who saw a mixture has the older version and is refused.

`Playlist` adds `polls`: `StartPoll` (the guard's read of the device), the reads that
`Promise.all` starts together and that come back in any order (`ReadSettings`,
`ReadBlocks`, `ReadItems`, `ReadGroups` and after it `ReadLayers`), `ReadShown` (the
submission that live shows), and `Answer` (the programs, then 200 or 304 by the
hash); administrators act between any two. What a disturbed poll answers may be a
mixture, and the code promises no more of it; the next undisturbed one mends it, as
`CalmPollIsExact` says. In `ReadShown` and `Content` what live shows is dropped unless
it is carried, which needs no property: it is one expression of the code too. `airing` stands for
everything `Submissions` and `Assets` decide about the one submission. `calm` is
history: nothing changed since the poll began. Blocks' time windows are applied
by the TV and left out.

### Realtime

One process; JavaScript runs one callback at a time, so an action is what runs between two
awaits. `sock` has each connection's stage, from the upgrade over the room lookup (with
its cache, `known`) and the token check to its `close` event, which comes later than
`close()`. `count` is `ConnectionCounter`, `rooms` the relay's. `unsent`, `pending`,
`timer` and `batches` follow a change from its commit to the notice. A changed program
takes another way: `edited` holds those whose users are yet to be looked up, by a query
after the commit (`FindUsers`), which may miss who begins or ceases to show it meanwhile,
or fail, and then nobody is told (`FindUsersFails`). The separate queries of
`programUsage` (blocks, info bars, live) are one step of the model: who uses a program is
one set there, and a user that comes or goes between them is told of that change as it is
of one just before or after. The death of the process, which loses all of this with its
sockets, is left out. `fresh` is history: whether a TV shows what is configured, or missed
a change to a failure. `HandshakeFails` is what the `ws` library does by itself. Relayed
messages, their budget and the server-wide limit are left out.

### PlayEvents

`Receive` takes the time, `Store` commits up to `Latency` later; a TV may send a
batch again until it is acknowledged. The aggregation job takes its time first and
waits for a connection (`ComeLate`; `waiting` has the times of those who do), then
takes the job lock and chooses the days (`Begin`, with the time of just now or of long
ago) or finds it taken (`Skip`), then `Recompute`, `Commit` with deletion of
what left retention, or `RollBack`. `accepted` and `horizon` (the first day that no
run has found expired) are history. The days a play counts
for are by the TV's clock, which the model takes to be right.

### Intake

One record in `requests` per HTTP request: the interceptor's stages (`claim`, `look`,
`complete`, `release`) around those of `create` (`enter`, `lock`, `count`, `insert`). A
handler whose submission is made still has to read it for the answer
(`SubmissionsService.detail`); when that fails (`DetailFails`) the interceptor gives the
key back as for any error (stage `unread`), and a retry makes a second submission. `Stall`
makes a claim older than its 30 seconds at any moment, `Dies` kills a handler at any
stage, and the advisory lock goes with it. `renewals` is history: how often a key was
taken over, forgotten, or given back after its submission was made, which is what the
promise of one effect per key is relative to. Statuses are reduced to what the partial
index distinguishes; `Submissions` has the moves between them, here any is possible.
`reader` pages through the list by its cursor and remembers what it has to see.

### Kinds and Contents

`Kinds` has a record per kind (`RuleOf`) and `Resolve`, which makes of a form and
the current row the columns, the detail and the errors. An optional field is a
set: `{}` when not sent, `{v}` when sent, so that "not sent" and "sent as null"
differ as they do in a PATCH. Texts have no length. An asset stands for its address,
`FileOf` for what was uploaded as it: two assets may be the same file, whose checksum is
then one. `Kept` is what a TV keeps under a checksum: of a poster the file, for its
checksum is the key of the media cache (`playlist/dto/playlist.dto.ts:104`) and its
title, category, links and captions come with each item; of a banner and a story
everything that is drawn.

`Contents` has one submission: `draft` is what a handler checked and is about to store
(`Store` is its transaction), `row` what is stored; `media` and `hidden` change in
between. A reader takes the row and the detail in two steps (`Order`, `Read`); `since` is
history: the version that brought the present content. There is no clock here
(`Submissions` has it), so a period may end up anywhere in the past. The table begins
empty: template banners from before the column `headline` (`db/schema.ts:360`) are outside
it. Such a row has no headline, so `BannersAreWhole` is not true of it, and sent back
whole it is refused (`submissions/kinds/event-banner.kind.ts:110`), which
`ResendChangesNothing` says of no row the present code makes. That property is about what
a form asks for; a row that `MayEdit` refuses is refused whatever is sent.

## Runs

| Run | Instance | Shows |
|---|---|---|
| `submissions_safety` | 1 submission of any kind, 2 contents, 1 requester, 2 reviewers, 3 periods of which one is reversed, clock to 2, versions to 4 | one decision per revision, screens show approved content, statuses true to the clock, published rows protected, the job catches up, `Submissions` implements `Publication` |
| `assets` | 1 asset of either kind, 2 requests, 2 pods, 3 attempts, 1 fault | what is READY is playable, the media of a submission stays, results are final, every queued video is decided |
| `assets_takeover` | 1 asset, 1 request, 2 pods, 2 attempts, no faults | **violated**: see Findings |
| `user_roles` | 1 founder and 1 user who may log in and be promoted, 2 requests, 2 changes per grant | an administrator remains, the last check never fires, the log tells the roles, only administrators change them, no request waits for ever |
| `device_alerts` | 1 TV, 3 incidents, 2 heartbeats, 1 reactivation | one notice per outage, every lasting outage has its own open incident in the end, `DeviceAlerts` implements `Outages` |
| `slack_delivery` | 1 TV with 2 incidents, 1 reminder beside the first, 2 pods, 2 attempts | recoveries only after their outage was sent, the channel never goes back, `SlackDelivery` implements `Outages` |
| `signage` | 2 groups, 1 program, 1 device, 4 block ids, 2 administrators with one request each | nothing refers to what is gone, no replacement is lost, no exception comes back for another block |
| `playlist` | 1 TV, 2 groups, 1 administrator with 2 requests, a submission targeted at one group, 1 part of live that ends or the submission going off air | an undisturbed poll leaves exactly what the rules say on the screen, 304 included, after a poll disturbed between any two reads |
| `realtime` | 3 connections from 1 address to 1 room, limits of 3, 3, 2 and 1, 2 changes | rooms and their members agree, limits per address hold, no connected TV is left untold but by a failed query or flush |
| `play_events` | 2 plays, one on the wall, 3 days of 1 unit, retention of 1, overlap 2, latency 1, deletion in batches of 1, 1 run that waits | nothing counts twice or is missed, what is shown never shrinks for the days that no overtaken run counts |
| `intake` | 3 requests with one key, 1 notice, 1 submission a day, 2 days, 1 fault, pages of 1 | keys are honoured, the limit holds over midnight, one open submission per notice, a list that is read to the end is complete |
| `contents` | 1 submission of any kind, an image, the same image again and a video, 2 categories, 1 group, 3 instants, versions to 4, the forms of `MCForms` | what is stored is allowed, a form sent back changes nothing, reads are whole, checksums tell apart what TVs keep under them |

The type invariants of `Submissions` and `UserRoles` are proved; in the other
modules the type invariant is a conjunct of the invariant that a run checks first, and so
are invariants that belong together: `ReferencesHold`, `RoomsAgree`,
`KeysAreHonoured`, `ContentIsAllowed` and `ReadsAreWhole` each join the parts
defined above them.

Why the bounds suffice. Every rule of `Submissions` is about one row, and rows
meet only in one run of the job, which theorem `Refinement` covers for any number.
Version 4 leaves room for create, a decision, an edit and another decision with a
stale request at each step; a clock of 0..2 has a moment before, during and after
a period. The two reviewers are what a race needs; a third would repeat one. In
`Assets`, assets meet only in one cleanup transaction and in the worker's list of
failed videos; each race found takes two processes on one asset. Three attempts
are the code's own number; one fault is enough to crash at every step of every
process, and the stall of a worker is no fault and may happen every time. In
`UserRoles`, two users, one of whom becomes an administrator on the way, are
enough for a mutual revocation, a target that has not logged in and a promotion
of somebody who lost the role; two changes per grant allow to lose a role and to
have it again. The theorems cover any number of either. In
`DeviceAlerts` devices never meet; two heartbeats are an outage, a return and
another outage, the reactivation makes a third. In `SlackDelivery` a second
incident is what an old recovery can be confused with, a second pod what a lost
lease needs, a second attempt is a retry and the end of retries; reminders have no
rule that depends on incidents, so `MCRemindersApart` explores them beside the
first only.

In `Signage`, two requests at once are what every race of the module takes: each property
relates what one request read to what another wrote. One request may create, replace or
remove; `Init` is any table in which at most one group and one program have yet to be
made, with or without the device and an exception of it. Four block ids are two in the
first lineup and one for each of two replacements; `IdsLeft` stops who would need a fifth,
where the database has UUIDs. In `Playlist` a change between two reads and one after the
answer, which the next poll must bring, are two requests; a single TV suffices since TVs
share nothing. In `Realtime` three connections are a host, its replacement and a player,
or a third from one address where two are allowed; two changes are one while the other's
batch is on its way. The limit per address there is the number of connections and cannot
be exceeded in the run: two addresses take too long, and the limit per address and room,
which is below it, is kept by the same counter; `LimitsHold` is about both. `MCOneShows`
and `MCOneByRoom` bound who shows a program and how many TVs connect by the path that
names their room. In `PlayEvents` two days beside the retained one let a day be counted,
deleted and met by a late play, and one waiting run is overtaken by any number of others;
latency must be below the overlap, as a transaction of the code is against its five
minutes. In `Intake` the third request is who finds the key of a stalled handler that a
second one took over; two instants on two days are a lock waited for over midnight; one
fault is a failed read of the answer, an error or a death. In `Contents` four versions are
creation, an edit, a decision and another edit under a reader; the forms cover a patch of
each part, whole contents, periods by either end and groups. `MCHidden` hides one thing at
a time, since checks of categories and groups do not meet; in `MCCopy` the second upload
of the image takes the place of the first in the last edit only.

Deadlock checking is off wherever every client
may be idle for good and a bound stops the rest.

Symmetry is used among dispatchers (`slack_delivery`), connections (`realtime`) and
requests (`intake`), and never where a liveness property is checked. In `assets`
the second request begins only beside the first (`MCInOrder`).

Some runs leave out orders and data that make no difference, for the reason stated
beside each definition. A view (`MCView`) leaves out of a state what no step and no
property depends on any more: in `submissions_safety` all of an open form but what a
reviewer has on screen and whether the row is still the one shown; in `assets` answers
that were given, what an idle pod did last, claims to a decided video, what a deleted
upload was; in `realtime` what a connection that is gone asked for; in `intake` what a
request sent that is only to end, and answers to a key that was renewed; in `contents` what
somebody read of a row that has changed since, where it can decide and show nothing.
`intake` stops at the end of a reading, which nothing depends on (`MCReading`). In
`playlist` a request is not interrupted, as polls read tables only and it writes them
in its last step (`MCRequestsApart`), and a poll that has read only its device's row
waits for changes of that row alone, since another might as well have come before
the poll, which is then held to more (`MCRowChangesFirst`). Reads between which nothing
changed are taken in one order (`MCReadsInOrder`). The bounds there beside the
constants: of the parts of live and the submission one ends (`MCOneEnds`); only the
first poll is disturbed, and by one request (`MCFirstIsDisturbed`); and once
something has changed, the reads left come in one order. Theorem
`CalmPollsAreExact` has none of these bounds.

Fairness. `Submissions`: the cron fires every minute in each pod
(`jobs/scheduler.service.ts:42`), so weak fairness on a run that misses nothing,
and on the clock. Nothing is assumed of clients. `Assets`: a pod that has work
goes on with it, the cron drains the queue every minute
(`VideoProcessingService.drain`), and after 15 minutes a claim is stale; faults
are bounded since under endless faults nothing can be promised. `UserRoles`: the
waiters of an advisory lock are served in turn, so strong fairness on taking it,
and statements return, so weak fairness inside. `DeviceAlerts`: the cron fires every
minute (`jobs/scheduler.service.ts:49`) and not every run of it dies, so again and again
one commits (`[]<><<JobWrites>>_vars`: fairness of its steps alone would let every run die
between them), and 90 seconds pass. With that, a TV that stays dark has in the end an open
incident of this very silence, whatever incidents it had before. `SlackDelivery` has safety
properties only: with two outages its states are too many for a liveness check,
and with one they would miss what the module is for. So that a notice whose
dispatchers all die is given up in the end is not checked. The newer modules state no
fairness. That notices arrive (`QuietMeansTold`) and that counts are complete
(`NothingMissed`) is said of the states in which nothing is on its way any more,
and of the commits, which needs none.

## Findings

`assets_takeover` is kept as a run, **original deleted under the successor**: a
worker that lost its claim deletes the original before it looks
(`assets/video-processing.service.ts:209`), and the pod that took over cannot
finish: a sound video ends REJECTED.

Other disagreements that TLC showed while the modules were written, each reachable
in the module named, are not kept as runs:

- **Cancel on the air** (`Submissions`). `canCancel` is said to block what is already
  being published (`submissions/submission-rules.ts:98`). The time it judges with is
  taken on entry and the version does not move when the start passes, so a cancel
  that straddles the start takes a submission off the air.
- **Forgotten files** (`Assets`). The cleanup of a row that never became READY
  records at most its upload key; public files that an aborted complete had put
  remain for good (`jobs/asset-cleanup.job.ts:93`).
- **Original kept after a crash** (`Assets`). Between READY and the deletion nothing is
  recorded (`assets/assets.service.ts:220`), and nothing comes back.
- **400 for a finished asset** (`Assets`). The slower of two complete calls finds the
  original gone and answers that nothing was uploaded
  (`assets/assets.service.ts:150`).
- **READY for a rejected asset** (`Assets`). A complete call whose save lost answers
  with `toDto`, which says READY for any row (`assets/assets.service.ts:227`). When
  the call that won had seen a damaged transfer of a file that was sent again, the
  row is REJECTED.
- **Program group outside the groups** (`Signage`). Two PATCHes of a device overlap:
  each is checked against the groups it read (`devices/devices.service.ts:307`),
  and `db/schema.ts:499` says the service keeps the program group among them.
- **Orphan live row** (`Signage`). The target is checked before the transaction
  (`live/live.service.ts:214`); a group removed in between leaves a row that
  `db/schema.ts:655` says goes with the group. No TV reads it.
- **Old token admitted** (`Realtime`). A host that is being authenticated while its
  token is rotated is not connected yet when connections are cut, and stays
  (`realtime/realtime-socket.service.ts:319`).
- **A second submission for one key** (`Intake`). The class comment of the interceptor
  names the death of a pod as the one limit of what a key promises
  (`common/idempotency/idempotency.interceptor.ts:26`). A handler that has made its
  submission and fails to read it for the answer (`submissions/submissions.service.ts:231`)
  has its key released like any other, and the retry makes a second one.
  `KeysAreHonoured` counts that as it counts a takeover.
- **A day counted after its deletion began** (`PlayEvents`). The aggregation job is said
  not to count a day again whose events are partly deleted
  (`jobs/play-event-aggregation.job.ts:34`). It judges with the time it took before it
  waited for a connection and the lock; a run that others overtake over midnight counts
  what is left of such a day, and the count shrinks. `NeverShrinks` is about the days
  that no such run counts.
- **Nobody told of a changed program** (`Realtime`). The users of a program are looked
  up after the commit (`programs/programs.service.ts:155`); if that fails nothing is
  emitted and TVs show the old program until they poll. `QuietMeansTold` excepts it.
- **Unapproved words for one poll** (`Contents`). A banner that is suspended and edited
  between the two reads of a playlist is sent with its edited words
  (`playlist/playlist.service.ts:257`). Stories are safe, as they cannot be edited
  then; `StoryReadsAreWhole` says so.

## Proofs

All theorems hold for every value of the constants that satisfies the ASSUME of
the module. The bounds are constants too and may be any number. What is assumed:

- `ConstantsOK`: there is a submission id, periods and the display time are natural
  numbers.
- `AssetsConstantsOK`, `NoticesConstantsOK`, `SlackDeliveryConstantsOK`,
  `DeviceAlertsConstantsOK`: there is an asset, there is a TV, bounds are natural
  numbers, a notice may be tried at least once, and the mark of a free lease is no
  dispatcher.
- `UserRolesConstantsOK`: there is a founder, the founders are users, the marker of a
  free lock is no request.
- `SignageConstantsOK`: the programs for info bars are programs, null and SUBMISSIONS
  are names of nothing else, and there are at least as many block ids as groups, since
  each group starts with a block of its own.
- `PlaylistConstantsOK`: groups are finitely many, and SUBMISSION is no program.
- `PlayEventsConstantsOK`: a day has a length, a batch a row, the plays on the wall are
  plays, null is no time, and an INSERT takes less than the overlap of the watermark
  (five minutes, where the code has no transaction that long).
- `RealtimeConstantsOK`: there is a group, limits are at least one, null is neither a
  socket nor a room.
- `KindsConstantsOK`, `ContentsConstantsOK`: videos are assets, null names nothing, times
  and limits are natural numbers, a day has a length, forms are of the declared shape and
  there is a first version.
- `IntakeConstantsOK`: a day has a length, a page an item, requests are finitely many
  and `None` is none of them.

Each proof has the same plan: an invariant (`IInv`, `PlayInv`, `ContentInv`) that says
what a process holds between two of its steps, one lemma per action or group of actions
that it is kept, and the properties as consequences.

**`SubmissionsProofs`.** The safety properties are not inductive: that an approval
commits the content its reviewer saw depends on what a request in flight may
hold. `IInv` adds three facts to `TypeOK` and `VersionNamesRow`: `RequestsOK`
(the row a request will write is what its operation makes of the row it read),
`DecisionsArePast` (a decision's revision is below the version of its row, so a
new decision is always the latest) and `InsertedOnce` (no id is inserted twice).
`VersionNamesRow` is the heart: every write raises the version, so a version
that still holds means the very row that was checked. From `IInv` follow
`TypeCorrect`, `OptimisticLocking`, `AtMostOneDecision`,
`ScreensShowWhatWasApproved`, `ClosedStaysClosed`, `PublishedStaysFrozen`,
`StatusIsTimely`, and `Refinement`: each step maps to a step of `Publication` or
leaves it unchanged.

**`ReviewProofs`, roles.** Inside the lock a requester was found to be SUPER_ADMIN and
nobody else can change the table before it leaves (`LockHeld`, `AuthorIsAdmin`); a
revoker is never its own target (`NeverOneself`); so after each change its author
still is SUPER_ADMIN, and the extra check in `revoke` cannot fire.
`EffectIsCurrent` says that what a transaction found is still so when it commits,
which is what makes the audit log exact. Theorems: `RolesTypeCorrect`,
`AnAdministratorRemains`, `SecondLineUnreached`, `AuditIsComplete`,
`OnlyAdministratorsChange`.

**`ReviewProofs`, contents.** `ContentIsAllowed` is close to inductive once the types are
exact: `Allowed` adds that a link is one that `parseDetailUrl` makes and that a published
story has its number. `ContentIsMade` says of `resolve` that, without an error, it makes
what the kind may hold of any form and any row that was allowed; `EditIsAllowed` adds that
an edit which leaves the period unchecked leaves it unchanged. `MediaHold` covers what is
cleaned up meanwhile: media of a row is ready, that of a draft was ready and can only be
gone, which `Store` refuses. Hence `AllowedContentOnly`. `ResendingIsHarmless` takes each
kind from row to answer to form and back (`PosterResent`, `BannerResent`, `StoryResent`),
and `ChecksumsTell` compares two contents of one kind (`SameKept`): a banner's one asset is
its photo or its image by its mode, which is in the checksum, and of each only the file
counts. For
`WhatIsReadIsWhatIsApproved`, `ReadsFollow` says that what a reader has of the row is no
newer than what it has of the detail. `DraftsFollow` says that a draft of a story is
outdated once its row is decided, for every decision raises the version; so nothing
changes a story that is, or was, on air.

**`IntakeProofs`.** That there is room for a row when it is inserted rests on a count
made before, with a time taken before that. `LockHeld` says that whoever counts or
has counted holds the advisory lock until its row is in, so `CountIsCurrent`: what it
counted is still so, for another limited insert would need the lock. The row then
adds one to a day that has room, because all of that day is among what was counted
(everything since the day's start), whatever the clock says by then:
`DailyLimitHolds`. `NoticeHasOneOpen` needs no more than the index: a row that comes
or changes finds its notice free. `IntakeTypeCorrect` is used by both.

`KeysHold`, in the second half of the module, rests on accounts. A free key, a request
that has claimed it and may still insert or give it back, and a submission made each use
up one claim; there is one, plus one each time the key was taken over, forgotten, or given
back by a request whose submission is made (`KeyBudget`). Every step keeps the sum: an
insert turns a request into a row, a release a request into a free key even when somebody
else holds it by then. While a key was not renewed the sum is one, so a claim finds nobody
at work and a release leaves nobody behind; hence `KeyRemembers`: the key holds the one
request it serves and the row made, and all who sent it get that answer.

`ListsAreComplete` has an argument of its own. Rows are ordered by time and id, which no
step changes, and no step removes one (`RowsStayInPlace`), so a page is what comes first
after the cursor (`PageComesFirst`), and what a reader has yet to see of the first page's
rows comes after its cursor (`StillToCome`). An empty page then leaves nothing unseen.

**`AssetsProofs`.** No transaction spans the row and the bucket, so READY can only be
as true as what the process that writes it remembers. `PutsStay`: who is about to save
has all its files in the bucket, for as long as the row exists. They cannot be deleted
meanwhile, because a public key is queued, or in the hands of a process that is about
to queue it, only when its row is gone (`OnlyGoneIsQueued`). With `ReadyHasFiles`
these give `ReadyMediaIsPlayable`. `AboutPresigned` (only assets that were presigned
are worked on) and the rule that a row moves from PENDING or PROCESSING only give
`DecisionIsFinal`. What a form has found READY can thus only be READY still or gone
(`CheckedIsReady`), and the foreign key refuses what is gone:
`SubmittedMediaIsReady`.
`ClaimsAreNumbered` says that every claim has its own number below the attempts of the
row, however many workers still believe in theirs; hence `OneWorkerPerVideo`.

**`TelemetryProofs`, plays.** `RowsOnce` and `RetainedStay`: a play has one row, and keeps
it while its day is retained. What a run need not count again must have been counted, so
`PlayInv` says who did: a row older than the watermark less the overlap is in the counts
(`OldAreCounted`), because the run that set that watermark saw it (`RunLooked`): an INSERT
is shorter than the overlap (`InsertsInTime`), so no row comes in that is old already. A
day counted again is retained, so all its plays still have rows, and the new count is that
of all plays ever accepted, no smaller than the old one (`DayIsCounted`). That a day is
retained is said by the time of the run; `horizon` says what other runs have deleted by
then, and only a run that is not `Overtaken` has the two agree. From this follow
`PlaysAreCountedOnce` and `NoPlayIsMissed`, and with `SumGrows`, that a sum of no smaller
terms is no smaller, `ImpressionsNeverShrink`. The lemmas about sums unfold
`MapThenSumSet` and go by the smallest set without the property (`SmallestOf`).

**`TelemetryProofs`, outages.** A run writes what it concluded from rows that have moved on,
so `IInv` speaks of the findings in its hands as well. `AboutThePast`: the silence a
notice is about began in the past of its device. `GoesOn`: while a silence that was
announced lasts, its incident is the open one, in the table and in every finding.
`FindingsFollow` and `FindingsAreNew`: a finding is older than the device and agrees
with the table, which only this job writes, and one to alert is about a silence
without a notice. A finding looks at a notice at most once, and a recovery it keeps is of
the incident in the table. So a write never announces a silence twice: `OutagesHaveOneNotice`.
`DetectionImplementsOutages` maps `JobWrites` to `Detect` of `Outages` (the incident
that opens is the next number, the one that closes is the one recovered from), a
delivery to `Deliver`, and all else to no step.

**`SlackDeliveryProofs`.** What a dispatcher holds after its lease ran out must not
count. `ClaimsAreKnown`: the notice of a dispatcher that the lease still names is
SENDING. `ToldOfSentOnly`: who has checked a recovery, or sent it, has seen its outage
SENT, which is final. `HolderIsAhead`: neither the channel nor any late dispatcher is
past the notice that the holder of the lease is about to post; `IncidentsInRow` bounds
what there can be. From these `RecoveriesFollowOutages`, `ChannelKeepsOrder`, and
`DeliveryImplementsOutages`, step by step.

**`SignageProofs`.** What a request has checked is true when it commits because of the
row locks that its steps hold. `HeldProgramsExist`: programs locked FOR KEY SHARE exist
and nobody is removing them; `RefsAreDrafted`: they are all that the input refers to;
`HeldLineupIsSeen` and `OneHolderPerLineup`: past its lock a replacement is alone with
the lineup, which is the one it was drafted on. The latter needs `VersionTells`: a
version an editor saw names the lineup it saw, or is behind. Hence `NothingDangles`
and `ReplacedAsSeen`. `OffWasIssued` and `SentOffWasIssued` say that exceptions, stored
or on their way, name only ids that a block has had; ids are never given twice, so
`DeadExceptions`.

The invariants of `Signage` hold in `Playlist` because a poll writes none of its tables
(`PollsOnlyRead`). `CalmPollsAreExact` follows a calm poll (`CalmOK`): the row it
began with is the device's, each read that came back is what the tables still say
(`ReadRight`), in whatever order they came, and so is what it gathered (`AsConfigured`).
That every block and info bar of it is carried takes `ReferencesHold`: their programs
exist. A 304 is as good as a 200, since the screen then shows the same content. The order
of layers by time may be any (`Layers` takes every order of layers set at one time), and
the first one alive in it is one that no other is newer than (`ResolvedAsRuled`).

**`RealtimeProofs`.** Three separate arguments. For the limits, `HoldersAreCounted`:
for each key the counter is at least the number of connections that hold it, accepted
or not, so checking the counter first bounds them (`LimitsHold`, for any number of
sockets, of which finitely many have arrived). For the rooms, `MembersFit` and
`PlayersAreIn`: who is in a room has it for its own and an accepted player is in it, so
the late close event of a replaced host disturbs no other room (`RoomsAgreeAlways`). For
the notices, `StaleIsDue`: a TV that shows something old, and did not miss the
change to a failure, is affected by a change that is unsent, of a program whose users are
yet to be found (`edited`), pending, or in a batch that found the TV connected; and what
is pending has a timer (`TimerIsSet`). Who stops showing a changed program is told of that
instead (`NoneIsForgotten`). When all these are empty nobody is stale: `ConnectedAreTold`.

Proved and not repeated in a run: `TypeOK`, `VersionNamesRow` and `ClosedForever` of
`Submissions` (a closed submission is also final in `Publication`), `TypeOK` of
`UserRoles`, and `OneWorkerHolds` of `AssetsProofs`.

Every safety invariant, action property and refinement that a run checks is the subject of
a theorem. Only model-checked are the liveness properties (`StatusCatchesUp`,
`VideoSettles`, `RequestsEnd`, `OutageIsNoticed`): they rest on fairness and ENABLED, out
of the provers' reach. `TakenOverCanFinish` is refuted (Findings).

## Plan

Worth proving next: a lineup and a live layer as abstract objects that `Signage` implements,
as `Submissions` implements `Publication`.

Worth modelling next: the relay of messages with its budget, and the queue and
summary of reviews as reads of `Submissions`.

## Not modelled

Token exchange with the identity provider and JWTs, ffmpeg and sharp, the S3
client, message wording, pagination, DTO validation, Swagger and environment
parsing have no state to interleave, or are I/O whose outcome is a choice in the
modules that call them. Summaries, searches and lists other than that of
submissions are reads. Also left out: relayed game messages and their budget, the
visit a socket records and the server-wide limit on connections (a soft one); the
v1 playlist, which is one list of the same reads; quiet hours and the time windows
of blocks, pure predicates of the minute of the day with table-driven tests; the
parameters of each type of program; what is playing now, which a heartbeat
overwrites whole.
