# The badminton signup app in TLA+

The program is a small web application with which one organizer runs weekly
badminton sessions: invitations by email, signups through personal links or a
public page, guests, a waitlist, reminders, cancellations. One Go process, one
SQLite file, one mail worker. These modules model what its tables promise, what
its request handlers make of them when they interleave, how its mail gets out,
and how the process comes back after it was stopped.

## 1. The system

| Part | Source | State | Operations | Modelled by |
|---|---|---|---|---|
| Roster arithmetic | `internal/model/roster.go`, `model.go` | none (computed from the rows) | headcount, spots left, does a party fit, next waitlist position, next to promote; cost, display status, are signups open | `Roster`; `Desk` for the second half |
| RSVP store | `internal/store/rsvp.go`, `store.go` | table `rsvp`: status, guests, waitlist position per player and session | EnsureInvites, EnsureEntry, Signup, SetGuestCount, Cancel, PromoteNext, AddParticipant | `Rsvp`, abstractly `Booking` |
| Session store | `internal/store/session.go` | tables `session`, `court_deadline` | create, update, set status, set courts, replace court deadlines, mark invitation sent | `Desk`; `Rsvp` (limit, status, lateness), `Mailing` (invitation mark) |
| Player store, mailing list | `internal/store/player.go`, `internal/web/handlers_players.go` | table `player` | create, update, deactivate or delete after a history check, unsubscribe, resubscribe, import | `MailingList`; `Rsvp`, `Mailing` (existence, membership, deletion with its rows) |
| Outbox and worker | `internal/store/outbox.go`, `internal/mail/worker.go`, `sender.go` | table `email_outbox`; the worker's batch and wake channel | Enqueue, ClaimDue, MarkSent/Retry/Failed, RetryMessage, Wake, Run, drain, deliver | `Outbox`, abstractly `Delivery` |
| Participant requests | `internal/web/handlers_participant.go` | locals of each handler goroutine | signup, public signup, guests, cancel, unsubscribe | `Requests`, `MailingList` (unsubscribe, new players) |
| Organizer requests | `internal/web/handlers_sessions.go` | locals of each handler goroutine | invite, remind, set status, promote, add, remove; create, edit, courts | `Requests`, `Mailing`, `Desk` |
| Settings, test mail | `internal/store/setting.go`, `handlers_admin.go` | table `setting` | save, load with repairs, offer in forms; test mail | `Desk`; the test mail is one more `Enqueue` |
| Mail composition | `internal/mail/compose.go` | none | templates and wording | no: a mail is the fact it states |
| Rate limiter | `internal/web/ratelimit.go` | token buckets in memory, under a mutex | allow, with a sweep of idle buckets | `Limiter` |
| Authentication | `internal/web/auth.go`, `internal/store/organizer.go` | signed cookies, the organizer row | log in, log out, change password | `Host` (account, secret, logins) |
| Server, forms, rendering | `internal/web/server.go`, `form.go`, `render.go` | none | routing, parsing, templates | no: the parser's guards are in `Desk`, in `Rsvp`'s `Init` and in the ranges of the inputs |
| Start-up, migrations, backups | `cmd/server/main.go`, `internal/store/store.go`, `internal/config` | tables `schema_migration`, `app_meta`, backup files | migrate, make account and secret, back up, prune, shut down | `Host`; what a stop does to mail is `Restart` of `Outbox` |

How the parts meet. Handlers run concurrently, one goroutine per request, and
share only the database. Its pool holds a single connection, so committed
operations are totally ordered: a transaction is an action of `Rsvp` or
`Outbox`. A handler makes several such calls and keeps what it read in local
variables; between two calls anything may happen, and the handler may end (its
context is cancelled when the client goes away, a call fails, the process
dies). Handlers reach the worker by rows in the outbox and a one-slot channel
that wakes it.

What is hard:

- capacity for whole parties under changes of the limit, re-signups, guest
  changes and promotions;
- the order of a waitlist whose positions are neither contiguous nor reused;
- handlers that decide from an entry, a list or a session status they read
  several calls earlier;
- a status change and the mails about it that are separate commits;
- retries: the worker acts on copies of rows a whole batch of slow sends later,
  shares rows with the organizer's retry button, and may crash between the mail
  server's acceptance and its own record of it;
- wake-ups that may fall between finding nothing to do and waiting;
- forms that hold a row as it was shown, in a browser, for as long as one likes,
  and name it by an id that is handed out again;
- stored status, deadline, start and end, from which several functions derive
  whether a session is open;
- stops in the middle of start-up, a save or a backup, and restarts as another
  version with another environment.

The full list, each at its line and with the properties that cover it, is under
`hazards` in `PROJECT.json`.

What makes each part correct, in a line: the roster never grows past its limit
and its queue is never reordered (RSVP store); what people and the organizer
were last told is so (requests); whoever comes to a cancelled session has been
told, mailed links work, and a session whose links are out leaves the draft
state (organizer's mailings); the weekly mail goes to whom the organizer put on the list and who has not opted out (mailing list); what is
shown, tested, paid and offered of a session agrees (desk); every message is
settled, once unless something fails (outbox); every start-up ends in serving
with the same account, logins and snapshots (host).

## 2. Modules

```
Roster  <-- Rsvp <-- RsvpBooking ==implements==> Booking
  |           |\---- Requests  (its steps between them: Rsvp's transactions)
  |           \----- Mailing   (likewise)
  |                    Desk   ==implements==> Rsvp (status, places, lateness)
  |                                   Outbox ==implements==> Delivery
RsvpBooking <-- RsvpProofs <-- RequestsProofs, MailingProofs
Outbox <-- OutboxProofs          Limiter <-- LimiterProofs
Desk <-- DeskProofs              MailingList <-- MailingListProofs
Host <-- HostProofs
```

**Roster** has the arithmetic of `BuildRoster` and its methods as operators on
a table, a function from players to entries `[status, guests, pos]`. `pos = 0`
is SQL NULL; `NoRow` stands for an absent row. Bodies are a set, `{p} \X 0..g`
for a player with `g` guests, so that the headcount is a cardinality and can be
reasoned about without sums.

**Rsvp** is one session's rows and the operations that change them, one action
per committed transaction. `players` are the rows of table `player`; `late`
says that the signup deadline or the start has passed. A signup computes room
and position with the person's own row left out (`Others`, the code's
`excludeSelf`) and writes one row; everything else about the row (token, name,
timestamps) decides nothing here. `UpdateSession` sets the limit without
looking at the roster, as the code does, so the limit may be under the
headcount. `EnsureInvites` fails as a whole if a player is gone (foreign key).
One session suffices: sessions share no rsvp rows.

**Booking** says what the sheet promises without rows, statuses or positions:
parties admitted while there is room, and people waiting in a queue that is
joined at its end and never reordered. The queue is the relation "stands ahead
of", which a proof can follow without sorting anything. **RsvpBooking** maps the
table to it.

**Requests** breaks the handlers about one person's RSVP into their store
calls. `req[r]` holds what goroutine `r` keeps in local variables: the status and the
spots held as loaded, what was written, how far it is. Three history variables
say what has been told: `lastWord` (to the person), `ledger` (to the organizer,
summed), and `muddled` (people of whom nothing is claimed: their own requests
overlapped, one ended early after it had written, or the public page stated
wrong spots). They never influence the program's state.

**Mailing** does the same for the requests about everybody: invitation,
reminder, status change, and deletion of a player with its history check.
`listed` is what `MailablePlayers` returns. A look-up that fails while the
cancellations are composed skips one person and the request succeeds, as in the
code. `linked`, `informed`, `untold` (people a failing call left without the
news), `live` (an invitation's links are out) and the request field `gone` are
history. Of the `Rsvp` variables both modules change only what a transaction of
`Rsvp` changes, by construction; it is how theorems of `Rsvp` carry over and no
result of its own.

**MailingList** is the table of players with its ids: a row is an address,
whether it is on the list (`active`) and whether its owner opted out. A page of
the organizer that is open in a browser is a request that holds what it showed;
handlers hold the id and what they looked up. `NextIds` is SQLite's choice: one
above the largest id in use. History variables say what was decided: `chosen`
(put on the list by the organizer's last word), `out` (opted out since), and
`crossed` (addresses set aside because a save failed half-way, an unsubscribe
fell between its two statements, or a request used the id of a row that is
gone). The history check of a deletion may answer either way: what answers
there are is for `Rsvp` to say.

**Desk** is one session as the organizer keeps it: the fields of its form as
numbers, the deadlines of its courts, its stored status, the defaults, and a
clock in ticks. A save of the form is two transactions, `UpdateSession` and
`ReplaceCourtDeadlines`; `torn` remembers that one overlapped another or
stopped in between. The derived operators keep the code's names: `StartAt`,
`EndAt`, `Minutes`, `SignupsOpen`, `DisplayStatus`, and `Cost` as `TotalCents`
and `PerPlayerCents`. `headcount` moves freely (`Rsvp` says how), and
`SessionAsInRsvp` maps the desk to `Rsvp` with no players: what that module
assumes of a session is what the desk does to it.

**Host** is the process from start-up to stop: `migrate`, `organizer`,
`secret`, `serving`. `Stop` may fall between any two steps and forgets what is
in memory; `Deploy` changes version and environment while the process is down.
The schema is the set of migrations whose statements it has seen (`schema`) next
to the records of them (`applied`): statements seen twice fail. A login is the secret
it was signed with. A snapshot file is absent, partial or whole; a backup runs
beside everything else in steps `RemoveSameDay`, `VacuumInto`, `Written`,
`Prune`, each of which may be its last.

**Outbox** is the table `email_outbox` with the worker, its batch (`batch`,
`seen`), its channel (`wake`), the handlers between `Enqueue` and `Wake`
(`handler`, with the mail each has just queued), and the mail server
(`copies`). A handler that has a session to mark after it queued its mail may
end before it wakes the worker (`GiveUp`: the write fails, or the client has
gone); `unheard` remembers that mail until the worker looks again. `delay = d` says that a row waits
out the d-th entry of the backoff schedule; `BackoffElapses` lets the time
pass. `FaultLimit` bounds crashes, failing statements and lost replies
together. **Delivery** is what is promised of each message.

**Limiter** is the map of token buckets with its sweep. The clock is read before
the mutex is taken (`Arrive`), the rest of `allow` happens under it (`Allow`,
`Refuse`). Buckets count in what one tick refills, so that a login limiter of
10 tokens at one per 30 seconds has `Burst = 300` and `Price = 30`; ticks may be
as short as one likes, and the code's floating point is taken as exact. `credit`
and `due` are ideal buckets that are never swept, kept as history.

The operators named `Name_Something` next to `Name` are variants of it with a
plausible mistake. No specification uses them: they serve to see that each
property notices such a mistake (`mutants` in `PROJECT.json`).

## 3. Runs

| Run | Module, cfg | Question | Bounds |
|---|---|---|---|
| `rsvp` | `MCRsvp` | Is the table consistent, the queue kept, the limit respected, no answer lost; does it implement `Booking`? | 3 people, 1 guest each, limit up to 3, positions up to 4 |
| `outbox` | `MCOutbox` | Fresh claims, retry schedule, copies, wake-ups | 3 rows, batches of 2, 1 handler at a time between queueing and waking, 1 fault |
| `outbox_live` | `MCOutbox`, `OutboxLive` | Is every message settled; is `Delivery` implemented, liveness included? | 2 rows, batches of 1, 1 handler, 1 fault |
| `requests` | `MCRequests` | Do mails and notices agree with the table? | 2 people, 2 requests, 1 guest, limit up to 2 |
| `organizer_promotes` | `MCRequests`, `OrganizerPromotes` | Does only the organizer take people off the waitlist? **No.** | as `requests` |
| `mailing` | `MCMailing` | Does everybody coming to a cancelled session know; do mailed links work; is a draft opened once its links are out? | 2 people, 2 requests: one invites, reminds or cancels, the other cancels or deletes |
| `limiter` | `MCLimiter` | Do sweeps and overtaking requests leave each client its allowance, no more and no less? | 2 clients, 2 requests, 14 ticks, a sweep every 6, waits of 1 |
| `double_click_guarded` | `MCMailing`, `DoubleClickGuarded` | Is a second click stopped? **No.** | 2 requests |
| `mailing_list` | `MCMailingList` | Does the weekly mail go to whom it should? | 2 addresses, 3 ids, 2 requests or open pages |
| `only_those_put_back` | `MCMailingList`, `OnlyThosePutBack` | Does a save undo the unsubscribe only of people it puts back? **No.** | as above, 2 ids |
| `desk` | `MCDesk` | Do the status shown, the test for signups, the cost, the form offered and `Rsvp` agree on a session; are saves whole? | days of 6 ticks of 25 minutes, 13 ticks, 7 forms, 2 places, 2 courts, 2 bodies, 2 saves |
| `host` | `MCHost` | Does start-up always end in serving, with the account, the logins and the snapshots? | 2 migrations, 2 passwords, 3 days of which 2 are kept, 2 stops or disk failures |

Why the bounds suffice. Capacity and order concern who is confirmed, who waits
ahead of whom and who comes back: with three people, one of them may leave the
middle of the queue, return to its end and be overtaken or not, while a pair
and a single compete for three places; the largest position handed out (4) is
beyond the number of people, so gaps occur. The cap on positions only stops
the counter. In `Requests` and `Mailing` every conflict is between two
requests, or between a request and a single call in between. A batch of two in
an outbox of three leaves a due row unclaimed, and one fault at every possible
place covers each crash window. Attempts and the backoff schedule have the
code's own lengths. In `Limiter`, fourteen ticks allow two sweeps and the sweep
interval is the shortest the assumption admits. In `MailingList` three ids allow
the largest to be freed and handed out while an older row stays and a page
still names it; an instance with three addresses gave nothing new. The forms of
`Desk` are an evening, one over midnight, one around the clock and one with a
deadline before all time, with odd rates so that amounts are rounded, and three
that must be refused; the clock runs from before the first deadline to past the last end, and
the settings include those that are stored but not used. In `Host` two
migrations leave a state between them, two faults allow a second stop while
the first is being recovered from, and three days let a snapshot grow old while
the run that removes it is cut off. The theorems below have none of these bounds.

`Statuses`, `MuddledLimit` and `Kinds` bound what else goes on in a run:
`requests` keeps the session open and lets one person at a time be muddled;
`mailing` gives each of its two requests its kinds and starts before the signup
deadline (`MCInit`); TLC identifies states that differ only in whether an
invitation was sent before (`UpToMark`), which no property of that run looks at
and no later step depends on but for the box on the page. People, addresses and goroutines that may do the same are
interchangeable, so TLC identifies states up to permutation; no liveness is
checked under symmetry.

Fairness. `Outbox` assumes weak fairness of the worker as a whole (one
goroutine that loops, with a ticker that brings it back after an error) and of
the passing of each backoff. It assumes nothing of handlers or the organizer
and lets faults merely happen, finitely often. `EventuallySettled` needs one
assumption more, `OrganizerRests`: `ClaimDue` takes the smallest ids first, so
low ids which fail and are put back for ever would keep later mail waiting.
`Host` assumes weak fairness of start-up (the container is restarted whenever
the process ends: `restart: unless-stopped`, `docker-compose.yml:4`,
`deploy/compose.yaml:29`) and of the backup loop; the calendar, versions and
environments owe nothing, and stops come finitely often. The other models state
no fairness: nobody has to answer, open a form or follow a link.

## 4. What the violated properties show

1. `OrganizerPromotes`: a person on the waitlist who signs up again is admitted
   if the party now fits, in the run a smaller one; nothing asks whether others
   wait longer (`rsvp.go:172`).
2. `DoubleClickGuarded`: the guard is read before the mails are queued and set
   after (`handlers_sessions.go:329`).
3. `OnlyThosePutBack`: a save with the box ticked clears an unsubscribe even if
   the box was ticked when the page was shown, so correcting the name of
   somebody who unsubscribed brings the mail back (`handlers_players.go:80`).

Seen while modelling and without a run of their own:

- the cancel handler decides whether to tell the organizer from the entry it
  read before its transaction (`handlers_participant.go:199`), so a signup that
  commits in between makes a cancellation silent;
- a session closed or cancelled while its first invitation is being sent is
  opened again (`handlers_sessions.go:384`);
- an answer between history check and deletion goes with the player
  (`handlers_players.go:122`);
- once the limit is under the headcount, `SetGuestCount` refuses a smaller party
  too if it still does not fit (`rsvp.go:226`);
- the waitlist number on the participant's page is the stored position, which
  grows past the place in the queue;
- a notice from the public page always states no spots held before;
- mail may be queued for somebody who unsubscribed after the list was read;
- a request that fails between setting a session cancelled and queueing the
  mails leaves people uninformed, and so does a failed look-up of one of them,
  of which the page says nothing (`NobodyUninformed` sets exactly these people
  aside);
- if marking the session fails after an invitation or a reminder was queued, or
  the client has gone by then, the handler returns without waking the worker
  (`handlers_sessions.go:378`, `458`): the mail waits for the ten-second tick,
  where `worker.go:50` has it go out within a second; and a draft stays shut
  although its links are out (`InvitationOpens` sets this aside);
- an invitation loaded while the session was open leaves it shut if the
  organizer makes it a draft before the mail is queued;
- reminders may be sent for a session that is closed or cancelled;
- somebody the organizer removed who follows the resubscribe link is told to be
  back on the list (`handlers_participant.go:369`), which only the organizer can
  do (`MailingList`: `active` is not touched);
- adding somebody who is inactive answers that they are already on the list
  (`handlers_players.go:47`), and the box "add to the list" is ignored for
  people who are found (`handlers_sessions.go:634`);
- deadlines of courts that were given back stay (`SetCourts`), and the edit form
  overwrites courts given back after it was opened;
- negative days before the session are stored as a default and replaced by
  three on loading (`setting.go:100`);
- the parser's test for an end after the start never fails, because an end that
  is not later is taken to be on the next day (`model.go:153`).

## 5. Proofs

TLAPS proves the following for all values of the constants allowed by the
assumptions `RsvpAssumption` (finitely many players, a positive largest limit,
positions below `1 << 30`), `OutboxAssumption` (batches of at least one),
`RequestsAssumption`, `MailingListAssumption`, `DeskAssumption` (positive lengths
of day and tick, sensible built-in defaults, a bound on the places a form
holds), `HostAssumption` (at least one migration, at least one day kept, no password
that stands for none), and `LimiterAssumption` (a request costs no more than a
full bucket, and a bucket refills faster than it is swept: in the code 300 or 60
seconds against 600).

| Module | Theorems |
|---|---|
| `RsvpProofs` | lemmas on `Roster`: headcounts are naturals, the next position is above all in use, releasing one's own slots, changing one row; `TypeCorrect`, `PlacedWhileWaiting`, `PositionsAreDistinct`, `CapacityHolds`, `ReconfirmationHolds`, `OrderHolds`, `AnswersHold`, `RowsInvariant`, `RsvpImplementsBooking`, `QueueIsLine` |
| `OutboxProofs` | `OutboxTypeCorrect`, `ClaimsStayFresh`, `ScheduleHolds`, `CopiesBounded`, `NoWakeIsLost`, `SentStaysSent`, `OutboxDelivers` |
| `RequestsProofs` | `RequestsNeverOverbook`, `RequestsKeepSheet`, `RequestsFollowed`, `RequestsTypeCorrect`, `LastWordHolds`, `LedgerHolds` |
| `LimiterProofs` | `LimiterTypeCorrect`, `AllowanceHolds`, `RefusalsJustified` |
| `MailingListProofs` | `ListTypeCorrect`, `DecisionsHold` |
| `DeskProofs` | `DeskTypeCorrect`, `SavesAreWhole`, `ShownRight`, `OnlyClosing`, `CostCovered`, `GivingBackHelps`, `PrefillWorks`, `SessionRefines` |
| `MailingProofs` | `MailingTypeCorrect`, `CancellationsReachAll`, `MailedLinksWork`, `InvitedDraftsOpen` |
| `HostProofs` | `HostTypeCorrect`, `AccountHolds`, `CopiesHold` |

The arguments.

- *Rsvp.* `RsvpInv` joins the type invariant, "a position exactly while
  waiting" and "positions are distinct". The last needs the other two: a new
  position is one above the largest in use, and only rows on the waitlist with
  a position count as using one. The action properties then follow step by
  step; that a step which adds bodies ends within the limit rests on the lemma
  that the headcount is the person's own party plus the headcount of the others.
- *Booking.* Each transaction is one step of the signup sheet or does not show on
  it (`StepOnSheet`). Three facts carry it: the bodies admitted with others are
  those counted with one's own row released (`TakenIsHeadcount`), a row written
  with the next position is behind everybody (`EndOfLine`), and a row that is off
  the waitlist leaves the order of the others alone (`OutOfLine`). `QueueIsLine`
  says that the relation always is the order of one queue; it is where distinct
  positions matter.
- *Outbox.* `ClaimsAreFresh` is inductive only together with the worker's
  control state: the batch is empty unless the worker delivers or records, and
  nobody but the worker changes a pending, due row. `SentOnceBarFaults` also
  needs a stronger form (`OutboxInv`): how many copies a message that is still
  queued, or just accepted, may have. `NoLostWake` speaks of each message and
  of the very handler that queued it. It needs that claiming finds something
  whenever something is due, which rests on a smallest due id, and that a
  message past a backoff has been tried before.
- *Mailing.* For `NobodyUninformed` the invariant (`MailingInv`) says of each
  person coming to a cancelled session that they were told, that a failing call
  missed them, or that a request which is to tell them is still under way: not
  yet at the roster, or with them in its list.
  It needs in addition that only existing players have rows
  (`RowsInvariant`). `LinksWork` needs
  what a request has in hand between reading the list and queueing (the people
  in its list have rows, unless they were deleted since). `InvitationOpens` is
  inductive as it stands: the request that is to open the draft is the witness,
  and every step that could end it opens the session or is an exception named
  in `live`.
- *Last word and ledger.* Neither is inductive: between its commit and its mail a
  request leaves both untrue. `RequestsInv` therefore says of everybody who is
  not muddled that at most one request is about them and that this one is on its
  track: before its commit, both are still true of the row, and what it read of
  that row still holds; after it, the row is what the request wrote and will
  mail, and the ledger lacks exactly what it will report; after the mail, only
  the ledger is behind. When no request is about a person, both are true. That a
  request which finds no player to mail has no row left to be wrong about is
  `RowsHavePlayers`.
- *Host.* `HostInv` has a part for each thing that outlives the process. The
  migrations recorded are a first part `1 .. n` of all, and the schema is the same
  set, because statement and record are one transaction; so the next one pending
  is `n + 1` whatever version runs. The account's password is the one chosen
  last, and there is one secret for ever, which signed every login. For
  `CopiesKept`: runs of the backup never overlap and each is named after the day
  it began, so while one is under way no snapshot is newer than its own, and
  when it prunes, its own is whole and younger than what it prunes.
- *MailingList.* The invariant joins the type invariant (one row to an address is
  part of it) and `ListedAsDecided`. Each statement is taken with what it does
  to the rows, to `chosen` and to `out`: a row's address is the only link
  between them, so a save that renames a row moves what is known of it.
- *Desk.* The form's guards hold of the stored row at all times, also after
  courts are given back; with "deadline before start, start before end" the
  two derivations of being open agree, which is `ShownRight`. The cost
  theorems rest on lemmas about division rounded up and down, and on the
  monotonicity of both. For `SavesAreWhole` the invariant says what a sole save
  that is still under way has in hand. `SessionRefines` maps each step to a step
  of `Rsvp` or a stutter; lateness, in `Rsvp` a free Boolean, follows from the
  clock here.
- *Limiter.* `LimiterInv` encloses what each bucket would hold now between the
  two ideal ones. A bucket never falls behind the clock, hence is full when it
  is swept, and being made anew gives nothing away. Requests that overtake each
  other cost at most `Delay` on either side, which the properties state.

Checked by TLC only, because they are liveness, which is out of the prover's
reach: `EventuallySettled`, the liveness of `Delivery` in `ImplementsDelivery`
(its safety is `OutboxDelivers`), and `Serves` and `BackedUp` of `Host`. Every
safety property of the passing runs is a theorem. The inductive invariants
`RequestsInv` and `HostInv` were checked by TLC on the instances of the runs
`requests` and `host` before they were proved.

## 6. Left out

- Names, tokens, timestamps, wording, venue and notes: no modelled decision
  depends on them. An email address is a name for a player in `MailingList` and
  for nobody elsewhere. Court deadlines only affect display; `Desk` keeps which
  courts have one, not when.
- Daylight saving: `Minutes` computes in UTC and `EndAt` in local time, so for an
  evening that spans a change of the clock the hours paid and the hours shown
  differ by one; the clock of `Desk` has no such changes.
- A login expires after thirty days, and a change of the password leaves logins
  valid; both depend on one cookie alone. Two changes of the password at once
  both succeed if both knew the old one, and the last to be stored counts.
- The backup's ticker runs in days from start-up and its file names in local
  days; `Host` lets a tick be a day, and files go by whole days.
- `Mailing` keeps the limit and the deadline fixed (`UpdateSession` and the
  clock are in `Rsvp`); they do not bear on who is told.
- In `Rsvp`, `Requests` and `Mailing` row ids are identified with the person they
  were given to. SQLite may give a freed id to a new row, and a stale page may
  then name it; for players `MailingList` has this.
- The organizer's notice level is fixed to every change.
- The amounts of `Desk` are naturals. The parser (`formCents`, `form.go:39`) lets
  an input such as `0.-5` through as a negative amount.
- `Host` starts after the configuration was read: a value that `config.Load`
  refuses ends every start until it is corrected, and `Serves` says nothing of
  that.
- The interval between sends (rate limit) is time only.
- Listing, searching and display pages change nothing.

## 7. Plan

Done: `Roster`, `Rsvp`, `Booking`; `Outbox`, `Delivery`; `Requests`; `Mailing`;
`Limiter`; `MailingList`; `Desk`; `Host`; their runs and the theorems above.
Next, in this order:

1. Row-id reuse in `Requests` (a stale page removes somebody else), with what
   then remains of `LastWordTrue`.
2. The organizer's notice level in `Requests`, with a ledger for each level.
3. Proofs that `Outbox` settles each message up to the fairness step: the
   ranking that `EventuallySettled` decreases, as an action property.
