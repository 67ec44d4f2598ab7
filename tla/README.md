# Verification of the Djanora API

Djanora is a wedding and event planning service. Its state lives in one Postgres
database and is changed by a NestJS API (`apps/api`), which the web application, a
scheduler, a webhook sender and an MCP connector (a chat assistant acting for a user)
all call. This directory holds TLA+ models of the parts of the API whose correctness
depends on more than one statement or more than one caller, the TLC configurations
that check them on small instances, and theorems about them that TLAPS checks for every
instance. All source paths below are relative to `src/`.

| Module | Role |
|---|---|
| `InquiryThread` | one inquiry: messages, quotes and the host's and vendor's decisions, statement by statement |
| `QuoteBoard` | what an inquiry promises: the abstract specification `InquiryThread` implements |
| `McpConfirm` | the connector's sessions, current event and confirm tokens |
| `ConfirmGate` | what a confirm token promises: the abstract specification of `McpConfirm` |
| `EventCircle` | the tree of events, invitations, grants of sub-events, and who can open what |
| `Circle` | what the event handlers promise a host and the people invited: the abstract specification of `EventCircle` |
| `Reminders` | the two daily jobs, their worker pools, failures and restarts, day after day |
| `Notices` | what the jobs promise a host: the abstract specification of `Reminders` |
| `LiveStreams` | the live event streams of one user: the server's map of them and the source each browser tab keeps |
| `StreamPool` | what the server promises a user with several streams: the abstract specification of `LiveStreams` |
| `GuestList` | the guest list of one event, its invites, and the RSVP door of a website |
| `InviteBook` | what a guest list promises of invites and answers: the abstract specification of `GuestList` |
| `Accounts` | accounts following the sign-in provider's webhooks, and the seats that repeat an address |
| `Register` | what accounts promise, whatever becomes of the webhooks: the abstract specification of `Accounts` |
| `Checklist` | rows of an event's checklist, and the Home rows tied to them |
| `HomeTies` | what becomes of the ties between Home rows and event rows: the abstract specification of `Checklist` |
| `MC...` | the sets and symmetries of the small instances TLC checks |
| `...Proofs` | theorems and proofs |

## The system

### How the code runs

Every handler is an async function of a NestJS service. It awaits one Prisma call
after another; each call is a SQL statement or one `$transaction`, executed at Postgres'
default READ COMMITTED level. There are no row locks (`SELECT ... FOR UPDATE`), no
serializable transactions, no version columns and hardly any conditional updates: a
handler reads, checks, computes in memory and then writes by primary key. Between two
awaits any other handler, on this instance or another one, may run, and the process may
be restarted, in which case the rest of the handler never happens. This is the single
source of hard behaviour in this code, and every module models it in the same way:

* the rows are the variables, a statement or transaction is one action;
* `req[r]` (or `call[c]`) is the local state of the handler in slot `r`: its
  operation, the statement it is about to run (`at`), its arguments and whatever it has
  read and will use later;
* the guards that a handler evaluates in memory belong to the action of the statement
  that read what they look at;
* `Die` ends a handler between two statements. It covers a restart, a statement that
  throws and a client that gives up.

With several slots handlers interleave; with one slot they run one after another. Some
properties hold in both cases. Others the code can only keep in the second, because it
checks first and writes later. The runs say which are which, and where the repository
states a promise that overlapping handlers break, the disagreement is under Findings.

`LiveStreams` is the exception: its server side is a synchronous data structure in one
process, and what interleaves are browsers, timers and connections that end.

### Inventory

State is in database tables unless said otherwise. "Model" names the module, or the
reason there is none.

| Component | State | Operations | Interacts with | Hard behaviour | What makes it correct | Model |
|---|---|---|---|---|---|---|
| Inquiry threads (`inquiries/`) | `inquiries`, `inquiry_messages` (a quote's decision flags are in its JSON payload) | create, post, accept, reject, book, update status, edit, unsend, mark read | notifications and live streams after each commit; connector jobs call the same handlers | read-check-write over several statements; JSON written back whole; two-statement post | no contradictory flags; one accepted quote; bookings follow acceptances; the amount shown is a posted quote; closed threads stay closed to posts | `InquiryThread`, `QuoteBoard` |
| Connector gate (`mcp/mcp.confirm`, `session`, `scope`, `hash`, `jobs`) | `mcp_sessions`, `mcp_confirm_tokens` | touch, set and clear current event, resolve an event argument, preview, spend, run a job | event, site and inquiry services run the jobs | check-then-spend, retries, 10 minute tokens, 24 hour idle sessions, access revoked in between | a job runs only on a token for the same session, job and arguments; once per token; on the event shown | `McpConfirm`, `ConfirmGate` |
| Connector edge (`mcp.oauth`, `rate-limit`, `tools`, `http`) | in-memory windows | metadata, registration, limits | Clerk | fixed windows, per process | bounded calls per window | none: single synchronous steps, external OAuth |
| Events, members, access (`events/`) | `events`, `event_members`, `event_sub_grants` | create, add, attach, detach, soft delete; invite, update, remove, leave, accept; load, list | almost everything asks `EventAccessService` | tree checks and writes apart; grants checked against the tree and written later; cascades | two-level tree; grants stay in the circle; lists and access agree; nobody is let in but by grant or acceptance | `EventCircle`, `Circle` |
| Checklist (`events/event-checklist`, Home in `users/`) | `event_checklist`, `user_checklists`, `event_checklist_concealments` | add, import, update, hide, assign, delete; create, update, move and delete on Home | event access; reminders read due rows | Home rows are found by their link in a later statement; moves act on what was read before their transaction; hiding is two statements | links and events agree; both rows say the same; nothing is left behind; no row is hidden from who it is given to | `Checklist`, `HomeTies` |
| Budget, schedule, party (`events/event-*.service.ts`) | their tables | CRUD, pairing and importing party members | event access | pairing spans two rows | pairs are mutual | none yet |
| Comments, activity | append-only rows, last-seen marks | add, list, mark seen | event access, live streams | fan-out after commit | visibility follows the surface | none: rules are those of event access |
| Event websites (`event-sites/`) | `event_sites`, sections, photos, includes; signed guest sessions | edit, publish, unpublish, guest sign-in, RSVP | guests, events | find-or-create by address, gallery limit, deleted event with a live site | unpublished sites and deleted events take no answer; one guest per address | `GuestList` (the RSVP door), `InviteBook` |
| Guests and RSVP (`guests/`) | `guests`, `guest_invites` | add, import, edit, remove, look up a link, send, answer by link | websites | look first and write later, without a unique key; invites created by three handlers; links sent again | one guest per address; a link stays the guest's; answers survive | `GuestList`, `InviteBook` |
| Reminders and notifications (`reminders/`, `notifications/`) | `notified_at` and `review_requested_at` marks, `notifications` | two daily jobs through a pool of four workers; delivery by push, e-mail and text | checklist, bookings, live streams | send before mark, restarts and missed hours, a failure costs a worker, batches are cut at 200 | nothing marked that was not sent; nothing sent twice; what stays due is reminded of | `Reminders`, `Notices` |
| Live streams (`sse/`, `lib/sse-connection.ts` of the web application) | in-memory map of a user's streams, at most five; one source per tab with two timers | open, push, close, evict; retain, release, reconnect | all pushes | eviction, finalizers that run later, errors, remounts, restarts | a push reaches every open stream; no held tab stays silent; the tabs settle | `LiveStreams`, `StreamPool` |
| Accounts and webhooks (`users/`, `webhooks/`) | `users`, `event_members` by address | upsert, soft delete, inline creation; inviting and accepting bind seats | Clerk webhooks, every handler | webhooks repeated, out of order and half handled, racing inline creation; seats bound on an account read earlier | a deleted account holds no address; accounts and seats end up as the provider says | `Accounts`, `Register` |
| Assistant (`assistant/`) | transcript blob | turn: load, model, save | connector tools | overlapping turns overwrite each other | no turn is lost | none yet |
| Vendors, posts, reviews; inspiration; administration; uploads; contact; health | their tables | one guarded statement each | | unique keys | | none: no multi-step protocol |
| Web applications | none the API relies on | | API | | | none |

`PROJECT.json` lists the same components with their files, and under `hazards` every
place found so far where something hard to test can go wrong, with the property that
would catch it or the reason there is none yet.

## The modules and the code

### InquiryThread and QuoteBoard

State: `status`, `deal` (`quoted_amount`, identified with the quote it came from) and
`bookedAt` are the inquiry's columns, `msg` its messages, `everAccepted` a history
variable. The handlers of `InquiriesService`:

| Code | Actions |
|---|---|
| `postMessage` | `PostRead` (reads, checks who may post what to which status), `PostCreate` (inserts), `PostTouch` (updates the inquiry from the status read at the start) |
| `acceptQuote` | `DecisionReadInquiry`, `DecisionReadQuote`, `AcceptReadSiblings`, `AcceptCommit` (one transaction: the quote, the siblings it withdraws, the inquiry's amount) |
| `rejectQuote`, `bookQuote` | `DecisionReadInquiry`, `DecisionReadQuote`, `RejectCommit` / `BookCommit` |
| `updateInquiryStatus` | `DecideRead`, `DecideCommit` |
| `updateMessage`, `unsendMessage` | `AmendRead`, `EditCommit` / `UnsendCommit` |
| `markMessagesRead` | `MarkRead`, `MarkCommit` |
| passing of the five minute edit window | `WindowCloses`, at any moment |

`VIEWED` and `CANCELLED` are statuses of the schema that no code writes; they are kept
because guards mention them. Amounts and currencies are identified with the quote.
Pushes and notifications are sent after the commits and change none of this state.

`QuoteBoard` says what one inquiry promises: quotes that are open, accepted, rejected or
unsent, at most one accepted at a time, and a booking only of the accepted quote. The
refinement mapping (`Board` in `InquiryThread`) reads each quote's standing from its
flags; a post becomes visible on the board in two steps, the offer and the announcement.

### McpConfirm and ConfirmGate

State: `session` and `token` are the connector's two tables, `access` and `title` what
the rest of the API says about events (changed by the environment actions `Regrant` and
`Rename`), `call` the tool calls in flight, `runs` and `count` histories.

| Code | Actions |
|---|---|
| `McpSessionService.touch` | `TouchRead`, `TouchWrite` (creates, refreshes, or forgets the current event after 24 idle hours) |
| `McpScopeService.resolve` | `ResolveNamed` (an id or a title), or `ListRefs` and `ResolveCurrent` (the session's current event) |
| `setCurrentEvent`, `clear_current_event` | `Pin`, `Unpin` |
| `McpConfirmService.preview`, `.spend` | `Preview`; `SpendRead`, `SpendCommit` (one transaction: this token and its unspent siblings) |
| the job itself | `RunJob` (of the event jobs only `delete_event` changes what later calls can see) |
| time | `Expire` (10 minutes), `GoStale` (24 hours), at any moment |

Arguments are abstracted to the one that decides the event; the payload hash compares
that and the tool. A call's repeated `touch` only refreshes `last_used_at` and is left
out. A session is derived from the account (`mcp.context.ts`), so all sessions belong to
one account.

`ConfirmGate` is the life of a token: offered, claimed, done, or void. `McpConfirm`
implements it when calls do not overlap.

### EventCircle and Circle

State: `parent` and `life` are the columns of `events` that matter here, `seat` the
`event_members` rows, `grants` the `event_sub_grants` rows, `everChild` a history of the
links of the tree.

| Code | Actions |
|---|---|
| `EventsService.create` | `CreateEvent` |
| `EventChildrenService.addChild` | `AddRead`, `AddCreate` |
| `attachChild` | `AttachRead`, `AttachFindChild`, `AttachCount`, `AttachWrite` |
| `detachChild` | `DetachRead`, `DetachFindChild`, `DetachRevoke`, `DetachUnlink` (two statements, no transaction) |
| `EventsService.softDelete` | `DeleteRead`, `DeleteListChildren`, `DeleteWrite` |
| `EventMembersService.invite` | `InviteRead`, `InviteCheckGrants`, `InviteFindExisting`, `InviteCreate` |
| `update` | `UpdateRead`, `UpdateFindSeat`, `UpdateCheckGrants`, `UpdateWrite` (one transaction that rolls back when the row is gone) |
| `remove`, `leave` | `RemoveRead`, `RemoveFindSeat`, `LeaveRead`, `LeaveFindSeat`, `DeleteSeat`, `LeaveGrant` |
| `accept` | `AcceptRead`, `AcceptWrite` |
| `EventAccessService.load` | the operator `Ways`: the seats that let a person in |
| `findByUser`, `listAccessibleEventIds` | the operator `Listed` |

All events belong to one host: `attachChild` accepts only the caller's own events and
`addChild` copies the owner. A person is identified with an address, so binding an
address to an account, the legacy branch of `findAcceptedMember` that links a row
accepted without one, and `accept`'s test for a second seat of the same account are out
of the model (the last is backed by a partial unique index). `applyWeekend` is a loop of
`addChild`. Sort order, budgets and the tabs a grant opens are abstracted; of the
surfaces only the website (`SITE`) is told apart.

`Circle` has no seats, statements or requests: `live` and `gone` are events, `under` the
links of the tree, `places` who is invited to which event and as what, `given` who is let
into which sub-event. Each operation is one step that looks at the circle as it is, but for
detaching (grants first, then the link) and for a place and its grants, of which a leaver
may give back single ones. In the mapping (`Promise`), `places` is what the held seats stand
for and `given` the pairs of a person and a live sub-event whose grant hangs on a seat of
that person at its parent, so that seat ids, and grants that open nothing, vanish.
`EventCircle` implements `Circle` when handlers do not overlap.

### Reminders and Notices

State: `item` and `booking` are the columns of the checklist and of the inquiries that
the jobs look at, `stage`, `dead` and `hour` the jobs of today (where each row of the
batch stands, how many workers have ended with an error, whether the hour has passed),
`told` a history of the notifications. Dates are relative to today, so that days can pass
for ever: a due date is later, tomorrow, today or late.

| Code | Actions |
|---|---|
| `sendDueReminders`, its query | `ReadDue`: the open items due by tomorrow whose mark is older than 23 hours, the first `Cap` of them by due date |
| `sendReviewRequests`, its query | `ReadReview`: booked, not asked yet, event yesterday |
| `mapPool` | `Take` (a free worker takes a row), `StageAfterThrow` (an error ends its worker; without workers the queue is abandoned) |
| the body of a worker | `Check` (a review is there already), `Create` (the notification), `Mark` (throws when the item is gone) |
| `updateChecklistItem`, `deleteChecklistItem`, the home list | `SetState`, `SetDue` (clears the mark), `Delete` |
| `bookQuote`, `createReview` and others | `SetLive`, `WriteReview` |
| the scheduler and the process | `Midnight`, `Miss`, `Fail`, `Crash` |

`Midnight` waits for both jobs: a batch takes seconds. What a restart interrupts is not
resumed, and an hour the process misses is not made up for, which is how
`@nestjs/schedule` works. The order of rows within a batch is left open. The query for
due items does not look at `deleted_at` of the event, so an item of a deleted event is
like any other here. Mail and text follow the notification; `NotificationDeliveryService`
swallows their errors.

`Notices` forgets pools, workers and failures: a job lists what is wanted and not settled,
once a day and at most `Cap` rows, tells the host of each listed row at most once and
settles it afterwards. In the mapping (`Note`), a row is `listed` while it is anywhere in its
pool, and `settled` when it carries the mark of today or, for a booking, the mark of ever.

### LiveStreams and StreamPool

State: per tab the module variables of `sse-connection.ts` (`holders`, the two timers,
`es` as its `readyState`) and the request its source has made (`link`); at the server the
requests (`request`), the `Set` each stream was put into (`home`, `age` for its insertion
order) and the `Set` the `Map` holds (`current`).

| Code | Actions |
|---|---|
| `retainSse`, the function it returns, the release timer | `Retain`, `Release`, `ReleaseFires` |
| `open`, `onopen` | `Opened`; the browser's `SendRequest`, `SeesOpen` |
| `onerror` while reconnecting | `SeesEnd`, `Break` |
| `onerror` when closed, the reconnect timer | `Refuse` (401, or 503 of `proxyNestStream`), `ReconnectFires` |
| leaving the page | `Unload` |
| `SseController.stream` | `Subscribe`, `Abandon` |
| `SseService.subscribe`, its finalizer | `SubscribeInto` with `Evicted`; `Finalize` in `NoticeClose` |
| `onModuleDestroy`, a crash | `Restart` |

A connection the client has given up stays registered until `NoticeClose`, which may
never happen: a proxy or a lost machine need not tell. The backoff's length, heartbeats
and payloads are left out. One user is enough: nothing of one user's streams touches
another's.

`StreamPool` forgets the `Set`s, the `Map` and the finalizers: there are the streams that are
open, those a push reaches, and which was opened before which. A new stream ends another
only if the user has `Cap` of them, and then the oldest. In the mapping (`Pool`), what a push
reaches is the members of the `Set` in the `Map`, and the order is read from the ages.

### GuestList and InviteBook

State: the rows of `guests` (`listed`, `mail`) and `guest_invites` (`token`, `expiry`,
`answer`), the link first handed to the guest (`handed`), what the website takes
(`door`), whether the event is deleted, and who a website session may name (`signed`).
`call` holds the request in hand and `crossed`, whether another request wrote since it
began; requests of the host that only hand out a link are not marked, nothing is said of
them.

| Code | Actions |
|---|---|
| `addGuest`, `updateGuest`, `removeGuest` | `AddGuest`, `UpdateGuest`, `RemoveGuest` (one write each; the invite goes with its guest) |
| `importGuests` | `ImportRead`, `ImportCreate` |
| `unlockLink` | `UnlockRead`, `UnlockCreate` (fails on the unique key or the missing guest) |
| `sendInvite` | `SendRead`, `SendUpsert` |
| `submitRsvp` | `AnswerLink`, `WriteRsvp` |
| `createSession` of a website | `SignsIn`, in every step |
| `rsvp` of a website | `AnswerInvited` (of whom `TakenFor` says); `AnswerOpen` and `upsertOpenGuest`'s `OpenFind`, `OpenSeat`, `OpenInvite`; `WriteRsvp` |
| `publish`, `unpublish`, `patch`; `softDelete`; the clock | `SetDoor`; `SoftDelete`; `Expire` |

Addresses are folded as the code folds them. A token is the count of the invites its
guest ever had. What `rsvp` reads of an invited guest before it writes is one step. A signed
session names guests by id for 30 days, and `rsvp` then looks at neither address nor code.
`createSession` writes nothing, so a guest may have signed in at any moment at which the
address or code could be found: `signed` is everyone for whom there was such a moment and
who is still on the list, and a request may come with a session of any of them or without.
Names matter in one
place: an import also skips rows whose name it knows, so any subset of the new addresses
may be skipped. `ViaParent` says whose website it is: the event's own, or its parent's,
which includes the event (see Findings).

`InviteBook` is the list as if every request took effect at once: a guest is absent, listed,
invited or has answered, may hold a link that works, and has answers that are given but not
stored yet. In the mapping (`Book`), an answer is outstanding while a request holds it and
the invite it was read from is still the guest's; a removal takes it along. `GuestList`
implements it however requests overlap.

### Accounts and Register

State: what the provider has told of each person (`log`) and has no answer to (`inbox`);
the account (`row`), the seats with holder and address, the webhook in hand (`hook`), the
first visit under way (`visit`) and the requests about seats with what they have read
(`call`). `stray` is a history: the seats given to someone whose account had moved since it
was read.

| Code | Actions |
|---|---|
| Clerk | `SetAddress`, `Leave` |
| `handleClerkWebhook`, `upsert` | `UpsertRead`, `UpsertWrite`, `UpsertSeats`; `HookFails` between two statements |
| `softDelete` | `SoftDelete` |
| `ensureFromClerk` | `VisitReads`, `VisitAsks`, `VisitMakes`; `VisitFails` |
| `invite`, as far as it binds a seat | `InviteRead`, `InviteCreate` |
| `accept` | `AcceptRead` (the account), `AcceptCheck` (the seat), `AcceptWrite` (by the seat's id alone) |
| a request that is refused or cut off | `CallFails` |

A webhook leaves `inbox` when it is answered, and a lost answer leaves it there. Nothing
is assumed of the order in which webhooks arrive. The handlers of one person's webhooks
do not overlap in the model, but for a deletion where `Overlap` says so; those of different
people, visits and requests about seats do, statement by statement. The tombstone
address of a deleted account is abstracted to `NoMail`. Each seat is at an event of its
own.

`Register` has no webhooks, visits or handlers: an account is opened with an address its
person was told to have and nobody else has, moves to another such address, and is closed
for good once the person left. A request looks who has an address (`Look`) and gives a seat
to who was found (`Offer`), or finds that someone has the address of a seat (`Fit`) and
binds it (`Take`); what it found may be outdated by then, but it was so once. Seats follow
their holder. In the mapping (`Reg`), what was told is the set of addresses in the provider's log,
`found` and `fits` are what the requests about seats hold, and the rest are the columns.
`Accounts` implements it whatever is lost, repeated or reordered.

### Checklist and HomeTies

State: `item` is the event's rows, `home` one Home row per person, `call` the requests
in hand. `orderly` says that so far no two requests overlapped and none was cut off, `made`
which Home row an event row was made for.

| Code | Actions |
|---|---|
| `addChecklistItem`, `importChecklistItems` | `AddItem`; `ImportRead`, `ImportCreate` |
| `updateChecklistItem` | `PatchCheck`, `PatchItem`, `Uncover` and `Cover` (`replaceConcealments`), `Sync` (`syncHomeChecklist`) |
| `deleteChecklistItem` | `DeleteCheck`, `DropHome`, `DropItem` |
| `createChecklist` of Home | `CreateHome` |
| `updateChecklist` of Home | `HomeRead`, then `Move` or `Stay` (one transaction) |
| `deleteChecklist` of Home | `HomeDeleteRead`, `HomeDelete` |
| a statement that throws, a restart | `Cut` |

Title, due date and completion are one `text`. Everybody in the model may edit the
checklist of every event; who may is `EventCircle`'s subject. Hidden rows are hidden from
members, never from the host.

`HomeTies` keeps of all this the event each row is of, the event and the link of each
person's Home row, and the Home rows people had when a request looked. Its promise is what a
request may do with such an old copy: write it back only while its event row is there, put
another in its place, or end it, and in either case take away no event row but the copy's
own. A new row gets an id nobody refers to. In the mapping (`Home`), `seen` is what the
requests on Home hold until they are through. `Checklist` implements it however requests
overlap and wherever they are cut off.

## What the runs check

All passing runs check every reachable state. `Faults = TRUE` lets any handler die
between any two statements. `CHECK_DEADLOCK FALSE` is set because a finite supply of ids
runs out and then nothing but reads, or nothing at all, may be left to do.

| Run | Bounds | Shows |
|---|---|---|
| `ThreadConcurrent` | 2 messages, 2 overlapping handlers, all calls that write more than a read mark, faults | `FlagsConsistent`: no quote is both accepted and rejected, or booked and rejected. `DealIsPosted`: the amount is that of a posted quote. `BookedWasAccepted`: a booking has an acceptance behind it |
| `ThreadSerial` | 3 messages, 1 handler at a time, all calls, faults | `OneAccepted`, `BookedDealStands`, and that the thread implements the board (`ImplementsBoard`), which includes that nothing is offered in a closed thread and that unsent quotes carry no decision |
| `ConfirmConcurrent` | 2 sessions, 2 tokens, 2 overlapping calls, expiry, idling, revoked access, faults | `RunsAreGranted`: a job runs only on a spent token of its session, job and arguments. `RetryIsRefused`: a confirmation that came in after its token was spent never runs |
| `ConfirmSerial` | 1 session, 2 events with titles, 2 tokens, 1 call at a time, faults | `IdleSessionForgets`, and that the gate is implemented (`ImplementsGate`) |
| `ConfirmTwice` | 1 token, 2 calls | finding: one token runs a job twice |
| `CircleConcurrent` | 2 events, 2 seats, 2 overlapping handlers, all calls, faults | `GrantsAreRooted`: a grant never outlives its seat and never leaves the circle it was given in |
| `CircleSerial` | 3 events, 1 person, 2 seats, 1 handler at a time, all calls, faults; invitations as editor or viewer with or without the website | `TreeIsFlat`, `ListedOpens` (a list shows only what opens), `OnlyGrantsOpen` (only an acceptance or a grant lets anyone in), and that the circle is implemented (`ImplementsCircle`): one place per person and event, grants only of sub-events as they are, nothing left of those who left |
| `ReminderDays` | 1 item that hosts set due today or never, 2 bookings, a pool of 1 worker, 1 fault of any kind, endless days | `MarkIsEarned`: no mark without its notification. `ImplementsNotices`: only rows that were due are told of, an item once a day and a booking once, before the mark and never after it. `PendingIsReminded`: an item that stays open and due is reminded of, again and again |
| `LiveStreamTabs` | 2 tabs with up to 2 holders, 4 connections, a cap of 2, 3 mounts, 1 fault | `ImplementsPool`: a push reaches every stream the server holds, and a stream somebody listens to ends only for a newer one, as the oldest of a full set. `HeldTabTries`: a held tab has a source or a timer. `TabsSettle`: every held tab ends up with a stream that is reached, and keeps it |
| `GuestDoors` | 2 guests, 2 addresses, 2 overlapping requests with or without sessions, 1 change of the site or deletion | `LinkStaysGood` and `ImplementsBook`, whatever overlaps: one invite a guest, answers land in the invite they were given to or nowhere, and are replaced only by answers. `NoTwinCreated`, `DeletedTakesNoAnswer`, for requests nothing crossed |
| `AccountWebhooks` | 2 people, 2 addresses, 1 seat, 1 request about it at a time, 3 changes of one person and 4 of both | `ImplementsRegister`, always: accounts take only addresses that were told and free, a closed one never comes back, and a seat goes to who had its address when the request looked. `SeatsFollow`, once every webhook of a person is answered: the seats bear the account's address, but for one that was given on an outdated read. `AccountFollows`, likewise, if no webhook took effect after a newer one |
| `ChecklistHome` | 3 event rows, 2 events, 2 texts, a host and two members, 2 overlapping requests, 3 in all | `ImplementsTies`, whatever overlaps: a stale copy of a Home row costs no event row but its own, and every link leads to a row of its event. `InStep`, `NotHiddenFromAssignee`, `NoRowLeftBehind`, between requests that did not |

Why the bounds are enough to be interesting. Two messages let two quotes compete, and
the third lets one replace an unsent one. Two overlapping handlers are the least that
can go wrong, and every race described under `hazards` takes two; the theorems below
remove this bound for the concurrent properties. Two tokens let one void the other. Three
events are what it takes to build a tree that is too deep, two seats let a person be
invited to an event and to its sub-event, or be removed and invited again. Two bookings
queue for one worker, whose failure leaves the second where four failures leave the rest
of a batch of two hundred; one fault is enough to put a restart between a notification
and its mark, and the theorems hold for any number. Two tabs at a cap of two, and more
connections than the cap, let dead connections fill the set and a new one evict. Two
guests and two addresses let one address be had twice and be found or not; two requests
cross each other. Three changes of one person are a sign-up, a change and a deletion, in
all six orders of their webhooks, and a freed address can become the other person's.
Three requests are what it takes to tie a Home row, and move it while its event row is
edited or deleted; three event rows leave one free for the new place.

`PoolIsBounded`, `StreamsCapped`, `ReleasedTabRests` and `RsvpIsStored` are stated in their
modules and proved, and need no run of their own. Nor do `SiteNeedsEditor`, `ToldOnce`,
`StreamsReached`, `AnswerIsKept`, `DeadHoldsNoAddress` and `LinkAgrees`: each is proved, and
says of a part of the state what the abstract specification checked in the same run says of
all. Eight more configurations, `ThreadBookRace`, `ConfirmElsewhere`, `CircleTreeRace`,
`ReminderStarves`, `RsvpDeletedChild`, `ChecklistHidden`, `SeatStrays` and
`DeletedHoldsAddress`, reproduce what is described under Findings, the last two among what
was seen while reading; each ends with the counterexample.

Fairness. `Reminders` and `LiveStreams` assume some, and only of the system. Reminders: the
scheduler fires (`ReadDue`, `ReadReview`), a worker that can go on does (`Step` of each
row), and days pass (`Midnight`). Hosts owe nothing, and faults are finitely many
(`MaxFaults`): against a process that is down every morning nothing can be promised.
`Step(r)` may be disabled while the pool is full, but a queue only shrinks, so weak
fairness is enough. Live streams: timers fire, the browser retries and notices an end or
an opening it is shown, and a request that arrived is answered (`Subscribe`). Nothing is
assumed of `NoticeClose`: the server may never learn of a client that has gone, nor of
users, who may hold or leave. `TabsSettle` needs at most as many tabs as the cap. With
more, each stream that is evicted reconnects and evicts the next, for ever; the cap is
documented as a guard against buggy clients and nothing promises a sixth tab a stream.

Every property has a seeded fault, a definition `X_Y` next to the definition `X` of the
code that differs from it the way a plausible bug would (a dropped check, a stale copy, a
missing rollback). Substituted for `X` it makes the run fail.

## What is proved

For every value of the constants, from the assumptions named in the modules
(`ThreadAssumption`, `ConfirmAssumption`, `CircleAssumption`, `RemindersAssumption`,
`CapAssumption`, `NoneAssumption` and their like: the ids and the "none" values are apart,
the sets of calls are among those of the code, rows are finitely many, the cap is two or
more):

* `InquiryThreadProofs`, `McpConfirmProofs`, `EventCircleProofs`: type correctness and
  every invariant of the concurrent runs (`FlagsConsistent`, `DealIsPosted`,
  `BookedWasAccepted`; `RunsAreGranted`, `RetryIsRefused`; `GrantsAreRooted`), for any
  number of rows and any number of overlapping handlers, with or without faults.
* The same three modules, under the assumption that one handler runs at a time (`Solo`,
  `OneCall`): `OneAccepted`, `BookedDealStands` and the refinement `ImplementsBoard`;
  `IdleSessionForgets` and the refinement `ImplementsGate`; `TreeIsFlat`, `ListedOpens`,
  `SiteNeedsEditor`, the action property `OnlyGrantsOpen` and the refinement
  `ImplementsCircle`. Handlers may still die half
  way, and what the environment does (edit windows close, tokens expire, sessions idle,
  events are created) still happens while one is in flight.
* `RemindersProofs`: type correctness, `PoolIsBounded`, `MarkIsEarned`, `ToldOnce` and the
  refinement `ImplementsNotices` for any number of rows, workers and faults and any batch
  size.
* `LiveStreamsProofs`: type correctness, `StreamsReached`, `StreamsCapped`, `HeldTabTries`,
  `ReleasedTabRests` and the refinement `ImplementsPool` for any number of tabs, connections
  and faults and any cap of two or more. `StreamsCapped` is a fact about cardinality: the ages of a set's streams are
  distinct and below the cap.
* `GuestListProofs`: type correctness, `LinkStaysGood`, `AnswerIsKept`, `NoTwinCreated`,
  `RsvpIsStored` and the refinement `ImplementsBook` for any number of guests, addresses and
  overlapping requests, whosever website it is;
  `DeletedTakesNoAnswer` for an event's own website (`~ViaParent`).
* `AccountsProofs`: type correctness, `SeatsFollow` and `AccountFollows` for any number of
  people, addresses, seats, requests and changes, deletions that come in between the
  statements of `upsert` included; `DeadHoldsNoAddress` and the refinement
  `ImplementsRegister` without those (`~Overlap`).
* `ChecklistProofs`: type correctness, `LinkAgrees` and the refinement `ImplementsTies`,
  however requests overlap and wherever they are cut off; `InStep`, `NotHiddenFromAssignee` and
  `NoRowLeftBehind` between requests that do not and none of which was cut off, for any
  number of rows, events, people and requests.

None of the invariants is inductive as it stands, because a handler acts on what it read
some statements ago. Each inductive invariant therefore also says what is true of the
handlers in flight:

* `InquiryThreadProofs!IInv`: the copies of payloads a handler holds are as consistent
  as the rows, were accepted if they say so, and still satisfy the guards it passed
  (`HandlerOK`); two handlers never insert under one id (`PostsApart`).
* `McpConfirmProofs!IInv`: a call past `spend`'s read holds a token issued to its own
  session for its own job and arguments (`CallOK`). This survives other calls because
  tokens only advance from none to open to spent (`TokensAdvance`).
* `EventCircleProofs!IInv`: the sub-events a handler is about to grant were children of
  the event when it looked (`Knows`), and the seat it found is the same row or gone
  (`SeatOn`); a row keeps its event and a deleted row never returns (`SeatsStay`).
* `EventCircleProofs!SInv`, for one handler at a time: what a handler has checked is still
  so when it writes (`Sure`), and grants follow the tree (`GrantsFollow`): this is what
  `DetachRevoke` before `DetachUnlink` is for, and why the opposite order would be wrong
  when the process dies in between.
* `EventCircleProofs!CInv`, on top of it: a person has one seat on an event (`Single`, since
  `InviteFindExisting` looks and the insert is still right about it), and the event and the
  seat a handler has found are still there (`Firm`). With `Single`, deleting a seat takes a
  place and exactly its grants away from the circle; without it, a second seat would keep
  letting its person in after they left. A handler that dies after `DetachRevoke`, or while
  grants are given back, has made a smaller move of the circle.
* `InquiryThreadProofs!SInv`, likewise: the payloads and the status a handler read are those
  of the rows when it writes (`Fresh`), and only quotes that are posted and not unsent carry
  a decision (`Marked`). Every commit is then one move of the board on the quotes as they
  stand, and every other step leaves the board as it is. A post that dies between its two
  statements is an offer nobody announces, which the board allows.
* `McpConfirmProofs!SInv`, likewise: what a call found is still so when it acts on it
  (`Sure`), a session that does not exist yet has no current event (`SessionsBare`), and only
  spent tokens have run a job (`CountsSpent`), so that a job runs once.
* `RemindersProofs!IInv`: where a row stands in its pool says how often its host was told
  (`StageTold`), and so do the hour and the date (`HourTold`). The second half is why a
  restart before the mark does no harm: the next run is on another day, for which the
  reminder is due again, and on which the request for a review no longer is. The same
  invariant carries the refinement: a row about to be told of was not, and one about to be
  marked was, or its booking is reviewed.
* `LiveStreamsProofs`: a `Set` with members is the one the `Map` holds, and within it ages
  are distinct and below the cap (`ServerInv`). This is why a finalizer may drop the map
  entry by user id alone: as long as the cap is at least two, eviction never empties the
  set a new stream is about to join. With a cap of one it would, and the stream would be
  unreachable; the assumption is named in the module. For the refinement, `FullMeansOldest`
  turns ages into numbers of streams: one has the age `Cap - 1` exactly when the user has
  `Cap` of them, and then it is the oldest.
* `GuestListProofs!IInv`: as long as nothing crossed a request, what it looked for is still
  so: the address it did not find is not there, the invite it found is the same, the
  event was not deleted. The refinement must also speak of requests that were crossed: an
  answer under way to a guest who is still listed will be stored, for invites go only with
  their guests (`Aimed`), so an answer is dropped exactly when its guest is.
* `AccountsProofs!IInv`: if the account or a seat differs from what a webhook said, that
  webhook or a newer one is still unanswered or in hand. A failure between the two
  statements of `upsert` leaves its webhook unanswered, which is what makes the next
  delivery repair the seats, although the account is already right by then. For the
  refinement, what a first visit was told by the provider and is about to insert has been
  told (`VisitsTold`); for a webhook `IInv` says so already. A seat that bears another
  address than its holder's account, with no webhook left to repair it, is a stray; and a
  request about a seat holds someone who has, or had, an account and a seat that was given
  out, whatever has become of them since (`CallsOK`).
* `ChecklistProofs!Ties`: the copy of a Home row that a request read before its transaction
  names an event row that is still of that event, or gone, and that no Home row of others
  is tied to, and neither is another request's copy. This is why `updateChecklist` may
  delete and write the event row of a stale copy, and what the refinement needs: a copy
  that is written back ties its person to a row nobody else is tied to. `Tidy`, while
  nothing has overlapped: rows disagree only where the request in hand is about to make them agree: between the
  event row's new text and `syncHomeChecklist`, between the two statements of
  `replaceConcealments`, and between the deletion of the Home rows and of the event row.

The proofs have one lemma per action or group of alike actions (`...Keeps`, `Solo...`),
on top of a lemma each for steps that only read, that check and go on, and that write and
return. The `...Next` lemma puts them together and the theorems follow by temporal
reasoning.

A refinement is proved as a step simulation: the initial states map to initial states, and
under the inductive invariant each action maps to an action of the abstract specification or
changes none of its variables, with one lemma per handler. The assumptions are that of
one request at a time for `QuoteBoard`, `ConfirmGate` and `Circle`, and `~Overlap` for
`Register`; the others hold with any overlap the modules have.

Model-checked only: the two liveness properties. Every other property of the passing runs
is a theorem, `DeletedTakesNoAnswer` and `ImplementsRegister` for the constants the runs use
(`~ViaParent`, `~Overlap`), and the serial ones under the assumption named above.

`PendingIsReminded` and `TabsSettle` stay with TLC, since TLAPS does not reason about
`ENABLED` and fairness. The other modules assume no fairness and promise no progress: each
handler runs a fixed number of statements, and what it starts is not resumed after a
crash.

## Findings

Places where the code departs from what the repository says. The first is a run of the
project; each of the others is reproduced by the configuration it names.

1. `ConfirmTwice`. "Reuse MUST refuse `already_done` and MUST NOT mutate a second time"
   (`docs/specs/mcp-connector.md:98`): `spend` marks the token by id alone, so two
   overlapping confirmations both run the job. A confirmation that arrives later is
   always refused (`RetryIsRefused`, proved).
2. `ThreadBookRace`. `bookQuote` is documented as "Requires an accepted quote"
   (`apps/api/src/inquiries/inquiries.service.ts:684`), but a `rejectQuote`, or the
   acceptance of another quote, that commits between its read and its transaction leaves
   a booking of a quote that is not accepted.
3. `ConfirmElsewhere`. A token must not act on another event than the one it was issued
   for (`docs/specs/mcp-connector.md:176`): a preview that takes the event from the
   session is confirmed against whatever event is current then.
4. `CircleTreeRace`. "Sub-events cannot have their own sub-events"
   (`apps/api/src/events/event-children.service.ts:165`, and
   `docs/specs/wedding-container.md:41`, FR-4 of a specification since superseded): two
   overlapping `attachChild` calls build a deeper tree or a cycle.
5. `ReminderStarves`. The reminder job "Finds all incomplete checklist items due within
   the next 24 hours that have not already been notified today"
   (`apps/api/src/reminders/reminders.service.ts:22`). It takes the first 200 by due date,
   over all hosts, and an overdue item nobody completes is eligible again every morning
   and sorts first, the items of deleted events included. Once there are 200 of them, a
   newer item is never reminded of.
6. `RsvpDeletedChild` (module `MCGuestList`, `ViaParent = TRUE`). "Soft-deleted Events MUST
   404 for site editor and guest routes" (`docs/specs/event-website.md:35`, FR-5), and of an
   included child that is deleted, "never show to guests" (`:156`, EC-2). `publishedSite`
   looks at `deletedAt` of the event whose website it is
   (`apps/api/src/event-sites/event-sites.service.ts:775`), and `rsvp` at that of none of
   the events included in it, so a sub-event deleted on its own still takes answers
   through its parent's website.
7. `ChecklistHidden` (module `MCChecklist`). "Checklist PATCH / DELETE / complete on a
   concealed row MUST fail with `404`" (`docs/specs/event-access-hardening.md:34`, FR-3), and
   of Home, "personal row updates; event row does not" (`:108`, EC-6). `updateChecklist`
   honours that while the event stays, but moving the Home row to another event, or
   deleting it, deletes the event row whether or not its owner can see it
   (`apps/api/src/users/users.service.ts:601` and `:655`).

Seen while reading and not the subject of a run:

* `docs/specs/mcp-connector.md:171` (AC-8) keeps chats apart, but `mcp.context.ts:16-17`
  derives one session from the account for every chat.
* `docs/specs/mcp-connector.md:154` and `:185` (NFR-6, AC-22) limit calls in any 60
  seconds; `mcp.rate-limit.ts:15-27` counts in fixed windows, in one process, so twice
  as many calls fit across the border of two windows.
* `docs/specs/event-website.md:35` (FR-5) asks that deleting an event delete its website's
  row; `softDelete` leaves the row, and the website's own reads look at the event's
  `deleted_at` instead.
* "Within the next 24 hours" in that comment is up to the end of tomorrow in the code
  (`apps/api/src/reminders/reminders.service.ts:30-32`), and overdue items without limit.
* Under overlap the serial properties of `EventCircle` fail in the ways its hazards
  name: a sub-event detached between `assertChildGrants` and the write keeps its grant,
  and a role and a surface changed by two updates at once can leave a viewer with the
  website. No document promises otherwise; access to the website is decided by role and
  surface together (`requireSite`), so the second has no effect.
* A sub-event that was detached but is still included in its former parent's website is
  still served there; `docs/specs/event-website.md:158` (EC-3) treats it as not included.
* Two overlapping acceptances each list the other's quote as not accepted, and leave both
  accepted; a quote posted while the inquiry is being booked sets it back to QUOTED (the
  status is read at `apps/api/src/inquiries/inquiries.service.ts:446` before the message is
  written). `OneAccepted` and `BookedDealStands` are about handlers one after another.
* A website session answers for its guests after their address has become another's, until
  it expires; that is what a signed session is for, and `RsvpIsStored` says so.
* Two requests that overlap do make two guests with one address (`NoTwinCreated` is about
  requests nothing crossed), and `unlockLink` hands out a link that has expired.
* `SeatStrays` (module `MCAccounts`) reproduces a seat with an address its holder no longer
  has: `invite` reads who has an address
  (`apps/api/src/events/event-members.service.ts:222`) and creates the seat later (`:226`),
  and `accept` likewise (`:434`, `:454`). If the account moves in between, and its seats
  with it, the new seat keeps the old address, with no webhook left to repair it.
* `DeletedHoldsAddress` (module `MCAccounts`, `Overlap = TRUE`) reproduces a deleted account
  that has its address back, so that nobody can sign up with it: `softDelete` commits
  between the read and the write of an `upsert` of the same person.
* If two changes of one person were handled at the same moment, the two upserts could
  leave seats and account apart. Out-of-order webhooks leave an older address on the
  account, or a deleted person's account alive if `user.created` comes last and nothing
  was there to delete (`late` in `Accounts`); a stale address can then keep another person
  from signing up with it (`User.email` is unique), webhook after webhook.
* A person whose new address is already invited to an event they have a seat at: the
  second statement of `upsert` violates the unique key over event and address each time,
  and the webhook is never answered. Each seat of the model is at its own event.
* Two moves of one Home row that overlap leave an event row behind (`NoRowLeftBehind` is
  about requests that do not overlap), and `updateChecklist` writes every field from what
  it read, so one of two overlapping edits is lost.
* `replaceConcealments` is two statements: between them, and after a restart there,
  nothing hides the row.

## Plan

Done: `InquiryThread` with `QuoteBoard`, `McpConfirm` with `ConfirmGate`, `EventCircle` with
`Circle`, `Reminders` with `Notices`, `LiveStreams` with `StreamPool`, `GuestList` with
`InviteBook`, `Accounts` with `Register`, and `Checklist` with `HomeTies`, each with its
runs and its proofs, the refinements included. Next, in order:

| Step | What | Why |
|---|---|---|
| 1 | `Party`: pairing and unpairing of party members | a symmetric relation over two rows |
| 2 | `SiteEditor`: the gallery limit and the sections of a website | limits checked on stale counts |
| 3 | `Transcript`: the assistant's transcript | overlapping turns overwrite each other |

Composition: `EventCircle` is the part others ask. `McpConfirm` abstracts its answer to
`access` and its deletion to a lost event, `GuestList` to the flag `deleted`, `Checklist` to
`Sees`.

## Not modelled

The reasons are in `PROJECT.json` for each component. In short: user interface, uploads,
search and ranking, the language model, OAuth and e-mail are input and output or external
services; profile, portfolio, administration, budget, schedule and contact operations are single
guarded statements whose correctness is a guard; the rest is planned above.
