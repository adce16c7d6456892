# SpeakArena: a formal model

SpeakArena sells thirty-day course batches to students, and lets teachers run
them: videos and documents, live meetings, chat, assignments. A FastAPI backend
(several worker processes, `src/backend/app`) keeps its state in PostgreSQL and
Redis, its files in Cloudflare R2, and its money at Razorpay; a Next.js client
(`src/frontend/src`) talks to it by REST and WebSocket.

This directory holds TLA+ modules of that system, TLC configurations that check
them on small instances, and proofs checked by TLAPS. `PROJECT.json` maps every
definition to the lines it stands for, and lists the runs, the known hazards and
the disagreements found between code and documentation.

## 1. The system

### 1.1 Components

| Component | State it keeps | Operations that change it | Interacts with |
|---|---|---|---|
| Payments (`modules/payment`) | `payments`, `payment_history`; Redis key per webhook event; orders, captures and refunds at Razorpay | create order, verify, five webhook handlers, refund, free enrolment, invoice | Razorpay (calls and webhooks), enrolment rows, notifications |
| Enrolment rows (`course_enrollments`, `courses.total_enrollments`) | one row per student and course: status, expiry, payment; denormalised counters | grant by payment, self-enrolment, expiry clean-up on most student reads, teacher's suspend / restore / add / remove, start-up fix | everything that checks access |
| Authentication (`modules/auth`) | users, refresh tokens (revoked, replaced by), sessions, reset tokens; Redis blacklist and "revoked before" mark | login, refresh with rotation, logout, logout everywhere, revoke one session, change and reset password, OAuth | browser token store and cookie |
| Chat sockets (`modules/chat/ws_*`, `presence.py`) | per process: sockets by room and by user, one listener task per room; Redis: pub/sub, online keys | connect, authenticate, dispatch a frame, deliver, disconnect, shutdown | Redis pub/sub, browser's reconnecting socket |
| Chat rooms (`modules/chat/service.py`) | rooms, messages, pins, reactions, mutes, locks | send, edit, delete, react, pin, mute, lock | publishes to the sockets after its commit |
| Meetings (`modules/meeting`) | meeting status, attendance rows | schedule, go live, end, cancel, join, leave, finalise attendance | notifications |
| Uploads (`modules/resource`) | videos and PDFs with upload and processing status; parts at R2 | initiate, presign, confirm / complete, abort, publish, delete | R2, browser's multipart upload, start-up fix |
| Assignments (`modules/assignment`) | assignments, submissions, grades | create, publish, submit, confirm the file, grade | R2 |
| Courses and progress (`modules/teacher`, `modules/student`) | courses, sections, progress rows | create, publish, archive, delete; progress heartbeat | R2, enrolment rows |
| Tests (`modules/test`) | tests, grades | create, edit, delete, grade | |
| Browser: sessions (`services/api/interceptors.ts`, `AuthProvider`, `auth.store.ts`, `middleware.ts`) | access token, user, localStorage, cookies, shared refresh | sign in, refresh on 401 and on load, log out, guard a page | authentication |
| Browser: sockets (`services/socket.client.ts`) | one reconnecting object per room, its timers | connect, disconnect, reconnect | chat sockets, token refresh |
| Browser: messages (student, teacher, unread tracker) | open channel, list, unread flags | open, send, delete, frames, polls | chat rooms, sockets |
| Browser: upload hook (`hooks/useMultipartUpload.ts`) | parts uploaded, paused flag, status | start, pause, resume, cancel | uploads, R2 |
| Browser: enrolment (catalogue, course page, `useRazorpay.ts`) | what is shown as enrolled, the click in progress, the script | enrol, pay, verify | payments, Razorpay's window |
| Browser: course builder (`builder.store.ts`) | one form for all visits, calls in progress | open, edit, create, publish | courses |
| Notifications, mail, analytics, dashboards, middleware, migrations, deployment | rows and files nothing else depends on | | |

Every request has one database session. `get_db_session` commits it when the
handler returns and rolls it back when the handler raises, so a handler's writes
appear together or not at all. PostgreSQL runs at READ COMMITTED, without
`SELECT ... FOR UPDATE` in the handlers: what a handler read may be out of date
when it writes. What lies outside the transaction (a Redis key, a call to
Razorpay or R2, a published message) is not undone by the rollback. These two
sentences are the source of most of what is hard here.

### 1.2 What is hard, and what makes each part correct

* **Payments.** Webhook and browser report the same payment concurrently;
  webhooks are repeated, reordered and lost; Razorpay's answer to a refund may
  not arrive; a key in Redis survives the rollback of the handler that set it.
  *Correct when* access follows money (no enrolment without a capture, no
  capture without its enrolment), the books never claim more than Razorpay did,
  an event is handled once, and money taken leads to access in the end.
* **Enrolment.** Seats are counted and then taken; counters are written back as
  absolute values. *Correct when* the active rows never exceed the limit and the
  counters agree with the rows.
* **Authentication.** Rotation with a grace period of 120 s for lost answers,
  revocation marks compared across clocks of different precision, concurrent
  refreshes of one token. *Correct when* a revoked family stays revoked, a user
  with an unexpired session is never thrown out by a lost answer, and a reset
  link works once.
* **Chat sockets.** Registry, reverse maps and listener tasks are changed by
  coroutines that interleave at every `await`. *Correct when* the maps agree, a
  room with a member has a listener, and nobody is shown offline while online.
* **Meetings.** Status is checked on a row read earlier and written
  unconditionally. *Correct when* a cancelled or completed meeting never goes
  live again and every attendance is closed once.
* **Uploads.** The row and the stored object change separately; the browser's
  paused loop may run on beside the resumed one. *Correct when* a published
  resource has its object, and an upload is completed with every part.
* **Assignments, courses, progress.** Publication and deadlines against
  concurrent edits. *Correct when* a grade never exceeds the maximum it was
  given under and a submission is unique.

* **Browser.** Requests, timers and socket events of one page outlive the view,
  channel, visit or run that started them, and their handlers write to whatever
  is on screen by then. *Correct when* what the page shows is about what it
  shows it for, nothing appears twice or vanishes, and no page waits for ever.

The hazards, each with its line and the properties that cover it, are listed
under `hazards` in `PROJECT.json`. A hazard without a property has a note that
says why: the models have the step that goes wrong, and it does go wrong, so the
property that forbids it would fail; or no part of the system that is modelled
meets it.

### 1.3 Plan, and how far it has come

| Module | Models | Described in |
|---|---|---|
| `Checkout`, over `Purchase`; `CheckoutProofs` | paid enrolment: backend, Redis, Razorpay | section 2 |
| `ChatSockets`, over `Broadcast`; `ChatSocketsProofs` | chat sockets and presence of the backend's processes | section 3 |
| `ReconnectingSocket`; `ReconnectingSocketProofs` | the browser's end of these sockets | section 5 |
| `StudentChat`, `TeacherChat`; `StudentChatProofs`, `TeacherChatProofs` | the two message pages, with the message log and read marks of the backend | sections 6, 7 |
| `MultipartUpload`; `MultipartUploadProofs` | video upload: hook, endpoints, R2, start-up fix | section 8 |
| `Sessions`; `SessionsProofs` | tokens, cookies, tabs, guards, rotation of refresh tokens | section 9 |
| `EnrolPages`, over `Purchase`; `EnrolPagesProofs` | the enrol buttons and the checkout window | section 10 |
| `CourseBuilder` | the teacher's course wizard | section 11 |

Every module `M` but `Purchase` and `Broadcast` has a module `MCM` and
configurations `MCM_<question>.cfg`. A proof module begins with the facts about
sequences and finite sets of numbers that its proofs need.

Left, in this order:

1. `Meeting`: the status machine and attendance, whose races section 12 names.
2. Logout everywhere, the blacklist and reset links of the authentication module.

## 2. Checkout

### 2.1 What is modelled

`Checkout.tla` is the paid-enrolment path: `PaymentService.create_order` and
`verify_payment`, `WebhookService.handle` with its five handlers,
`RefundService.initiate`, `EnrollmentService.grant_access`, and every other
writer of `course_enrollments`, with Razorpay as the environment.

| Variable | Stands for |
|---|---|
| `buyer`, `pay` | the `payments` row of each order: its student and course; status, whether `razorpay_payment_id` is set (`linked`), `webhook_verified`, refund status and amount |
| `logged` | `to_status` of the newest `payment_history` record |
| `enrol` | the `course_enrollments` row of each student and course; `via` is its `payment_id` |
| `seen` | Redis idempotency keys |
| `job` | the requests in progress: step, row read, event or amount |
| `captured`, `refunds`, `sent`, `acked` | Razorpay: captures, refunds, events issued, events answered with a 2xx |
| `done` | events whose handler ran to its end (history only) |
| `crashes` | requests lost so far |

A handler is two or three steps: the SELECT copies the row into `job`, a call to
Razorpay is a step, and the writes with the commit are one. One step is enough
for the latter because the first UPDATE locks the row to the end of the
transaction, and of two concurrent inserts of one enrolment the unique key
`(student, course)` fails the second, which rolls back exactly as finding the
row does. `Saved` models the ORM's flush: it writes the columns the handler
changed against what it read, and leaves the others as they are by now.

Worth knowing when reading it against the code:

* `grant_access` evaluates `EnrollmentStatus`, which `payment/service.py` does
  not import, as soon as a row is found. So the "already enrolled" and "renew"
  branches never run: `Grant` needs that no row exists, and otherwise the
  handler aborts (`CaptureAborts`, `VerifyAborts`).
* `create_order` inserts `razorpay_order_id = "pending"`, which is unique, and
  then awaits Razorpay: `InsertPending` waits while any request is `awaiting`.
* A verify request carries a signature only Razorpay can make, so its guard is
  `o \in captured`.
* The idempotency key is set before the dispatch and never released. Its 24 h
  are longer than Razorpay's retries of one event, so its expiry is not modelled.
* A commit and the answer to Razorpay are distinct: `Answer` may lose the answer.
* A mismatching amount is possible only where `Reported` contains one.
* Amounts are in indivisible units (paise, cents). Razorpay is sent
  `int(amount * 100)` of a float, which may be one less than the amount says, while
  the books keep the amount. For refunds `Paise` is that conversion: a request that
  will record `a` asks Razorpay for `a` or `a - 1` (19.99 gives 1998; an amount with
  more decimals than the column may also be rounded up there), any of the two,
  because which one it is depends on the float. For orders the conversion is the same
  at both places that use it (`service.py:451`, `790`), so it is in the constants:
  `Listed` is `payments.amount`, `Price` what Razorpay charges, `Listed` or one less.
  A request is for at most `Listed` and a refund of at most `Price`. A request that
  truncates to nothing is refused by Razorpay.
* `Saved` takes an amount that equals the one read as unchanged. The ORM compares a
  float with a `Decimal` there and may write it again; it is the amount of a refund
  in either case.
* `RefundRefused` covers both a refusal and a refund made whose answer was lost:
  the code cannot tell them apart either.
* Invoices, notifications, audit records and course data are left out: no branch
  of these handlers reads them. The seat limit that `create_order` compares is
  left out: the code compares once, when the order is made, and promises nothing
  after that.

`Purchase.tla` is what the module promises: an order is placed by one buyer, is
paid at most once, and a paid order may open the course to its buyer while no
other does. `Checkout` implements it (`Purchases`) with `captured` as `paid` and
`via` as `access`.

### 2.2 Runs

| Run | Bounds | Question |
|---|---|---|
| `checkout_capture` | one buyer, two orders, two concurrent requests, all other writers, one crash, amounts right and wrong | can a payment be lost, doubled or credited wrongly, whatever interleaves? |
| `checkout_refund` | one order, listed and charged at 2, two refunds, one failed attempt, two requests | do the refund columns follow Razorpay whichever of three writers is last? |
| `checkout_live` | one order, listed at 2 and charged 1, one failed attempt, one refund, fair | do captures reach the enrolment, refunds the books, and do retries end? |
| `checkout_answered` | one order, two requests, one event | is an event answered as processed only when it was (section 2.4)? |

The safety properties speak of one order and one buyer at a time, or of two
orders of one buyer; the hazards of the list need two requests that interleave,
one crash and two deliveries. Two requests suffice because a third could only
commit between the read and the write of one of them, which the second already
does as often as it likes. Two refunds of a price of two let a partial and a
full amount, one that loses a unit to the conversion and one that does not, and two
events of each kind, be taken in any order. `Symmetry` is
used in the safety runs, never in the liveness run.

`RefundIsBacked` says that the books name a refund Razorpay made, with what it gave
back or one unit more. The unit is the truncation of the request, and the property
would fail without it (section 2.4): a larger difference, one in the other
direction, or an amount nobody was given back is excluded.

Properties: `EnrolledIsPaid`, `BooksFollowRazorpay`, `RefundIsBacked`,
`HandledOnce`, `CaptureGrants`, `ChangesAreLogged`,
`PaidIsEnrolled`, `RefundIsRecorded`, `RetriesStop` and the refinement
`Purchases` are each stated in words above their definitions. Each has a mutant
in `PROJECT.json`: a slip in one handler (an unsigned verify, a SET without NX, a
swallowed error) that the property notices.

`ChangesAreLogged` is checked where no amount mismatches: the mismatch branch
appends no record (listed under 2.4).

### 2.3 Fairness

The event loop resumes a task that can run, and Razorpay's client library
returns or times out: weak fairness on every step of a request in progress.
Razorpay repeats an unanswered event, and the server accepts it in between other
requests: strong fairness on `Receive`, because in the model the slots of
`Worker` may be taken again and again; weak fairness on `Skip`. Nothing obliges
a student to pay, a browser to call verify, a teacher to refund, a bank to
settle, or a process to crash, so none of these is fair. `checkout_live` assumes
no crash (a crash after SET NX loses the event for good, which is the finding
`checkout_answered`) and no other writer of the enrolment (a row put there by
another writer makes the handler abort, section 2.4).

### 2.4 What the runs show about the code

* `checkout_answered`: a handler that fails leaves its idempotency key, so the
  retry that should repair the failure is answered `already_processed`.

Seen while modelling, without a run of their own:

* A `payment.failed` event of an earlier attempt, delivered late, turns a captured
  payment into a failed one (`service.py:884`), a transition `PaymentStatus` does
  not document. (`ApplyFailed` in the model.)
* A student with an expired row who pays again gets an abort instead of the renewal
  the comment at `service.py:1089` promises. (`Grant`, `CaptureAborts`.)
* `verify_payment` enrols before `webhook_verified` is set, and the webhook that
  follows finds the payment captured and never sets it. (`VerifyCommit`.)
* A refund of 19.99, partial or full, gives back 19.98 and is recorded, answered and
  audited as 19.99 (`service.py:1321`, `1333`; `update_refund` calls the column
  "Amount refunded in INR"), until an event of Razorpay corrects the row; the
  history record of the request keeps 19.99. (`Paise`, `RefundCommit`; TLC finds it
  in the run `checkout_refund` at once if `RefundIsBacked` asks for equal amounts.)
  Orders lose the paisa too: a course listed at 19.99 is charged 19.98.
* An amount mismatch changes the status and appends no history record
  (`service.py:811`, against `models/payment.py:152`).
* `create_order` does not check for another open order (its docstring,
  `service.py:389`, says it does); `order.paid` is acknowledged only
  (`service.py:939` says it is handled like `payment.captured`); invoice numbers
  are a count plus one, without a unique key.

### 2.5 Proofs

`CheckoutProofs.tla` proves, for every set of buyers, orders and requests and
every value of the bounds, from `CheckoutAssumption` alone:

* `TypeCorrect`: `Spec => []TypeOK`
* `PaidEnrolments`: `Spec => []EnrolledIsPaid`
* `FaithfulBooks`: `Spec => []BooksFollowRazorpay`
* `EventsHandledOnce`: `Spec => []HandledOnce`

* `BackedRefunds`: `Spec => []RefundIsBacked`
* `CapturesGrant`: `Spec => CaptureGrants`
* `ChangesLogged`: `Spec => ChangesAreLogged`, if `Reported \subseteq {Price}`
* `ImplementsPurchase`: `Spec => Purchases`

All follow from `Invariance`: `IndInv` is inductive. None of the
properties is inductive alone, because a handler commits what it read some steps
ago. What carries the argument is `JobOK`, which ties the copy in memory to the
table: a row read with a payment id belongs to an order whose row still has one
(`linked` is never taken back), a request that verifies or refunds holds a
captured order, and a request in `received` or `apply` holds the event of its
order. `SentOK` says the same of Razorpay's events (a captured event names a
captured order, a refund event a refunded one), `PlacedOK` that nothing happens
to an order nobody placed, `RefundedOK` that only captured orders are refunded.
`HandledOnce` keeps `JobOK` stable when an event is finished.

`BackedRefunds` needs amounts, of which `IndInv` does not speak. `RefundInv` adds
that an event about a refund holds an amount Razorpay has refunded (`Refunded`), that
a request about to record one holds such an amount or one unit more (`Backed`;
`CallPays` is the conversion), both in `RefundsHeldOK`, and that a row whose refund status was ever set keeps one, so
that the flush of a request that read it earlier cannot write an amount back
beside a status it does not belong to (`RefundRowsOK`).

The hypothesis of `ChangesLogged` is what the property needs of the code: the
branch for a captured event that reports another amount than the price sets the
status and appends no record (section 2.4). All else that changes a status does.

`ImplementsPurchase` maps each action to one of `Purchase` or to a stutter. The
invariant gives the guards of `Purchase`: an order whose access opens is paid and
belongs to the buyer, one that becomes paid was placed and captured.

The lemmas follow the code: `SavedRow` is about the flush, `JobStep` about a step
that only moves a request, `CommitStep` about any commit of a row, and there is
one lemma per group of actions (`OrderingStep`, `LookUpStep`, `WebhookStep`,
`ReceiveStep`, `SkipStep`, `VerifyingStep`, `RefundingStep`, `RazorpayStep`,
`ElsewhereStep`). `IndInv` was checked with TLC on the bounds of both safety
runs before it was proved, `RefundInv` on those of `checkout_refund`.

Only model-checked: the liveness properties, which are out of the prover's reach.

## 3. Chat sockets

### 3.1 What is modelled

`ChatSockets.tla` is `websocket_chat_endpoint` (`ws_router.py`), the
`ConnectionManager` of each process (`ws_manager.py`) and the online keys
(`presence.py`), over Redis Pub/Sub. Rooms and users are handled by twin methods
of the manager; in the model both are topics, and a socket has two.

| Variable | Stands for |
|---|---|
| `pc` | how far the endpoint of each socket is, from the accepted socket to the end of its `finally` |
| `alive` | whether sends to the peer still succeed |
| `members` | `_connections` and `_user_connections` of each process |
| `known` | the sockets in `_ws_to_room` and `_ws_to_user` |
| `tasks` | `_room_listener_tasks` and `_user_listener_tasks`: a task is named by the socket whose endpoint started it and the topic |
| `listener` | the tasks: state, messages received but not taken, the one in hand, the sockets left to send it to, those found dead |
| `online` | `chat:online:<user>` keys |
| `published`, `heard` | messages by number, per topic; what was sent to each socket |
| `faults` | failures of Redis so far |

Each process is one event loop, so what a coroutine does between two awaits is
one action, and the actions of all coroutines interleave. `Register`,
`MarkOnline`, `Confirm`, `Subscribe`, `Ping`, `Quit`, `Disconnect`, `DropKey` and
`GoOffline` are the endpoint; `Listen`, `Take`, `Send`, `Prune`, `ListenFails`,
`SubscribeFails` and `Unsubscribe` are a listener task. `Publish` is any handler
of any process, `Expire` the end of a key's life, `Leave` a peer that goes.

Worth knowing when reading it against the code:

* `disconnect` changes the maps and cancels tasks before its first await
  (`Disconnect`); a cancelled task has no further send, because it is cancelled at
  an await.
* `_deliver_local` sends to a copy of the list (`todo`) and then discards the dead
  from the list and, for rooms only, from the reverse maps (`Prune`). A socket
  pruned this way is unknown to the `disconnect` that follows, which does nothing.
* A task whose `listen()` raised is `ending` while it awaits unsubscribe, and
  `done()` only afterwards: `Subscribe` looks at `done()`.
* `subscribe` fails outside the `try` (`SubscribeFails`): the task is done at once.
* Failures of Redis are swallowed in `MarkOnline`, `Ping` and `GoOffline`, and end
  the `finally` block early in `DropKey`.
* The commands of an endpoint that only read, or only publish, are not steps.

`Broadcast.tla` is what the manager promises: a socket hears its own topics
only, in order, and no message twice. `ChatSockets` implements it (`Hears`).

Left out: a restart of a process (its state starts from nothing, and its sockets
connect anew), typing indicators, read cursors, the presence sorted set (its
readers filter by age), locks and mutes of a room, private
sends within a process, and the methods of the manager that nothing calls.

### 3.2 Run

`chat_live`: two sockets of one user in one room and one process, two messages in
the room, one failure of Redis, fair. Are messages heard in order and once, do
they arrive, is everybody in his receive loop listened for, and nobody shown
online who is gone?

Two sockets of one process let a topic lose one of its members while another
connects, is dead, or is in the middle of a delivery; the cancellation of a task
depends only on whether its list is empty, and every map and every task belongs
to one process. They belong to one user so that the topics of room and user, and
the presence key, are shared. Two messages are enough for an order, and for a
second delivery while the first is in progress. One failure suffices for a
listener that ends while another socket connects. More sockets, users and
processes are covered by the proofs (3.5). Deadlock is not checked: when all
sockets are closed the system rightly stops.

`OpenIsServed` and `OnlineHasEndpoint` speak of histories without a failure of
Redis; with one, neither is promised by the code (3.4 says how the first fails;
an error in `mark_offline` leaves the key to its 65 seconds). `MessagesArrive`
excuses a failure of Redis as well.

### 3.3 Fairness

The event loop resumes what can run, and Redis or the peer answers each call or
fails: weak fairness on the steps of an endpoint that connects or leaves and on
the steps of each task. An endpoint whose peer has gone learns of it, since
`receive` raises or times out after 70 seconds: weak fairness on `Quit` of a dead
peer only. Peers need not connect or leave, handlers need not publish, Redis need
not fail and keys need not expire.

### 3.4 Seen while modelling, without a run

* A socket that connects while the failed listener of its room still unsubscribes
  gets no listener, although the docstring of `ensure_room_subscription` says it
  ensures one: the socket is in its receive loop and hears nothing until somebody
  else connects. (`ListenFails`, then `Subscribe` before `Unsubscribe`.)
* When delivery finds the last socket of a room dead, its later `disconnect`
  cancels nothing, and the listeners of room and user run on, one Redis connection
  each. (`Prune`, then `Disconnect` of a socket not in `known`.)
* `mark_offline` does not ask whether the user has another tab or another worker's
  socket, and shows him offline until the next ping.
* What is published after the "connected" frame and before the subscription is
  lost.
* An error in the `delete` of `disconnect` skips `mark_offline` and the rest of the
  `finally` block.

### 3.5 Proofs

`ChatSocketsProofs.tla` proves, for all sets of sockets, processes, rooms and
users and every bound, from `ChatAssumption` alone:

* `TypeCorrect`: `Spec => []TypeOK`
* `AlwaysServed`: `Spec => []OpenIsServed`
* `OnlineIsReal`: `Spec => []OnlineHasEndpoint`
* `ImplementsBroadcast`: `Spec => Hears`, the refinement of `Broadcast`

The first three follow from `Invariance`, that `IndInv` is inductive. `OpenIsServed` is not
inductive alone: a `Disconnect` of another socket, or a `Prune`, could take the
topic away from it. What is missing is that a socket whose peer is there stays in
all four maps until it disconnects (`RegistryOK`), that delivery prunes only
sockets it found dead (`DeadOK`), that lists hold a process's own sockets under
their own topics (`MembersOK`), so that a list with an open socket is not empty
when another leaves, and that the manager's tasks run as long as Redis does
(`TasksOK`).

The lemmas first say what a step does to the maps (`RegisterLists`,
`DisconnectRegistry`, `DropTasks`, `PruneLists`), then that steps which touch
only some variables keep the parts that do not speak of them (`QuietStep`,
`OnlineStep`, `WorkStep`), then one per group of actions. `IndInv` was checked
with TLC on three instances before it was proved.

For the refinement, a socket may hear a message only if it is newer than all it has
heard. Why that is so is in `HearInv`, inductive together with `IndInv`:

* every task that is not done is the one its manager refers to (`RunsOnce`), so a
  topic has at most one task in a process: `ensure_room_subscription` starts one
  only where none is registered, and what takes a task out of the map ends it;
* a task holds messages only while it listens, the one in its hands is older than
  those in its inbox, these are in order and all were published; and it sends to
  sockets of its own process and topic (`InboxOK`);
* what a socket has heard is older than the task's inbox, and than the message in
  hand where it is still to be sent (`Ahead`).

`SendHears` then is a `Hear` of `Broadcast`, `PublishHears` a `Publish`, and every
other step a stutter. TLC checked `HearInv` on the bounds of the run (273,130
states) before it was proved.

Only model-checked: the liveness `MessagesArrive`.

## 4. The browser: conventions

Sections 5 to 11 model the client with the part of the backend it talks to.

* JavaScript runs one handler at a time and to its next `await`: that is an action.
  What was awaited is answered by another action, at any time, whatever else
  happened in between, and in any order with other answers; what the handler read
  before it awaited (a closure's variables) is kept with the request, what it reads
  after (a ref, the store, `get()`) is read in the later action. Most of the hazards
  of the client are a mix-up of these two.
* A request is served by the backend in one action of its own where the moment of
  the serving matters (a history is read, then arrives), else together with its
  answer.
* `Fault` is an action's choice to lose a request or its answer, to drop a
  connection, or to refuse; `MaxFault` bounds it. The client cannot tell a lost
  answer from a lost request, and neither do the models.
* Users need not do anything: no user action is fair.
* What the user could repeat for ever is bounded by constants named `Max...`, and
  named as bounds in each module. The bounded systems stop, so these runs do not
  check for deadlock.

## 5. ReconnectingSocket

`services/socket.client.ts`, with `hooks/useSocketChat.ts` and the effects of the
chat views that mount and unmount a room, and the ways `ws_router.py` ends a
connection.

| Variable | Stands for |
|---|---|
| `registry` | `chatSockets`: the object of each room |
| `obj` | the `ReconnectingWebSocket` objects: intentional flag, attempts, current `ws`, timers, calls of `connect` that await a token, refreshes after a rejection, ping interval, whether handlers are attached |
| `conn` | every WebSocket opened so far: its object, its state, whether its token was good and whether the backend serves it |
| `token`, `refreshing`, `page` | the access token, the shared refresh, FALSE once the browser left for `/login` |

`OneChain` says that an object never has two of connection, timer, waiting
`connect` or refresh at a time: four ways to go on, each started by an event that
may come from an older socket. `HeardOnce` follows a frame to the views,
`OpenIsPinged` the ping interval which every close event clears, and
`Reconnects` is the promise of the class.

Run `socket_live`: one room, two objects (a view mounted, unmounted and mounted
again), seven WebSockets, two attempts instead of ten, three faults. Two objects of
one room are what can disturb each other; three faults use up both attempts, or a
drop, a rejection and an expiry follow each other. Seven connections are enough for
both objects' attempts after each fault, so that `MaxConn` never keeps a room
unserved (the liveness property would fail).

Fairness: timers fire, the refresh is answered, handshakes and closures complete,
and the backend serves or rejects. Views need not mount.

Proofs (`ReconnectingSocketProofs`), for every set of rooms and every bound, from
`SocketBounds`: `TypeCorrect` (`TypeOK`), `OneAttempt` (`OneChain`), `HeardOnlyOnce`
(`HeardOnce`) and `OpenPinged` (`OpenIsPinged`). None is inductive: that a handler of
an old WebSocket does not start a second attempt depends on which WebSocket its
object refers to. `IndInv` says for each object (`Chain`) that it refers to its
latest WebSocket, the only one that may be up; while that is up nothing waits
(`Quiet`); what `disconnect` is closing belongs to an object that is done, with its
intentional flag set and nothing that will wake it. `RegistryOK` says that an object
with handlers is the one its room is registered with. Every step changes one object
and the WebSockets of that object, so a lemma per kind of step speaks of that object
only. Only model-checked: `Reconnects`.

Seen while modelling, without a run: `disconnect` cancels neither the timer of
`attemptReconnect` nor a `connect` that awaits a token, and `connect` resets the
intentional flag, so the object of an unmounted view reconnects, with nobody to
hear it, and stays connected (`useSocketChat.ts:10` says that the socket
disconnects on unmount). A close with 4001 by the backend that crosses the object's
own close would also start a refresh for such an object (`socket.client.ts:132`); in
the model a connection that is being closed by the page ends with the page's code. The backend closes an idle socket with 1000, after which
the client never reconnects. The notification socket is disabled in the code and
not modelled.

## 6. StudentChat

`StudentMessagesView.tsx`, the unread flags of `chat.store.ts`, the polling
`ChatUnreadTracker.tsx`, and the log and read marks behind `/chat`.

| Variable | Stands for |
|---|---|
| `log`, `readUpTo` | server: messages in the order of commits, what the read time of a channel covers |
| `active`, `room`, `asking`, `history` | open channel, loaded room, and the two requests that a switch starts |
| `list` | `messages`; an entry 0 is the temporary message of a send |
| `up`, `inbox` | the mounted socket is served; frames not handled yet |
| `send` | `handleSend`: uploading, posted, stored |
| `flags`, `grace`, `marking`, `polls` | unread flags, the 15 seconds in which a channel stays read, read requests and unread answers under way |

A message comes to the list on three ways (history, frame, answer of its own send)
in any order: `NoDuplicates` and `NothingVanishes`. The flags are set and cleared
by four writers that do not know of each other: `FlagsConverge` says that they
end, for all channels, at what the backend's read times say.

Run `student_view`: the talk of one course and the direct messages of another
(another room, and another rule for who gets a frame), two messages with one text,
two openings, one fault, one poll at a time. Two equal texts make temporary and
stored messages hard to tell apart; two openings let a channel be left and an
answer of it come late.

Fairness: requests are answered, frames handled, the poll runs every 8 seconds,
the grace ends. An answer of the poll needs strong fairness, because in the model
it is one of the finitely many values that polls may carry, and the same value may
come and go.

Left out: `/chat/unread` takes a message as read that is up to a second younger than
the read time (`chat/router.py:326`, `372`), so a message that arrives within a second
of the read mark may stay unflagged; in the model the order decides. With one poll
under way at a time, no poll overtakes another.

`NothingVanishes` speaks of the time after the history is in: before that, the
answer of the history replaces the list, with live and own messages that were shown
already.

Proofs (`StudentChatProofs`), for every set of channels and texts and every bound,
from `ChatBounds`: `TypeCorrect` (`TypeOK`), `ShownOnce` (`NoDuplicates`) and
`NothingLeaves` (`NothingVanishes`). `NoDuplicates` is not inductive: the answer of a
send gives the temporary entry an id that the list may have by then from the socket.
`IndInv` adds `TempOK`: a temporary entry belongs to the send under way and carries
its text, and where the server has stored the send, the list does not have the stored
message beside it. It holds because a frame takes the place of a temporary entry of
its text, and the stored message has the text of the send. `FromChannel`
and `WithinBound` are bookkeeping: requests come from a channel, and the bound on the
log keeps a place for the send. Only model-checked: `FlagsConverge`.

Seen while modelling, without a run: `onMessageNew` compares a message's room with
the loaded room, not with the open channel (line 614, against the comment at 583),
so a message of the former channel gets into the list until the new history comes;
the fallback of the tracker reads `sa_read_*` keys that nothing writes, and flags
every channel with a message of somebody else; messages shown live are never marked
read, so their channel is flagged again when the grace ends; photos whose upload
failed are sent as data URLs; the optimistic functions of `chat.store.ts` have no
caller; edits and deletions by REST publish no frame.

Left out: pictures, pins, edits, typing, layout.

## 7. TeacherChat

`TeacherCommunicationView.tsx`, in the same form. What differs is in the code:
answers of rooms and histories are applied to whatever channel is open (no
`isMounted`), the Announcements tab joins the announcement rooms of all courses,
posts to each of them, and tells copies by text, sender and minute, and deletion is
shown before it is done.

| Variable | Stands for |
|---|---|
| `log`, `minute` | messages with room, text, the announcement they are a copy of (`cast`), minute, deleted |
| `active`, `room`, `rooms`, `asks`, `fetches` | open channel, `room`, `announcementRooms`, requests for rooms and histories |
| `list` | entries with `face`: text, `gone` (shown as deleted), `blank` (taken back, text lost) |
| `served`, `inbox`, `send`, `deleting`, `flags` | sockets served, frames, the send and the deletions in progress, unread flags |

`OneCopy`: an announcement to all courses is one entry, whichever of its copies
come by which way, unless they fell into two minutes. `GoneIsDeleted`: no entry
stays marked deleted when the deletion failed, though list and channel may be
others by then.

Run `teacher_view`: two courses with their announcement rooms and one talk, two
messages, two openings, one send, one fault. One send to both rooms makes both
messages; with one, a student's message is beside it.

Proofs (`TeacherChatProofs`), for every set of channels, rooms and texts and every
bound, from `ViewBounds`: `TypeCorrect` (`TypeOK`), `AnnouncedOnce` (`OneCopy`) and
`MarksAreTrue` (`GoneIsDeleted`). The code knows the copies of an announcement by
text, sender and minute, the properties by the number of the send (`cast`); what the
proofs need is that the one follows from the other:

* messages of one number are in different rooms and have one text (`LogOK`), which
  the send under way keeps up: its number is new, and what it has still to post goes
  to rooms where no message of it is (`SendOK`);
* an entry has the text and the number of its message, or is the one temporary entry
  of the send (`ListOK`), so that joining by text and minute, or removing by text,
  leaves no second entry of the number;
* the messages of a history are of the channel it was asked for (`FetchesOK`).

All properties of the runs about this module are proved.

The module checks safety only: nothing in this view is promised to happen later.

Seen while modelling, without a run: `isMine` at line 542 is not defined; in
Announcements and direct messages a failed history empties the list and marks the
channel read; a late answer of one channel fills the list of another.

## 8. MultipartUpload

`hooks/useMultipartUpload.ts`, the four endpoints of `resource/service.py`, R2, and
the data fix of `lifespan.py`.

| Variable | Stands for |
|---|---|
| `status`, `paused`, `uploadId`, `parts`, `ctl` | the hook's state and refs, shared by all its runs |
| `runs` | calls of `startUpload` and `resumeUpload` that have not returned: step, parts to do, batch, parts sent |
| `cancelling` | DELETE requests under way |
| `video`, `store` | rows (status, deleted, notified); R2: open, parts, object |

A paused run is not ended, it ends itself at its next check, and by then the resumed
run has cleared the flag it checks. So two runs may send parts and complete one
upload. `WholeObject` and `NotifiedOnce` say what that may not lead to, `Settles`
that an upload left alone ends.

Run `upload_resume`: three parts, two at a time, one start, two resumes, one fault,
one start of a worker. (`Start` waits for the hook's last upload to end, which the
hook itself does not ask; with one start it makes no difference.) Three parts in batches of two give a batch that is cut in
half by a pause and one that is not; with two resumes three runs overlap.

Fairness: one of the requests of the runs, and of the deletions, is answered or
fails in the end.

Proofs (`MultipartUploadProofs`), for every number of parts, batch size, resumes,
faults and restarts, from `UploadBounds`. `TypeCorrect` (`TypeOK`) and `ToldAtMostOnce`
(`ToldOnce`: students are told of a video once at most) hold for any number of
starts. `AllPartsAssembled` (`WholeObject`) and `ToldOfStored` (`NotifiedOnce`) assume
`MaxStart = 1`, which is not for the prover's sake: with a second start they are false
(below). `IndInv` counts: initiate requests and rows together are no more than starts
(`Counted`), so there is a row for whoever is past that request (`RowMade`); R2
assembles an upload once and one run updates its row (`OneAssembly`). `WholeInv` adds
`Covered`: while the hook knows the upload, every run of it still knows of each part,
which is listed, or in the run's batch, or before it; hence a run that completes sends
the whole list, however many paused runs have appended to it. TLC checked `WholeInv` on
the bounds of the run (109,722 states) and `IndInv` with two starts (2,413,451) first.
Only model-checked: `Settles`.

Seen while modelling, without a run: with a second start, `WholeObject` fails: the
cancelled run goes on with the emptied list of parts and the new upload's id
(`useMultipartUpload.ts:130`), which is why the run has one start and the property
says so; a cancel during initiate cannot cancel what has no id yet, and the upload
goes on and is published; a completion that races the DELETE notifies the students
of a deleted video; a pause during an initiate that fails stays "paused"; the data
fix completes rows that are still uploading after five minutes; R2 may have
assembled an object whose commit failed, and the row stays pending; a failed abort
at R2 leaves its parts there. The hook's URLs lack the `/api/v1` the API is mounted
under, and no page uses it.

## 9. Sessions

`services/api/interceptors.ts`, `auth.store.ts`, `AuthProvider`, the callback page,
`middleware.ts`, the student's guard, `/api/auth/set-cookie`, and refresh, logout
and Google sign-in of `auth/service.py`.

| Variable | Stands for |
|---|---|
| `tab` | page, user and `isInitialized` of the store, access token in memory, refresh token of the callback's URL |
| `req` | one request of each kind per tab: silent refresh, shared refresh (`refreshPromise`), `/auth/me`, the callback's, a page's, logout |
| `lsUser`, `lsAt`, `flag`, `cookie` | `sa_user`, `sa_at`, `sa_auth`, `refresh_token` |
| `writes` | POSTs to `/api/auth/set-cookie` under way, which nobody awaits |
| `live`, `grace` | refresh tokens: valid; revoked less than 120 seconds ago |

Three stores (memory, localStorage, cookies) are written by five kinds of answers;
`StoresAgree` compares them in every state, also while answers are under way;
`WaitsAreServed` says that whoever waits, for the shared refresh or for `/auth/me`,
waits for a request that is under way and does not wait for it, `RequestsEnd` that
every request comes to an end, and `NotStuck` that no guard leaves a tab on a page
it does not show.

Run `sessions_tab`: one tab, one sign-in, two loads by hand, two requests, one
expiry, one fault. Two requests share a refresh, or one is sent while a silent
refresh is under way; a load in between drops the tab's requests and restores its
state from localStorage. Refresh tokens are named anew when nobody holds them, so
their number needs no bound.

Fairness: requests are served or time out, answers handled, guards run.

Two tabs are in the module and not in a run: `RequestsEnd` still holds, but
`StoresAgree` and `NotStuck` do not, because the silent refresh of one tab may
fail and clear localStorage and the flag under the other, which then shows
"Loading session..." for good. Other things seen: `cookie` may end on a revoked
refresh token, when the answers of two refreshes, or a set-cookie that nobody
awaits, come in another order than they were made; logout never revokes the refresh token, because
its cookie's path is that of the refresh endpoint; a late 401 of the silent refresh
undoes a sign-in; the reload after a failed logout signs in again; a delayed
set-cookie restores a session after logout; any network error of the shared refresh
logs the user out; the access token is in localStorage, though the file says that
it is in memory only.

Proofs (`SessionsProofs`), for every finite set of tabs and every bound, from
`SessionBounds` alone: `TypeCorrect` states `TypeOK`, whose last conjunct is that no
refresh token is both valid and revoked; `StorageAlwaysAgrees` states
`StorageAgrees`, the half of `StoresAgree` about what the tabs share;
`NobodyWaitsInVain` states `WaitsAreServed`, the part of `RequestsEnd` that is about
states. `StoresAlwaysAgree` states `StoresAgree` of a browser with at most one tab: of
two it is false, as said above. `IndInv` adds to `TypeOK`:

* what an answer will store was there when it was asked for (`RequestOK`): a refresh
  read by the backend carries a token, one that is answered carries two, `/auth/me`
  and the callback's request keep an access token, and the callback's tab holds the
  refresh token of its URL until its request is over;
* `writes` is finite (`TokensOK`), so that a new token is one that nobody holds
  (`UnusedIsNew`, `HeldFinite`: the tabs are finitely many, and so are their requests);
* `StorageAgrees`.

That `live` and `grace` stay apart needs `NewRtIsNew` and that the token revoked is
held by the request that revokes it (`HeldByRequest`), also when two refreshes read
one token and both rotate it. `StoresAgree` adds `UserAsFlag`: with one tab, every
step that writes the store's user writes the flag. `WaitsAreServed` is kept by every
step by itself, given the types. TLC checked these first: `IndInv` and
`WaitsAreServed` on two tabs with one of everything (158,145 states), `UserAsFlag`
with them on the bounds of the run (226,369 states).

Left out: the blacklist of access tokens, roles other than the student's, password
login, expiry of refresh tokens, logout everywhere, revocation of one session.

## 10. EnrolPages

`student/explore/page.tsx`, `student/courses/[courseId]/page.tsx` and
`hooks/useRazorpay.ts`. The backend is `Purchase`, by `INSTANCE`: the module uses
the abstraction that `Checkout` implements, so what the pages show is checked
against what the payment module promises and not against its handlers. With one
student, a buyer is a course. Two facts of the handlers are used beside it: verify
fails when the webhook was first, and `enroll-free` refuses who is enrolled.

| Variable | Stands for |
|---|---|
| `buyer`, `paid`, `access`, `joined` | the backend: `Purchase`, and enrolments without an order |
| `view`, `mount`, `load`, `answer`, `shown`, `busy` | the page on screen, its number, its fetch and what it brought, courses shown as enrolled, `enrollingId` or `isEnrolling` |
| `sdk` | the script element of Razorpay |
| `flow` | each click on an enrol button: its step, course, page and order |
| `opened` | courses that were open since the page was opened (history only) |

Run `enrol_pages`: a paid and a free course, two orders, three clicks, three pages,
two faults. Three pages let a flow of the first end on the third, and two orders
are what a double charge needs. `ShownIsOpen` is about flows and fetches that end
after their page has gone or the enrolment was deleted, `ChargedOnce` about two
payments of one visit.

No liveness: a flow may wait for ever, by the code (below), and by the user.

Proofs (`EnrolPagesProofs`): `TypeCorrect` states `TypeOK` and `NothingShownFalsely`
states `ShownIsOpen`, for every set of courses and orders and every bound, from
`EnrolPagesAssumption` alone. `ShownIsOpen` is not inductive: what a page shows next
is in its answer, or is the course of a flow that has succeeded and not yet told the
page. `IndInv` adds to the two that

* the answer, everything enrolled now, and the courses of the page's flows that have
  succeeded are in `opened` (`OpenedOK`);
* a flow's order is for the flow's course, a flow that joins is of a free course,
  and no flow belongs to a page not yet opened (`FlowOK`): when a page is opened,
  no older flow can write to it;
* a paid order is for a course (`PaidOK`), so that the webhook opens one.

`MoveStep` is the lemma most actions use: a step that moves one flow keeps `IndInv`
if the new step asks no more of the flow than it already has.

`ChargedKnowingly` states `ChargedOnce`, from `IndInv` and `VisitInv`, which is about
the flows of one visit of a course page: a second one begins only when the first has
failed or was cancelled (`OnePerVisit`). It is so because the button is disabled while
a flow of the page on screen is active and gone when one has succeeded (`VisitOK`: the
flow's course is `busy`, or `shown`); flows begin in turn and without an order
(`InTurn`). TLC checked `VisitInv` on the bounds of the run (2,410,869 states) first.

Seen while modelling, without a run: the promise of `openCheckout` is never settled
when the script fails or is loading already, because its executor is `async`
(`useRazorpay.ts:70`); the one `enrollingId` of the catalogue enables the button of
a course again when another is clicked; when the webhook is first, verify fails and
the page reports a failure though the student is enrolled; after a lost answer of
verify it offers to pay again; an expired token makes the catalogue show all
courses as available; the answer of `playVideo` may belong to another video.

## 11. CourseBuilder

`builder.store.ts` and the wizard over it: one store that outlives the page, four
asynchronous operations on it.

| Variable | Stands for |
|---|---|
| `row` | courses on the server |
| `visit`, `wizard`, `param` | the visit of the wizard, what is on screen, the `courseId` of the URL |
| `store` | `useBuilderStore`: course id, text, picture, staged lesson and flags |
| `call` | calls of `loadCourse`, `uploadThumbnail`, `createCourse`, `publishCourse` and how far they are |
| `mine` | courses a visit was opened for, or created (history only) |

Texts, pictures and lessons are known by the visit that entered them.

Run `builder_bleeds` expects a violation of `NothingBleeds`, what the comments of
`loadCourse` and of the wizard say: nothing of an earlier editing session gets into
this one. TLC shows: a course is opened, the teacher goes back and opens the form of
a new course, and the answer to the first `loadCourse` fills it with the old
course; what is typed and saved then changes that. The same is true of the answer
of `publishCourse`. What else one would ask of the wizard fails with it: a lesson
staged in the new course's form is attached to the old course, and a visit whose
create was answered by nobody creates a second course. So the module has no
passing run.

Seen while modelling, without a run: after a lost answer of create the course is
created twice; the POST of publication may fail with a warning, and later saves only
PATCH, so the course stays a draft; publishing from the header keeps the staged
lessons, and a second save sends them again; staged resources are never uploaded; a
picture picked during an upload is forgotten when that succeeds; `publishCourse`
takes the picture from the store by then, which may be a later visit's; a failed
PATCH of the first step is ignored.

## 12. Proved, model-checked, not modelled

Proved for all values of the constants: what sections 2.5, 3.5 and 5 to 10 list,
which is every invariant, action property and refinement of the passing runs. The
assumptions are those the modules declare of their constants; four theorems have a
hypothesis more, which the code needs (2.5, 8 and 9).

Only model-checked, on the instances above: the liveness properties under their
fairness, which are out of the prover's reach.

Not modelled:

* Meetings. Status is checked on a row read earlier and written unconditionally
  (`meeting/service.py:770`): a cancel may be overwritten by a `go_live` that was
  under way, a student may join after the end and keep an open attendance. These
  races are real; no model of them is written.
* Invoice numbers, seat limits and counters (`total_enrollments` is written back as
  an absolute value): the code takes a count, adds one, and promises nothing about
  two at a time.
* Reset links (two resets with one link both succeed when they interleave), deletion
  of a stored video (scheduled before the commit), confirmation of a single upload
  (repeated, it notifies again).
* Assignments, tests and grades: single rows edited by their owner. Reads
  (dashboards, lists, search, analytics) change nothing. Notifications and mail are
  written and never read back by a handler; the notification page shows a
  notification as read even if the request failed.
* Most of the lines of the client are layout: JSX, forms, dialogs and lists that show
  what a query returned and keep no state that two handlers share. They have no
  behaviour beyond their requests, and a model of them would be a copy of the markup.
  The models cover the handlers, effects, stores and hooks with a protocol of their
  own.
* Middleware, logging, configuration, migrations, deployment and backup have no state
  that the modelled parts read.
