------------------------------- MODULE Checkout -------------------------------
(***************************************************************************)
(* The paid-enrolment path of backend/app/modules/payment: a student       *)
(* creates an order, pays at Razorpay, and either the browser (verify) or  *)
(* Razorpay (webhook) tells the server, which records the capture and      *)
(* grants the course in the same database transaction; a teacher refunds.  *)
(*                                                                         *)
(* Handlers are asyncio tasks of several processes.  A handler's SELECT    *)
(* and its COMMIT are separate steps, so it may act on a row another       *)
(* handler has changed since.  Its writes and commit are one step: the     *)
(* first UPDATE locks the payment row until the commit, and the unique key *)
(* of course_enrollments makes the second of two concurrent inserts fail,  *)
(* which is the same rollback as finding the row.  A call to Razorpay is a *)
(* step of its own, and a crash may fall between any two steps.            *)
(***************************************************************************)
EXTENDS Integers, Sequences, FiniteSets

CONSTANTS
  Buyer,       \* (student, course) pairs: the key of course_enrollments
  Order,       \* rows of payments, each with its Razorpay order
  Worker,      \* requests the server may be serving at once
  NoBuyer, NoOrder,
  Listed,      \* payments.amount of every order, in indivisible units
  Price,       \* what Razorpay charges for it
  Reported,    \* amounts a payment.captured event may carry
  Subscribed,  \* webhook events enabled in the Razorpay dashboard
  Writers,     \* which other writers of course_enrollments are at work
  MaxFailed,   \* bound: failed attempts per order
  MaxRefund,   \* bound: refunds per order
  MaxCrash     \* bound: requests lost to a crash

EventType == {"payment.captured", "payment.failed", "order.paid",
              "refund.created", "refund.processed"}

ASSUME CheckoutAssumption ==
  /\ NoBuyer \notin Buyer /\ NoOrder \notin Order
  /\ Price \in Nat \ {0} /\ Listed \in {Price, Price + 1}
  /\ Reported \subseteq Nat
  /\ Subscribed \subseteq EventType
  /\ Writers \subseteq {"time", "student", "teacher"}
  /\ MaxFailed \in Nat /\ MaxRefund \in Nat /\ MaxCrash \in Nat

VARIABLES
  buyer,     \* payments.student_id and course_id of each order
  pay,       \* the rest of the payments row, as committed
  logged,    \* to_status of the newest payment_history record of each order
  enrol,     \* course_enrollments, by its unique key
  seen,      \* Redis: webhook events whose idempotency key is set
  job,       \* what each request in progress holds in memory
  done,      \* webhook events whose handler ran to its end (history variable)
  captured,  \* Razorpay: orders whose payment was captured
  refunds,   \* Razorpay: amounts refunded, by order
  sent,      \* Razorpay: webhook events issued
  acked,     \* Razorpay: webhook events answered with a 2xx
  crashes

db == <<buyer, pay, logged, enrol>>
gateway == <<captured, refunds, sent>>
vars == <<db, seen, job, done, gateway, acked, crashes>>

-------------------------------------------------------------------------------
(* Rows, events and requests.                                              *)

PaymentStatus == {"created", "captured", "failed", "refunded"}
RefundStatus == {"none", "pending", "processed"}

Row == [status : PaymentStatus \cup {"absent"}, linked : BOOLEAN,
        verified : BOOLEAN, rstatus : RefundStatus, ramount : Nat]

Absent == [status |-> "absent", linked |-> FALSE, verified |-> FALSE,
           rstatus |-> "none", ramount |-> 0]

Enrolment == [status : {"none", "active", "suspended"}, expired : BOOLEAN,
              via : Order \cup {NoOrder}]

NotEnrolled == [status |-> "none", expired |-> FALSE, via |-> NoOrder]

Event == [type : EventType, order : Order, seq : Nat, amount : Nat]

NoEvent == [type |-> "none", order |-> NoOrder, seq |-> 0, amount |-> 0]

Ev(type, o, n, a) == [type |-> type, order |-> o, seq |-> n, amount |-> a]

PC == {"idle", "ordering", "awaiting", "received", "apply", "verify",
       "refund", "refunded"}

Job == [pc : PC, buyer : Buyer \cup {NoBuyer}, order : Order \cup {NoOrder},
        event : Event \cup {NoEvent}, row : Row, amount : Nat]

Idle == [pc |-> "idle", buyer |-> NoBuyer, order |-> NoOrder,
         event |-> NoEvent, row |-> Absent, amount |-> 0]

\* EnrollmentRepository.exists: an active row that has not expired.
Enrolled(b) == enrol[b].status = "active" /\ ~enrol[b].expired

-------------------------------------------------------------------------------
(* Helpers shared by the handlers.                                         *)

\* An ORM flush writes only the columns the handler changed since its SELECT.
Dirty(now, old, new) == IF new = old THEN now ELSE new

Saved(now, old, new) ==
  [status   |-> Dirty(now.status, old.status, new.status),
   linked   |-> Dirty(now.linked, old.linked, new.linked),
   verified |-> Dirty(now.verified, old.verified, new.verified),
   rstatus  |-> Dirty(now.rstatus, old.rstatus, new.rstatus),
   ramount  |-> Dirty(now.ramount, old.ramount, new.ramount)]

\* The handler of request w commits the row new of its order, and a history
\* record that ends in status h.
Commit(w, new, h) ==
  LET o == job[w].order
  IN  /\ pay' = [pay EXCEPT ![o] = Saved(@, job[w].row, new)]
      /\ logged' = [logged EXCEPT ![o] = h]

\* grant_access inserts an enrolment row.  Where a row is found, it reads
\* EnrollmentStatus, a name payment/service.py does not import: the exception
\* aborts the handler.
CanGrant(b) == enrol[b].status = "none"

\* Mistaken forms of Grant: one skips a student who has a row, one takes the
\* row over.
Grant_Skips(o) ==
  enrol' = IF CanGrant(buyer[o])
             THEN [enrol EXCEPT ![buyer[o]] =
                     [status |-> "active", expired |-> FALSE, via |-> o]]
             ELSE enrol

Grant_TakesOver(o) ==
  enrol' = [enrol EXCEPT ![buyer[o]] =
              [status |-> "active", expired |-> FALSE, via |-> o]]

Grant(o) ==
  /\ CanGrant(buyer[o])
  /\ enrol' = [enrol EXCEPT ![buyer[o]] =
                 [status |-> "active", expired |-> FALSE, via |-> o]]

Finish(w) == job' = [job EXCEPT ![w] = Idle]

\* The webhook answers 200; the answer may be lost on its way to Razorpay.
Answer(w) ==
  /\ Finish(w)
  /\ done' = done \cup {job[w].event}
  /\ \/ acked' = acked \cup {job[w].event}
     \/ UNCHANGED acked

\* int(amount * 100), for an amount the column holds as a: a float may be a
\* little less than its decimals say, and then loses a paisa (19.99 is sent as
\* 1998); and the column may have rounded the amount up.
Paise(a) == {a - 1, a}

\* What Razorpay has given back on an order.
Total(s) ==
  LET sum[n \in 0 .. Len(s)] == IF n = 0 THEN 0 ELSE sum[n - 1] + s[n]
  IN  sum[Len(s)]

\* Razorpay issues an event to the endpoint if the endpoint subscribes to it.
Issue(events) == sent' = sent \cup {e \in events : e.type \in Subscribed}

-------------------------------------------------------------------------------
Init ==
  /\ buyer = [o \in Order |-> NoBuyer]
  /\ pay = [o \in Order |-> Absent]
  /\ logged = [o \in Order |-> "absent"]
  /\ enrol = [b \in Buyer |-> NotEnrolled]
  /\ seen = {} /\ done = {} /\ acked = {} /\ sent = {} /\ captured = {}
  /\ refunds = [o \in Order |-> <<>>]
  /\ job = [w \in Worker |-> Idle]
  /\ crashes = 0

-------------------------------------------------------------------------------
(* create_order.                                                           *)

\* The guards: not enrolled already.  (The course is published and priced;
\* its seat limit is the concern of module Enrollment.)
BeginOrder(w, b) ==
  /\ job[w].pc = "idle" /\ ~Enrolled(b)
  /\ job' = [job EXCEPT ![w] = [Idle EXCEPT !.pc = "ordering", !.buyer = b]]
  /\ UNCHANGED <<db, seen, done, gateway, acked, crashes>>

\* The row is inserted with the order id "pending", which is unique: while a
\* request awaits Razorpay, every other one blocks here.
InsertPending(w) ==
  /\ job[w].pc = "ordering"
  /\ \A v \in Worker : job[v].pc # "awaiting"
  /\ job' = [job EXCEPT ![w].pc = "awaiting"]
  /\ UNCHANGED <<db, seen, done, gateway, acked, crashes>>

\* Razorpay created the order: its id is stored and the row committed.
OrderCreated(w, o) ==
  /\ job[w].pc = "awaiting" /\ buyer[o] = NoBuyer
  /\ buyer' = [buyer EXCEPT ![o] = job[w].buyer]
  /\ pay' = [pay EXCEPT ![o] = [Absent EXCEPT !.status = "created"]]
  /\ logged' = [logged EXCEPT ![o] = "created"]
  /\ Finish(w)
  /\ UNCHANGED <<enrol, seen, done, gateway, acked, crashes>>

\* Razorpay refused or timed out: AppError, rollback.
OrderRefused(w) ==
  /\ job[w].pc = "awaiting"
  /\ Finish(w)
  /\ UNCHANGED <<db, seen, done, gateway, acked, crashes>>

-------------------------------------------------------------------------------
(* Razorpay and the student's card.                                        *)

\* An attempt to pay the order fails; the student may try again.
AttemptFails(o, n) ==
  /\ buyer[o] # NoBuyer /\ o \notin captured
  /\ Ev("payment.failed", o, n, 0) \notin sent
  /\ n = 1 \/ Ev("payment.failed", o, n - 1, 0) \in sent
  /\ Issue({Ev("payment.failed", o, n, 0)})
  /\ UNCHANGED <<db, seen, job, done, captured, refunds, acked, crashes>>

\* An attempt succeeds.  An order is paid once.
Capture(o, a) ==
  /\ buyer[o] # NoBuyer /\ o \notin captured
  /\ captured' = captured \cup {o}
  /\ Issue({Ev("payment.captured", o, 0, a), Ev("order.paid", o, 0, a)})
  /\ UNCHANGED <<db, seen, job, done, refunds, acked, crashes>>

\* The bank has paid a refund out.
RefundSettles(o, n) ==
  LET e == Ev("refund.processed", o, n, refunds[o][n])
  IN  /\ n \in DOMAIN refunds[o] /\ e \notin sent
      /\ Issue({e})
      /\ UNCHANGED <<db, seen, job, done, captured, refunds, acked, crashes>>

-------------------------------------------------------------------------------
(* WebhookService.handle and its five handlers.                            *)

\* Mistaken forms of Receive: SET without NX, and no SET at all.
Receive_Overwrites(w, e) ==
  /\ job[w].pc = "idle" /\ e \in sent \ acked
  /\ seen' = seen \cup {e}
  /\ job' = [job EXCEPT ![w] =
               [Idle EXCEPT !.pc = "received", !.order = e.order, !.event = e]]
  /\ UNCHANGED <<db, done, gateway, acked, crashes>>

Receive_Forgets(w, e) ==
  /\ job[w].pc = "idle" /\ e \in sent \ done
  /\ job' = [job EXCEPT ![w] =
               [Idle EXCEPT !.pc = "received", !.order = e.order, !.event = e]]
  /\ UNCHANGED <<db, seen, done, gateway, acked, crashes>>

\* SET NX: the key is set before the event is handled, and is never released.
Receive(w, e) ==
  /\ job[w].pc = "idle" /\ e \in sent /\ e \notin seen
  /\ seen' = seen \cup {e}
  /\ job' = [job EXCEPT ![w] =
               [Idle EXCEPT !.pc = "received", !.order = e.order, !.event = e]]
  /\ UNCHANGED <<db, done, gateway, acked, crashes>>

\* Mistaken form of Skip: a replay is answered only once the event was handled.
Skip_OnlyHandled(e) ==
  /\ e \in done \ acked
  /\ acked' = acked \cup {e}
  /\ UNCHANGED <<db, seen, job, done, gateway, crashes>>

\* The key is found: "already_processed", answered with 200.
Skip(e) ==
  /\ e \in seen \ acked
  /\ acked' = acked \cup {e}
  /\ UNCHANGED <<db, seen, job, done, gateway, crashes>>

\* Mistaken form of Settled: a capture after a failed attempt is disregarded.
Settled_AfterFailure(e) ==
  CASE e.type = "payment.captured" -> pay[e.order].status # "created"
    [] e.type = "payment.failed"   -> pay[e.order].status \in {"absent", "failed"}
    [] e.type = "order.paid"       -> TRUE
    [] OTHER                       -> ~pay[e.order].linked

\* The early returns with 200: no such payment, nothing to do.
Settled(e) ==
  CASE e.type = "payment.captured" -> pay[e.order].status \in {"absent", "captured"}
    [] e.type = "payment.failed"   -> pay[e.order].status \in {"absent", "failed"}
    [] e.type = "order.paid"       -> TRUE
    [] OTHER                       -> ~pay[e.order].linked

LookUp(w) ==
  /\ job[w].pc = "received"
  /\ \/ /\ Settled(job[w].event)
        /\ Answer(w)
     \/ /\ ~Settled(job[w].event)
        /\ job' = [job EXCEPT ![w].pc = "apply", ![w].row = pay[job[w].order]]
        /\ UNCHANGED <<done, acked>>
  /\ UNCHANGED <<db, seen, gateway, crashes>>

Applying(w, type) == job[w].pc = "apply" /\ job[w].event.type = type

\* _handle_payment_captured: the capture, its history and the enrolment are
\* one transaction.
ApplyCaptured(w) ==
  /\ Applying(w, "payment.captured") /\ job[w].event.amount = Price
  /\ Grant(job[w].order)
  /\ Commit(w, [job[w].row EXCEPT !.status = "captured", !.linked = TRUE,
                                  !.verified = TRUE], "captured")
  /\ Answer(w)
  /\ UNCHANGED <<buyer, seen, gateway, crashes>>

\* The amount differs: the payment fails, and nothing is written to the history.
ApplyMismatch(w) ==
  /\ Applying(w, "payment.captured") /\ job[w].event.amount # Price
  /\ Commit(w, [job[w].row EXCEPT !.status = "failed"], logged[job[w].order])
  /\ Answer(w)
  /\ UNCHANGED <<buyer, enrol, seen, gateway, crashes>>

\* grant_access raised: 500, rollback.  Razorpay will retry, to find the key.
CaptureAborts(w) ==
  /\ Applying(w, "payment.captured") /\ job[w].event.amount = Price
  /\ ~CanGrant(buyer[job[w].order])
  /\ Finish(w)
  /\ UNCHANGED <<db, seen, done, gateway, acked, crashes>>

\* _handle_payment_failed: whatever the status was, unless failed already.
\* Mistaken form of ApplyFailed: no history record.
ApplyFailed_Unlogged(w) ==
  /\ Applying(w, "payment.failed")
  /\ Commit(w, [job[w].row EXCEPT !.status = "failed"], logged[job[w].order])
  /\ Answer(w)
  /\ UNCHANGED <<buyer, enrol, seen, gateway, crashes>>

ApplyFailed(w) ==
  /\ Applying(w, "payment.failed")
  /\ Commit(w, [job[w].row EXCEPT !.status = "failed"], "failed")
  /\ Answer(w)
  /\ UNCHANGED <<buyer, enrol, seen, gateway, crashes>>

\* Mistaken form of ApplyRefundCreated: the event is only acknowledged.
ApplyRefundCreated_AckOnly(w) ==
  /\ Applying(w, "refund.created")
  /\ Answer(w)
  /\ UNCHANGED <<db, seen, gateway, crashes>>

ApplyRefundCreated(w) ==
  /\ Applying(w, "refund.created")
  /\ Commit(w, [job[w].row EXCEPT !.rstatus = "pending",
                                  !.ramount = job[w].event.amount],
            job[w].row.status)
  /\ Answer(w)
  /\ UNCHANGED <<buyer, enrol, seen, gateway, crashes>>

ApplyRefundProcessed(w) ==
  /\ Applying(w, "refund.processed")
  /\ Commit(w, [job[w].row EXCEPT !.rstatus = "processed",
                                  !.ramount = job[w].event.amount,
                                  !.status = "refunded"], "refunded")
  /\ Answer(w)
  /\ UNCHANGED <<buyer, enrol, seen, gateway, crashes>>

-------------------------------------------------------------------------------
(* verify_payment: the browser of the paying student reports the payment.  *)

\* Mistaken form of VerifyLookUp: the signature is not checked.
VerifyLookUp_Unsigned(w, o) ==
  /\ job[w].pc = "idle" /\ pay[o].status # "absent"
  /\ job' = [job EXCEPT ![w] =
               [Idle EXCEPT !.pc = "verify", !.order = o, !.row = pay[o]]]
  /\ UNCHANGED <<db, seen, done, gateway, acked, crashes>>

\* The signature is valid only if Razorpay captured the order.
VerifyLookUp(w, o) ==
  /\ job[w].pc = "idle" /\ o \in captured /\ pay[o].status # "absent"
  /\ job' = [job EXCEPT ![w] =
               [Idle EXCEPT !.pc = "verify", !.order = o, !.row = pay[o]]]
  /\ UNCHANGED <<db, seen, done, gateway, acked, crashes>>

\* Mistaken form of VerifyCommit: it forgets razorpay_payment_id.
VerifyCommit_Unlinked(w) ==
  /\ job[w].pc = "verify"
  /\ Grant(job[w].order)
  /\ Commit(w, [job[w].row EXCEPT !.status = "captured"], "captured")
  /\ Finish(w)
  /\ UNCHANGED <<buyer, seen, done, gateway, acked, crashes>>

VerifyCommit(w) ==
  /\ job[w].pc = "verify"
  /\ Grant(job[w].order)
  /\ Commit(w, [job[w].row EXCEPT !.status = "captured", !.linked = TRUE],
            "captured")
  /\ Finish(w)
  /\ UNCHANGED <<buyer, seen, done, gateway, acked, crashes>>

VerifyAborts(w) ==
  /\ job[w].pc = "verify" /\ ~CanGrant(buyer[job[w].order])
  /\ Finish(w)
  /\ UNCHANGED <<db, seen, done, gateway, acked, crashes>>

-------------------------------------------------------------------------------
(* RefundService.initiate, by the teacher who owns the course.  A request  *)
(* keeps the amount as the column will hold it; Razorpay is sent paise.    *)

RefundLookUp(w, o, a) ==
  /\ job[w].pc = "idle" /\ pay[o].status = "captured" /\ a \in 1 .. Listed
  /\ job' = [job EXCEPT ![w] = [Idle EXCEPT !.pc = "refund", !.order = o,
                                            !.row = pay[o], !.amount = a]]
  /\ UNCHANGED <<db, seen, done, gateway, acked, crashes>>

\* Razorpay refunds something, and at most what was paid.
RefundCall(w) ==
  LET o == job[w].order
      n == Len(refunds[o]) + 1
  IN  /\ job[w].pc = "refund" /\ n <= MaxRefund
      /\ \E p \in Paise(job[w].amount) \cap 1 .. Price :
           /\ Total(refunds[o]) + p <= Price
           /\ refunds' = [refunds EXCEPT ![o] = Append(@, p)]
           /\ Issue({Ev("refund.created", o, n, p)})
      /\ job' = [job EXCEPT ![w].pc = "refunded"]
      /\ UNCHANGED <<db, seen, done, captured, acked, crashes>>

\* Mistaken form of RefundRefused: Razorpay's error is swallowed, and the
\* refund is recorded all the same.
RefundRefused_Recorded(w) ==
  /\ job[w].pc = "refund"
  /\ Commit(w, [job[w].row EXCEPT !.rstatus = "pending",
                                  !.ramount = job[w].amount], job[w].row.status)
  /\ Finish(w)
  /\ UNCHANGED <<buyer, enrol, seen, done, gateway, acked, crashes>>

\* RefundError: Razorpay refused, or refunded and the answer did not arrive.
RefundRefused(w) ==
  /\ job[w].pc \in {"refund", "refunded"}
  /\ Finish(w)
  /\ UNCHANGED <<db, seen, done, gateway, acked, crashes>>

RefundCommit(w) ==
  /\ job[w].pc = "refunded"
  /\ Commit(w, [job[w].row EXCEPT !.rstatus = "pending",
                                  !.ramount = job[w].amount], job[w].row.status)
  /\ Finish(w)
  /\ UNCHANGED <<buyer, enrol, seen, done, gateway, acked, crashes>>

-------------------------------------------------------------------------------
(* The other writers of course_enrollments, and crashes.                   *)

Elsewhere == UNCHANGED <<buyer, pay, logged, seen, job, done, gateway, acked,
                         crashes>>

\* Thirty days go by.
Expire(b) ==
  /\ "time" \in Writers /\ enrol[b].status # "none" /\ ~enrol[b].expired
  /\ enrol' = [enrol EXCEPT ![b].expired = TRUE]
  /\ Elsewhere

\* auto_unenroll_expired_enrollments, run by most reads of the student API.
AutoUnenroll(b) ==
  /\ enrol[b].expired
  /\ enrol' = [enrol EXCEPT ![b] = NotEnrolled]
  /\ Elsewhere

\* POST /student/courses/{id}/enroll: a new row, or the old one made active.
StudentEnroll(b) ==
  /\ "student" \in Writers /\ ~Enrolled(b)
  /\ enrol' = [enrol EXCEPT ![b].status = "active", ![b].expired = FALSE]
  /\ Elsewhere

\* The teacher suspends, restores, adds or removes the student.
Suspend(b) ==
  /\ "teacher" \in Writers /\ enrol[b].status = "active"
  /\ enrol' = [enrol EXCEPT ![b].status = "suspended"]
  /\ Elsewhere

Unsuspend(b) ==
  /\ "teacher" \in Writers /\ enrol[b].status = "suspended"
  /\ enrol' = [enrol EXCEPT ![b].status = "active"]
  /\ Elsewhere

TeacherEnroll(b) ==
  /\ "teacher" \in Writers /\ enrol[b].status = "none"
  /\ enrol' = [enrol EXCEPT ![b].status = "active"]
  /\ Elsewhere

Unenroll(b) ==
  /\ "teacher" \in Writers /\ enrol[b].status # "none"
  /\ enrol' = [enrol EXCEPT ![b] = NotEnrolled]
  /\ Elsewhere

\* A request is lost: its transaction rolls back, its Redis key stays.
Crash(w) ==
  /\ job[w].pc # "idle" /\ crashes < MaxCrash
  /\ crashes' = crashes + 1
  /\ Finish(w)
  /\ UNCHANGED <<db, seen, done, gateway, acked>>

-------------------------------------------------------------------------------
Ordering(w) ==
  \/ \E b \in Buyer : BeginOrder(w, b)
  \/ InsertPending(w)
  \/ \E o \in Order : OrderCreated(w, o)
  \/ OrderRefused(w)

Webhook(w) ==
  \/ LookUp(w)
  \/ ApplyCaptured(w) \/ ApplyMismatch(w) \/ CaptureAborts(w)
  \/ ApplyFailed(w) \/ ApplyRefundCreated(w) \/ ApplyRefundProcessed(w)

Verifying(w) ==
  \/ \E o \in Order : VerifyLookUp(w, o)
  \/ VerifyCommit(w) \/ VerifyAborts(w)

Refunding(w) ==
  \/ \E o \in Order, a \in 1 .. Listed : RefundLookUp(w, o, a)
  \/ RefundCall(w) \/ RefundRefused(w) \/ RefundCommit(w)

Razorpay ==
  \E o \in Order :
    \/ \E n \in 1 .. MaxFailed : AttemptFails(o, n)
    \/ \E a \in Reported : Capture(o, a)
    \/ \E n \in 1 .. MaxRefund : RefundSettles(o, n)

EnrolmentElsewhere ==
  \E b \in Buyer :
    \/ Expire(b) \/ AutoUnenroll(b) \/ StudentEnroll(b)
    \/ Suspend(b) \/ Unsuspend(b) \/ TeacherEnroll(b) \/ Unenroll(b)

Next ==
  \/ \E w \in Worker :
       \/ Ordering(w) \/ Webhook(w) \/ Verifying(w) \/ Refunding(w) \/ Crash(w)
       \/ \E e \in sent : Receive(w, e)
  \/ \E e \in sent : Skip(e)
  \/ Razorpay
  \/ EnrolmentElsewhere

Spec == Init /\ [][Next]_vars

(***************************************************************************)
(* Fairness.  A task the event loop holds is resumed, and a call to        *)
(* Razorpay returns or times out.  Razorpay repeats an event until it is   *)
(* answered, and a server that serves other requests in between accepts it *)
(* (strong fairness: in the model the Worker slots may be busy again and   *)
(* again; events being finitely many, one condition serves them all).      *)
(* Students, teachers, banks and crashes owe nothing.                      *)
(***************************************************************************)
Fairness ==
  /\ \A w \in Worker :
       /\ WF_vars(InsertPending(w))
       /\ WF_vars(OrderRefused(w) \/ \E o \in Order : OrderCreated(w, o))
       /\ WF_vars(Webhook(w))
       /\ WF_vars(VerifyCommit(w) \/ VerifyAborts(w))
       /\ WF_vars(RefundCall(w) \/ RefundRefused(w) \/ RefundCommit(w))
  /\ SF_vars(\E w \in Worker : \E e \in sent : Receive(w, e))
  /\ WF_vars(\E e \in sent : Skip(e))

FairSpec == Spec /\ Fairness

-------------------------------------------------------------------------------
(* Properties.                                                             *)

\* Every variable has its type.
TypeOK ==
  /\ buyer \in [Order -> Buyer \cup {NoBuyer}]
  /\ pay \in [Order -> Row]
  /\ logged \in [Order -> PaymentStatus \cup {"absent"}]
  /\ enrol \in [Buyer -> Enrolment]
  /\ sent \subseteq Event /\ seen \subseteq sent
  /\ done \subseteq seen /\ acked \subseteq seen
  /\ captured \subseteq Order
  /\ refunds \in [Order -> Seq(1 .. Price)]
  /\ job \in [Worker -> Job]
  /\ crashes \in 0 .. MaxCrash

\* An enrolment that names a payment names one that Razorpay captured, made by
\* that student for that course, and whose row says so (grant_access, called
\* from the webhook and from verify, whatever the two interleave with).
EnrolledIsPaid ==
  \A b \in Buyer :
    enrol[b].via # NoOrder =>
      /\ enrol[b].status # "none"
      /\ enrol[b].via \in captured
      /\ buyer[enrol[b].via] = b
      /\ pay[enrol[b].via].linked

\* A row that knows a Razorpay payment belongs to a captured order, and a row
\* that says captured or refunded knows it: no stale write of a handler leaves
\* the books ahead of Razorpay.
BooksFollowRazorpay ==
  \A o \in Order :
    /\ pay[o].linked => o \in captured
    /\ pay[o].status \in {"captured", "refunded"} => pay[o].linked
    /\ pay[o].status = "refunded" => refunds[o] # <<>>

\* A refund on the books is one Razorpay made, whichever of the teacher's request
\* and the two refund events wrote last.  The amount on the books is what that
\* refund gave back, or the paisa more that the request's int() cut off: never
\* less, and never further off.
RefundIsBacked ==
  \A o \in Order :
    pay[o].rstatus # "none" =>
      \E n \in DOMAIN refunds[o] : pay[o].ramount \in {refunds[o][n], refunds[o][n] + 1}

\* An event is handled at most once: never by two requests at a time, and never
\* again after it was handled (SET NX before the dispatch).
HandledOnce ==
  \A w \in Worker : job[w].event # NoEvent =>
    /\ job[w].event \in seen \ done
    /\ \A v \in Worker : job[v].event = job[w].event => v = w

\* A status becomes captured only together with the enrolment it pays for.
CaptureGrants ==
  [][\A o \in Order :
       pay[o].status # "captured" /\ pay'[o].status = "captured" =>
         enrol'[buyer[o]] = [status |-> "active", expired |-> FALSE, via |-> o]]_vars

\* A payment's newest history record tells of every change of its status, the
\* one of a mismatched amount excepted (no run with this property reports one).
ChangesAreLogged ==
  [][\A o \in Order :
       pay'[o].status # pay[o].status => logged'[o] = pay'[o].status]_vars

\* A payment that Razorpay captured gives the student a row in the course, even
\* if the browser never calls verify.
PaidIsEnrolled ==
  \A o \in Order :
    o \in captured ~> \E b \in Buyer : buyer[o] = b /\ enrol[b].status # "none"

\* A refund Razorpay made reaches the books, although the teacher's request may
\* fail after Razorpay made it: the webhook records it too.
RefundIsRecorded ==
  \A o \in Order : refunds[o] # <<>> ~> pay[o].rstatus # "none"

\* Every event Razorpay issues is answered in the end: its retries stop.
EventsSettle == \A e \in sent : e \in acked
RetriesStop == <>[]EventsSettle

\* Abstractly: an order is placed, paid, and opens the course to its buyer.
Abstract == INSTANCE Purchase WITH paid <- captured,
                                   access <- [b \in Buyer |-> enrol[b].via]
Purchases == Abstract!Spec

-------------------------------------------------------------------------------
(* The inductive strengthening that CheckoutProofs proves.                 *)

\* What a request holds in memory at each of its steps, against what is
\* committed by now.
JobOK ==
  \A w \in Worker :
    LET j == job[w]
    IN  /\ j.pc \in {"ordering", "awaiting"} => j.buyer \in Buyer
        /\ j.pc \in {"received", "apply"} <=> j.event # NoEvent
        /\ j.event # NoEvent => j.order = j.event.order
        /\ j.pc \in {"verify", "refund", "refunded"} => j.order \in captured
        /\ j.pc \in {"refund", "refunded"} => j.amount \in 1 .. Listed
        /\ j.pc = "apply" /\ j.event.type \in {"refund.created", "refund.processed"}
             => j.row.linked
        /\ j.row.linked => j.order \in Order /\ pay[j.order].linked

\* Razorpay reports what happened there, and only for orders that were placed.
SentOK ==
  \A e \in sent :
    /\ buyer[e.order] # NoBuyer
    /\ e.type = "payment.captured" => e.order \in captured
    /\ e.type \in {"refund.created", "refund.processed"} => refunds[e.order] # <<>>

\* An order nobody placed has no row and no payment.
PlacedOK ==
  \A o \in Order : buyer[o] = NoBuyer => pay[o] = Absent /\ o \notin captured

\* Only a captured order is refunded.
RefundedOK == \A o \in Order : refunds[o] # <<>> => o \in captured

IndInv ==
  /\ TypeOK /\ JobOK /\ SentOK /\ PlacedOK /\ RefundedOK
  /\ BooksFollowRazorpay /\ EnrolledIsPaid /\ HandledOnce

-------------------------------------------------------------------------------
(* What the documentation says and the code does not do.                   *)

\* WebhookService.handle answers "already_processed" only for events that were
\* processed, or still are.
AnsweredIsProcessed ==
  \A e \in acked : e \in done \/ \E w \in Worker : job[w].event = e
===============================================================================
