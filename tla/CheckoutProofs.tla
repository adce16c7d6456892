---------------------------- MODULE CheckoutProofs ----------------------------
(***************************************************************************)
(* Proofs about Checkout for every set of buyers, orders and requests and  *)
(* every value of the bounds.  IndInv is inductive; the safety invariants  *)
(* the runs check on small instances follow from it.                       *)
(***************************************************************************)
EXTENDS Checkout, TLAPS

(***************************************************************************)
(* Lemmas about the helpers.                                               *)
(***************************************************************************)

\* A flush yields a row; it keeps razorpay_payment_id once it is set, and each
\* column it writes is the handler's value or the committed one.
LEMMA SavedRow ==
  ASSUME NEW now \in Row, NEW old \in Row, NEW new \in Row
  PROVE  /\ Saved(now, old, new) \in Row
         /\ Saved(now, old, new).status \in {now.status, new.status}
         /\ new.status # old.status => Saved(now, old, new).status = new.status
         /\ (old.linked => now.linked) /\ (old.linked => new.linked)
              => /\ now.linked => Saved(now, old, new).linked
                 /\ new.linked => Saved(now, old, new).linked
                 /\ Saved(now, old, new).linked => now.linked \/ new.linked
  BY DEF Saved, Dirty, Row

\* The idle request is one.
LEMMA IdleJob == Idle \in Job /\ Idle.event = NoEvent /\ Idle.pc = "idle" /\ ~Idle.row.linked
  BY DEF Idle, Job, PC, Absent, Row, NoEvent, RefundStatus

LEMMA NoEventIsNoEvent == NoEvent \notin Event
  BY DEF NoEvent, Event, EventType

\* A list of refunds grows by one.
LEMMA AppendGrows ==
  ASSUME NEW S, NEW s \in Seq(S), NEW a \in S
  PROVE  Append(s, a) \in Seq(S) /\ Append(s, a) # <<>> /\ Len(s) + 1 \in Nat
  OBVIOUS

LEMMA InitIndInv == Init => IndInv
  <1> SUFFICES ASSUME Init PROVE IndInv
    OBVIOUS
  <1> USE CheckoutAssumption
  <1>1. TypeOK
    BY IdleJob DEF Init, TypeOK, Absent, Row, PaymentStatus, RefundStatus,
                   NotEnrolled, Enrolment
  <1>2. JobOK /\ HandledOnce
    BY IdleJob DEF Init, JobOK, HandledOnce, Idle
  <1>3. SentOK /\ PlacedOK /\ RefundedOK
    BY DEF Init, SentOK, PlacedOK, RefundedOK
  <1>4. BooksFollowRazorpay /\ EnrolledIsPaid
    BY DEF Init, BooksFollowRazorpay, EnrolledIsPaid, Absent, NotEnrolled
  <1> QED
    BY <1>1, <1>2, <1>3, <1>4 DEF IndInv

(***************************************************************************)
(* A step that only moves one request to its next state.                   *)
(***************************************************************************)

LEMMA JobStep ==
  ASSUME IndInv, NEW w \in Worker, NEW j \in Job,
         job' = [job EXCEPT ![w] = j],
         UNCHANGED <<db, seen, done, gateway, acked>>,
         crashes' \in 0 .. MaxCrash,
         j.event = NoEvent \/ j.event = job[w].event,
         j.pc \in {"ordering", "awaiting"} => j.buyer \in Buyer,
         j.pc \in {"received", "apply"} <=> j.event # NoEvent,
         j.event # NoEvent => j.order = j.event.order,
         j.pc \in {"verify", "refund", "refunded"} => j.order \in captured,
         j.pc \in {"refund", "refunded"} => j.amount \in 1 .. Listed,
         j.pc = "apply" /\ j.event.type \in {"refund.created", "refund.processed"}
           => j.row.linked,
         j.row.linked => j.order \in Order /\ pay[j.order].linked
  PROVE  IndInv'
  <1> USE CheckoutAssumption DEF IndInv, db, gateway
  <1>1. TypeOK'
    BY DEF TypeOK
  <1>2. JobOK'
    BY DEF JobOK, TypeOK
  <1>3. HandledOnce'
    BY DEF HandledOnce, TypeOK
  <1>4. SentOK' /\ PlacedOK' /\ RefundedOK' /\ BooksFollowRazorpay' /\ EnrolledIsPaid'
    BY DEF SentOK, PlacedOK, RefundedOK, BooksFollowRazorpay, EnrolledIsPaid
  <1> QED
    BY <1>1, <1>2, <1>3, <1>4

\* A request that gives up: a refusal of Razorpay, an exception, a crash.
LEMMA AbandonStep ==
  ASSUME IndInv, NEW w \in Worker, Finish(w),
         UNCHANGED <<db, seen, done, gateway, acked>>, crashes' \in 0 .. MaxCrash
  PROVE  IndInv'
  BY JobStep, IdleJob DEF Finish

LEMMA OrderingStep ==
  ASSUME IndInv, NEW w \in Worker, Ordering(w)
  PROVE  IndInv'
  <1> USE CheckoutAssumption
  <1>1. CASE \E b \in Buyer : BeginOrder(w, b)
    <2>1. PICK b \in Buyer : BeginOrder(w, b)
      BY <1>1
    <2> DEFINE j == [Idle EXCEPT !.pc = "ordering", !.buyer = b]
    <2>2. j \in Job /\ j.pc = "ordering" /\ j.buyer = b /\ j.event = NoEvent /\ ~j.row.linked
      BY IdleJob DEF Idle, Job, PC, Absent
    <2>3. crashes' \in 0 .. MaxCrash
      BY <2>1 DEF BeginOrder, IndInv, TypeOK
    <2> HIDE DEF j
    <2>4. job' = [job EXCEPT ![w] = j]
      BY <2>1 DEF BeginOrder, j
    <2> QED
      BY <2>1, <2>2, <2>3, <2>4, JobStep DEF BeginOrder
  <1>2. CASE InsertPending(w)
    <2> DEFINE j == [job[w] EXCEPT !.pc = "awaiting"]
    <2>1. /\ j \in Job /\ j.pc = "awaiting" /\ j.buyer \in Buyer
          /\ j.event = NoEvent
          /\ j.row.linked => j.order \in Order /\ pay[j.order].linked
          /\ crashes' \in 0 .. MaxCrash
      BY <1>2 DEF InsertPending, IndInv, TypeOK, JobOK, Job, PC
    <2>2. job' = [job EXCEPT ![w] = j]
      BY <1>2 DEF InsertPending, IndInv, TypeOK
    <2> HIDE DEF j
    <2> QED
      BY <1>2, <2>1, <2>2, JobStep DEF InsertPending
  <1>3. CASE \E o \in Order : OrderCreated(w, o)
    <2>1. PICK o \in Order : OrderCreated(w, o)
      BY <1>3
    <2> USE <2>1, IdleJob DEF OrderCreated, Finish, gateway, IndInv
    <2>2. job[w].buyer \in Buyer /\ pay[o] = Absent /\ o \notin captured
      BY DEF JobOK, PlacedOK
    <2>3. [Absent EXCEPT !.status = "created"] \in Row
      BY DEF Absent, Row, PaymentStatus, RefundStatus
    <2>4. TypeOK'
      BY <2>2, <2>3 DEF TypeOK, PaymentStatus
    <2>5. JobOK'
      BY <2>2, <2>3 DEF JobOK, TypeOK, Absent
    <2>6. SentOK' /\ PlacedOK' /\ RefundedOK' /\ HandledOnce'
      BY <2>2 DEF SentOK, PlacedOK, RefundedOK, HandledOnce, TypeOK
    <2>7. BooksFollowRazorpay' /\ EnrolledIsPaid'
      BY <2>2 DEF BooksFollowRazorpay, EnrolledIsPaid, TypeOK, Absent, Enrolment
    <2> QED
      BY <2>4, <2>5, <2>6, <2>7
  <1>4. CASE OrderRefused(w)
    BY <1>4, AbandonStep DEF OrderRefused, IndInv, TypeOK
  <1> QED
    BY <1>1, <1>2, <1>3, <1>4 DEF Ordering

(***************************************************************************)
(* A step that commits a payment row, and may insert the enrolment row.    *)
(***************************************************************************)

LEMMA CommitStep ==
  ASSUME IndInv, NEW w \in Worker, NEW o \in Order, o = job[w].order,
         NEW new \in Row, NEW h \in PaymentStatus \cup {"absent"},
         Commit(w, new, h), Finish(w),
         UNCHANGED <<buyer, seen, gateway, crashes>>,
         UNCHANGED enrol \/ (Grant(o) /\ new.linked),
         UNCHANGED <<done, acked>> \/ (Answer(w) /\ job[w].event # NoEvent),
         buyer[o] # NoBuyer,
         job[w].row.linked => new.linked,
         new.linked => o \in captured,
         new.status # job[w].row.status /\ new.status \in {"captured", "refunded"}
           => new.linked,
         new.status # job[w].row.status /\ new.status = "refunded"
           => refunds[o] # <<>>
  PROVE  IndInv'
  <1> DEFINE saved == Saved(pay[o], job[w].row, new)
  <1> USE CheckoutAssumption
  <1>1. pay[o] \in Row /\ job[w].row \in Row /\ buyer[o] \in Buyer
    BY DEF IndInv, TypeOK, Job
  <1>2. pay' = [pay EXCEPT ![o] = saved] /\ logged' = [logged EXCEPT ![o] = h]
    BY DEF Commit
  <1>3. job[w].row.linked => pay[o].linked
    BY DEF IndInv, JobOK
  <1>4. /\ saved \in Row
        /\ saved.status \in {pay[o].status, new.status}
        /\ new.status # job[w].row.status => saved.status = new.status
        /\ new.status = job[w].row.status => saved.status = pay[o].status
        /\ pay[o].linked \/ new.linked => saved.linked
        /\ saved.linked => pay[o].linked \/ new.linked
    BY <1>1, <1>3, SavedRow DEF Saved, Dirty
  <1>5. saved.linked => o \in captured
    BY <1>4 DEF IndInv, BooksFollowRazorpay
  <1>6. saved.status \in {"captured", "refunded"} => saved.linked
    BY <1>4 DEF IndInv, BooksFollowRazorpay
  <1>7. saved.status = "refunded" => refunds[o] # <<>>
    BY <1>4 DEF IndInv, BooksFollowRazorpay
  <1> HIDE DEF saved
  <1>8. job' = [job EXCEPT ![w] = Idle]
    BY DEF Finish
  <1>9. /\ done \subseteq done' /\ done' \subseteq done \cup ({job[w].event} \ {NoEvent})
        /\ acked' \subseteq acked \cup ({job[w].event} \ {NoEvent})
    BY DEF Answer
  <1>10. job[w].event # NoEvent => job[w].event \in seen
    BY DEF IndInv, HandledOnce
  <1>11. \/ UNCHANGED enrol
         \/ /\ enrol' = [enrol EXCEPT ![buyer[o]] =
                           [status |-> "active", expired |-> FALSE, via |-> o]]
            /\ new.linked
    BY DEF Grant
  <1> USE DEF IndInv, gateway
  <1>12. TypeOK'
    <2> DEFINE row == [status |-> "active", expired |-> FALSE, via |-> o]
    <2>1. row \in Enrolment
      BY DEF Enrolment
    <2> HIDE DEF row
    <2>2. enrol' = enrol \/ enrol' = [enrol EXCEPT ![buyer[o]] = row]
      BY <1>11 DEF row
    <2>3. enrol' \in [Buyer -> Enrolment]
      BY <1>1, <2>1, <2>2 DEF TypeOK
    <2>4. pay' \in [Order -> Row] /\ logged' \in [Order -> PaymentStatus \cup {"absent"}]
      BY <1>2, <1>4 DEF TypeOK
    <2>5. job' \in [Worker -> Job]
      BY <1>8, IdleJob DEF TypeOK
    <2>6. done' \subseteq seen' /\ acked' \subseteq seen'
      BY <1>9, <1>10 DEF TypeOK
    <2> QED
      BY <2>3, <2>4, <2>5, <2>6 DEF TypeOK
  <1>13. JobOK'
    BY <1>2, <1>4, <1>8, IdleJob DEF JobOK, TypeOK
  <1>14. HandledOnce'
    BY <1>8, <1>9, IdleJob DEF HandledOnce, TypeOK
  <1>15. SentOK' /\ PlacedOK' /\ RefundedOK'
    BY <1>2 DEF SentOK, PlacedOK, RefundedOK, TypeOK
  <1>16. BooksFollowRazorpay'
    BY <1>2, <1>5, <1>6, <1>7 DEF BooksFollowRazorpay, TypeOK
  <1>17. EnrolledIsPaid'
    <2> SUFFICES ASSUME NEW b \in Buyer, enrol'[b].via # NoOrder
                 PROVE  /\ enrol'[b].status # "none"
                        /\ enrol'[b].via \in captured
                        /\ buyer[enrol'[b].via] = b
                        /\ pay'[enrol'[b].via].linked
      BY DEF EnrolledIsPaid
    <2>1. CASE enrol'[b] = enrol[b]
      BY <1>2, <1>4, <2>1 DEF EnrolledIsPaid, TypeOK
    <2>2. CASE enrol'[b] # enrol[b]
      <3>1. /\ b = buyer[o] /\ new.linked
            /\ enrol'[b] = [status |-> "active", expired |-> FALSE, via |-> o]
        BY <1>11, <2>2 DEF TypeOK
      <3> QED
        BY <1>2, <1>4, <3>1 DEF TypeOK
    <2> QED
      BY <2>1, <2>2
  <1> QED
    BY <1>12, <1>13, <1>14, <1>15, <1>16, <1>17

\* The event a webhook request holds, and what it says of its order.
LEMMA HeldEvent ==
  ASSUME IndInv, NEW w \in Worker, job[w].pc \in {"received", "apply"}
  PROVE  LET e == job[w].event
             o == job[w].order
         IN  /\ e \in Event /\ e # NoEvent /\ e \in seen
             /\ o = e.order /\ o \in Order /\ buyer[o] # NoBuyer
             /\ e.type = "payment.captured" => o \in captured
             /\ e.type \in {"refund.created", "refund.processed"} => refunds[o] # <<>>
  <1>1. job[w].event # NoEvent /\ job[w].order = job[w].event.order
    BY DEF IndInv, JobOK
  <1>2. job[w].event \in seen /\ job[w].event \in sent /\ job[w].event \in Event
    BY <1>1 DEF IndInv, HandledOnce, TypeOK
  <1> QED
    BY <1>1, <1>2 DEF IndInv, SentOK, Event

LEMMA LookUpStep ==
  ASSUME IndInv, NEW w \in Worker, LookUp(w)
  PROVE  IndInv'
  <1> DEFINE o == job[w].order
             j == [job[w] EXCEPT !.pc = "apply", !.row = pay[job[w].order]]
  <1>1. /\ job[w].pc = "received" /\ o \in Order /\ job[w].event # NoEvent
        /\ job[w].event \in seen /\ job[w].event \in Event /\ o = job[w].event.order
        /\ crashes \in 0 .. MaxCrash
    BY HeldEvent DEF LookUp, IndInv, TypeOK
  <1>2. CASE Settled(job[w].event) /\ Answer(w)
    <2> USE <1>1, <1>2, IdleJob DEF LookUp, Answer, Finish, IndInv, db, gateway
    <2>1. TypeOK'
      BY DEF TypeOK
    <2>2. JobOK'
      BY DEF JobOK, TypeOK
    <2>3. HandledOnce'
      BY DEF HandledOnce, TypeOK
    <2>4. SentOK' /\ PlacedOK' /\ RefundedOK' /\ BooksFollowRazorpay' /\ EnrolledIsPaid'
      BY DEF SentOK, PlacedOK, RefundedOK, BooksFollowRazorpay, EnrolledIsPaid
    <2> QED
      BY <2>1, <2>2, <2>3, <2>4
  <1>3. CASE /\ ~Settled(job[w].event)
             /\ job' = [job EXCEPT ![w].pc = "apply", ![w].row = pay[job[w].order]]
             /\ UNCHANGED <<done, acked>>
    <2>1. job' = [job EXCEPT ![w] = j] /\ UNCHANGED <<db, seen, done, gateway, acked, crashes>>
      BY <1>3 DEF LookUp, IndInv, TypeOK
    <2>2. job[w].event.type \in {"refund.created", "refund.processed"} => pay[o].linked
      BY <1>1, <1>3 DEF Settled
    <2>3. /\ j \in Job /\ j.pc = "apply" /\ j.event = job[w].event /\ j.order = o
          /\ j.row = pay[o]
      BY <1>1 DEF IndInv, TypeOK, Job, PC
    <2> HIDE DEF j
    <2> QED
      BY <1>1, <2>1, <2>2, <2>3, JobStep
  <1> QED
    BY <1>2, <1>3 DEF LookUp

LEMMA WebhookStep ==
  ASSUME IndInv, NEW w \in Worker, Webhook(w)
  PROVE  IndInv'
  <1> DEFINE o == job[w].order
             e == job[w].event
             old == job[w].row
  <1> USE CheckoutAssumption
  <1>1. CASE LookUp(w)
    BY <1>1, LookUpStep
  <1>2. CASE CaptureAborts(w)
    BY <1>2, AbandonStep DEF CaptureAborts, IndInv, TypeOK
  <1>3. SUFFICES ASSUME job[w].pc = "apply",
                        \/ ApplyCaptured(w) \/ ApplyMismatch(w) \/ ApplyFailed(w)
                        \/ ApplyRefundCreated(w) \/ ApplyRefundProcessed(w)
                 PROVE  IndInv'
    BY <1>1, <1>2 DEF Webhook, Applying, ApplyCaptured, ApplyMismatch, ApplyFailed,
                      ApplyRefundCreated, ApplyRefundProcessed
  <1>4. /\ e # NoEvent /\ e \in Event /\ o \in Order /\ buyer[o] # NoBuyer
        /\ e.type = "payment.captured" => o \in captured
        /\ e.type \in {"refund.created", "refund.processed"} => refunds[o] # <<>>
    BY <1>3, HeldEvent
  <1>5. old \in Row /\ (old.linked => o \in captured) /\ e.amount \in Nat
        /\ old.status \in PaymentStatus \cup {"absent"}
        /\ logged[o] \in PaymentStatus \cup {"absent"}
    BY <1>4 DEF IndInv, TypeOK, Job, JobOK, BooksFollowRazorpay, Row, Event
  <1>6. CASE ApplyCaptured(w)
    <2> DEFINE new == [old EXCEPT !.status = "captured", !.linked = TRUE, !.verified = TRUE]
    <2>1. new \in Row /\ new.status = "captured" /\ new.linked
      BY <1>5 DEF Row, PaymentStatus
    <2>2. /\ Commit(w, new, "captured") /\ Grant(o) /\ Answer(w) /\ Finish(w)
          /\ UNCHANGED <<buyer, seen, gateway, crashes>> /\ o \in captured
      BY <1>4, <1>6 DEF ApplyCaptured, Applying, Answer
    <2> HIDE DEF new
    <2> QED
      BY <1>4, <1>5, <2>1, <2>2, CommitStep DEF PaymentStatus
  <1>7. CASE ApplyMismatch(w) \/ ApplyFailed(w)
    <2> DEFINE new == [old EXCEPT !.status = "failed"]
    <2>1. new \in Row /\ new.status = "failed" /\ new.linked = old.linked
      BY <1>5 DEF Row, PaymentStatus
    <2>2. PICK h \in PaymentStatus \cup {"absent"} : Commit(w, new, h)
      BY <1>5, <1>7 DEF ApplyMismatch, ApplyFailed, PaymentStatus
    <2>3. /\ Answer(w) /\ Finish(w)
          /\ UNCHANGED <<buyer, enrol, seen, gateway, crashes>>
      BY <1>7 DEF ApplyMismatch, ApplyFailed, Answer
    <2> HIDE DEF new
    <2> QED
      BY <1>4, <1>5, <2>1, <2>2, <2>3, CommitStep
  <1>8. CASE ApplyRefundCreated(w)
    <2> DEFINE new == [old EXCEPT !.rstatus = "pending", !.ramount = e.amount]
    <2>1. new \in Row /\ new.status = old.status /\ new.linked = old.linked
      BY <1>5 DEF Row, RefundStatus
    <2>2. /\ Commit(w, new, old.status) /\ Answer(w) /\ Finish(w)
          /\ UNCHANGED <<buyer, enrol, seen, gateway, crashes>>
      BY <1>8 DEF ApplyRefundCreated, Answer
    <2> HIDE DEF new
    <2> QED
      BY <1>4, <1>5, <2>1, <2>2, CommitStep
  <1>9. CASE ApplyRefundProcessed(w)
    <2> DEFINE new == [old EXCEPT !.rstatus = "processed", !.ramount = e.amount,
                                  !.status = "refunded"]
    <2>1. new \in Row /\ new.status = "refunded" /\ new.linked = old.linked
      BY <1>5 DEF Row, RefundStatus, PaymentStatus
    <2>2. /\ Commit(w, new, "refunded") /\ Answer(w) /\ Finish(w)
          /\ UNCHANGED <<buyer, enrol, seen, gateway, crashes>>
      BY <1>9 DEF ApplyRefundProcessed, Answer
    <2>3. e.type = "refund.processed" /\ old.linked
      BY <1>3, <1>9 DEF ApplyRefundProcessed, Applying, IndInv, JobOK
    <2> HIDE DEF new
    <2> QED
      BY <1>4, <1>5, <2>1, <2>2, <2>3, CommitStep DEF PaymentStatus
  <1> QED
    BY <1>3, <1>6, <1>7, <1>8, <1>9

LEMMA ReceiveStep ==
  ASSUME IndInv, NEW w \in Worker, NEW e \in sent, Receive(w, e)
  PROVE  IndInv'
  <1> DEFINE j == [Idle EXCEPT !.pc = "received", !.order = e.order, !.event = e]
  <1>1. e \in Event /\ e # NoEvent /\ e.order \in Order
    BY NoEventIsNoEvent DEF IndInv, TypeOK, Event
  <1>2. /\ j \in Job /\ j.pc = "received" /\ j.event = e /\ j.order = e.order
        /\ ~j.row.linked
    BY <1>1, IdleJob DEF Idle, Job, PC, Absent
  <1> HIDE DEF j
  <1>3. job' = [job EXCEPT ![w] = j]
    BY DEF Receive, j
  <1> USE <1>1, <1>2, <1>3 DEF Receive, IndInv, db, gateway
  <1>4. TypeOK'
    BY DEF TypeOK
  <1>5. JobOK'
    BY DEF JobOK, TypeOK
  <1>6. HandledOnce'
    BY DEF HandledOnce, TypeOK
  <1>7. SentOK' /\ PlacedOK' /\ RefundedOK' /\ BooksFollowRazorpay' /\ EnrolledIsPaid'
    BY DEF SentOK, PlacedOK, RefundedOK, BooksFollowRazorpay, EnrolledIsPaid
  <1> QED
    BY <1>4, <1>5, <1>6, <1>7

LEMMA SkipStep ==
  ASSUME IndInv, NEW e \in sent, Skip(e)
  PROVE  IndInv'
  BY DEF Skip, IndInv, TypeOK, JobOK, HandledOnce, SentOK, PlacedOK, RefundedOK,
         BooksFollowRazorpay, EnrolledIsPaid, db, gateway

LEMMA VerifyingStep ==
  ASSUME IndInv, NEW w \in Worker, Verifying(w)
  PROVE  IndInv'
  <1>1. CASE \E o \in Order : VerifyLookUp(w, o)
    <2>1. PICK o \in Order : VerifyLookUp(w, o)
      BY <1>1
    <2> DEFINE j == [Idle EXCEPT !.pc = "verify", !.order = o, !.row = pay[o]]
    <2>2. /\ j \in Job /\ j.pc = "verify" /\ j.order = o /\ j.row = pay[o]
          /\ j.event = NoEvent /\ o \in captured /\ crashes' \in 0 .. MaxCrash
      BY <2>1, IdleJob DEF VerifyLookUp, Idle, Job, PC, IndInv, TypeOK
    <2> HIDE DEF j
    <2>3. job' = [job EXCEPT ![w] = j]
      BY <2>1 DEF VerifyLookUp, j
    <2> QED
      BY <2>1, <2>2, <2>3, JobStep DEF VerifyLookUp
  <1>2. CASE VerifyCommit(w)
    <2> DEFINE o == job[w].order
               new == [job[w].row EXCEPT !.status = "captured", !.linked = TRUE]
    <2>1. o \in Order /\ o \in captured /\ buyer[o] # NoBuyer /\ job[w].row \in Row
      BY <1>2 DEF VerifyCommit, IndInv, JobOK, TypeOK, Job, PlacedOK
    <2>2. new \in Row /\ new.status = "captured" /\ new.linked
      BY <2>1 DEF Row, PaymentStatus
    <2>3. /\ Commit(w, new, "captured") /\ Grant(o) /\ Finish(w)
          /\ UNCHANGED <<buyer, seen, done, gateway, acked, crashes>>
      BY <1>2 DEF VerifyCommit
    <2> HIDE DEF new
    <2> QED
      BY <2>1, <2>2, <2>3, CommitStep DEF PaymentStatus
  <1>3. CASE VerifyAborts(w)
    BY <1>3, AbandonStep DEF VerifyAborts, IndInv, TypeOK
  <1> QED
    BY <1>1, <1>2, <1>3 DEF Verifying

\* A refund Razorpay makes is of some paise, no more than were paid, and of the
\* amount its request holds or one paisa less.
LEMMA CallPays ==
  ASSUME IndInv, NEW w \in Worker, RefundCall(w)
  PROVE  \E p \in 1 .. Price :
           /\ job[w].amount \in {p, p + 1}
           /\ refunds' = [refunds EXCEPT ![job[w].order] = Append(@, p)]
           /\ Issue({Ev("refund.created", job[w].order, Len(refunds[job[w].order]) + 1, p)})
  <1>1. job[w].amount \in 1 .. Listed /\ Listed \in Nat /\ Price \in Nat
    BY CheckoutAssumption DEF RefundCall, IndInv, JobOK
  <1>2. PICK p \in Paise(job[w].amount) \cap 1 .. Price :
          /\ refunds' = [refunds EXCEPT ![job[w].order] = Append(@, p)]
          /\ Issue({Ev("refund.created", job[w].order, Len(refunds[job[w].order]) + 1, p)})
    BY DEF RefundCall
  <1>3. job[w].amount \in {p, p + 1}
    BY <1>1, <1>2 DEF Paise
  <1> QED
    BY <1>2, <1>3

LEMMA RefundingStep ==
  ASSUME IndInv, NEW w \in Worker, Refunding(w)
  PROVE  IndInv'
  <1> USE CheckoutAssumption
  <1>1. CASE \E o \in Order, a \in 1 .. Listed : RefundLookUp(w, o, a)
    <2>1. PICK o \in Order, a \in 1 .. Listed : RefundLookUp(w, o, a)
      BY <1>1
    <2> DEFINE j == [Idle EXCEPT !.pc = "refund", !.order = o,
                                 !.row = pay[o], !.amount = a]
    <2>2. /\ j \in Job /\ j.pc = "refund" /\ j.order = o /\ j.row = pay[o]
          /\ j.event = NoEvent /\ j.amount = a
      <3>1. a \in Nat /\ pay[o] \in Row
        BY DEF IndInv, TypeOK
      <3> QED
        BY <3>1, IdleJob DEF Idle, Job, PC
    <2>3. o \in captured /\ crashes' \in 0 .. MaxCrash
      BY <2>1 DEF RefundLookUp, IndInv, BooksFollowRazorpay, TypeOK
    <2> HIDE DEF j
    <2>4. job' = [job EXCEPT ![w] = j]
      BY <2>1 DEF RefundLookUp, j
    <2> QED
      BY <2>1, <2>2, <2>3, <2>4, JobStep DEF RefundLookUp
  <1>2. CASE RefundCall(w)
    <2> DEFINE o == job[w].order
               n == Len(refunds[o]) + 1
    <2>0. PICK p \in 1 .. Price :
            /\ refunds' = [refunds EXCEPT ![o] = Append(@, p)]
            /\ Issue({Ev("refund.created", o, n, p)})
      BY <1>2, CallPays
    <2> DEFINE e == Ev("refund.created", o, n, p)
    <2>1. /\ job[w].pc = "refund" /\ o \in captured /\ o \in Order
          /\ job[w].event = NoEvent
      BY <1>2 DEF RefundCall, IndInv, JobOK, TypeOK
    <2>2. /\ refunds[o] \in Seq(1 .. Price) /\ Append(refunds[o], p) \in Seq(1 .. Price)
          /\ Append(refunds[o], p) # <<>> /\ n \in Nat
      <3>1. refunds[o] \in Seq(1 .. Price)
        BY <2>1 DEF IndInv, TypeOK
      <3> QED
        BY <2>1, <3>1, AppendGrows
    <2>3. e \in Event /\ e.order = o /\ e.type = "refund.created"
      BY <2>1, <2>2 DEF Ev, Event, EventType
    <2>4. /\ refunds' = [refunds EXCEPT ![o] = Append(@, p)]
          /\ sent \subseteq sent' /\ sent' \subseteq sent \cup {e}
          /\ job' = [job EXCEPT ![w].pc = "refunded"]
          /\ UNCHANGED <<db, seen, done, captured, acked, crashes>>
      BY <1>2, <2>0 DEF RefundCall, Issue
    <2>5. buyer[o] # NoBuyer
      BY <2>1 DEF IndInv, PlacedOK
    <2> HIDE DEF e, n
    <2> USE <2>1, <2>2, <2>3, <2>4 DEF IndInv, db
    <2>6. TypeOK'
      <3> DEFINE j == [job[w] EXCEPT !.pc = "refunded"]
      <3>1. job[w] \in Job /\ job' = [job EXCEPT ![w] = j]
        BY DEF TypeOK
      <3>2. j \in Job
        BY <3>1 DEF Job, PC
      <3> HIDE DEF j
      <3> QED
        BY <3>1, <3>2 DEF TypeOK
    <2>7. JobOK'
      BY DEF JobOK, TypeOK
    <2>8. HandledOnce'
      BY DEF HandledOnce, TypeOK
    <2>9. SentOK'
      BY <2>5 DEF SentOK, TypeOK, Event
    <2>10. PlacedOK' /\ RefundedOK' /\ EnrolledIsPaid'
      BY DEF PlacedOK, RefundedOK, EnrolledIsPaid, TypeOK
    <2>11. BooksFollowRazorpay'
      BY DEF BooksFollowRazorpay, TypeOK
    <2> QED
      BY <2>6, <2>7, <2>8, <2>9, <2>10, <2>11
  <1>3. CASE RefundRefused(w)
    BY <1>3, AbandonStep DEF RefundRefused, IndInv, TypeOK
  <1>4. CASE RefundCommit(w)
    <2> DEFINE o == job[w].order
               old == job[w].row
               new == [old EXCEPT !.rstatus = "pending", !.ramount = job[w].amount]
    <2>1. /\ o \in Order /\ o \in captured /\ buyer[o] # NoBuyer /\ old \in Row
          /\ job[w].amount \in Nat
      BY <1>4 DEF RefundCommit, IndInv, JobOK, TypeOK, Job, PlacedOK
    <2>2. new \in Row /\ new.status = old.status /\ new.linked = old.linked
          /\ old.status \in PaymentStatus \cup {"absent"}
      BY <2>1 DEF Row, RefundStatus
    <2>3. /\ Commit(w, new, old.status) /\ Finish(w)
          /\ UNCHANGED <<buyer, enrol, seen, done, gateway, acked, crashes>>
      BY <1>4 DEF RefundCommit
    <2> HIDE DEF new
    <2> QED
      BY <2>1, <2>2, <2>3, CommitStep
  <1> QED
    BY <1>1, <1>2, <1>3, <1>4 DEF Refunding

\* Razorpay's own steps only add to what it captured and reported.
LEMMA RazorpayStep ==
  ASSUME IndInv, Razorpay
  PROVE  IndInv'
  <1> USE CheckoutAssumption
  <1>1. PICK o \in Order :
          \/ \E n \in 1 .. MaxFailed : AttemptFails(o, n)
          \/ \E a \in Reported : Capture(o, a)
          \/ \E n \in 1 .. MaxRefund : RefundSettles(o, n)
    BY DEF Razorpay
  <1>2. /\ buyer[o] # NoBuyer
        /\ UNCHANGED <<db, seen, job, done, refunds, acked, crashes>>
        /\ captured' \in {captured, captured \cup {o}}
        /\ sent \subseteq sent'
        /\ \A e \in sent' : e \in sent \/ (e \in Event /\ e.order = o)
        /\ \A e \in sent' \ sent : e.type = "payment.captured" => o \in captured'
        /\ \A e \in sent' \ sent :
             e.type \in {"refund.created", "refund.processed"} => refunds[o] # <<>>
    <2>1. CASE \E n \in 1 .. MaxFailed : AttemptFails(o, n)
      BY <2>1 DEF AttemptFails, Issue, Ev, Event, EventType
    <2>2. CASE \E a \in Reported : Capture(o, a)
      <3>1. PICK a \in Reported : Capture(o, a)
        BY <2>2
      <3> DEFINE c == Ev("payment.captured", o, 0, a)
                 p == Ev("order.paid", o, 0, a)
      <3>2. c \in Event /\ c.order = o /\ p \in Event /\ p.order = o
            /\ p.type = "order.paid"
        BY DEF Ev, Event, EventType
      <3>3. /\ buyer[o] # NoBuyer /\ captured' = captured \cup {o}
            /\ sent' = sent \cup {e \in {c, p} : e.type \in Subscribed}
            /\ UNCHANGED <<db, seen, job, done, refunds, acked, crashes>>
        BY <3>1 DEF Capture, Issue
      <3> HIDE DEF c, p
      <3>4. \A e \in sent' : e \in sent \/ e = c \/ e = p
        BY <3>3
      <3>5. c.type = "payment.captured"
        BY DEF c, Ev
      <3> QED
        BY <3>2, <3>3, <3>4, <3>5
    <2>3. CASE \E n \in 1 .. MaxRefund : RefundSettles(o, n)
      <3>1. PICK n \in 1 .. MaxRefund : RefundSettles(o, n)
        BY <2>3
      <3>2. refunds[o] \in Seq(1 .. Price) /\ n \in DOMAIN refunds[o]
        BY <3>1 DEF RefundSettles, IndInv, TypeOK
      <3>3. n \in Nat /\ refunds[o][n] \in Nat /\ refunds[o] # <<>>
        BY <3>2
      <3>4. o \in captured
        BY <3>3 DEF IndInv, RefundedOK
      <3>5. buyer[o] # NoBuyer
        BY <3>4 DEF IndInv, PlacedOK
      <3> QED
        BY <3>1, <3>3, <3>5 DEF RefundSettles, Issue, Ev, Event, EventType
    <2> QED
      BY <1>1, <2>1, <2>2, <2>3
  <1> USE <1>2 DEF IndInv, db
  <1>3. TypeOK'
    BY DEF TypeOK
  <1>4. JobOK'
    BY DEF JobOK
  <1>5. SentOK'
    BY DEF SentOK
  <1>6. PlacedOK' /\ RefundedOK'
    BY DEF PlacedOK, RefundedOK
  <1>7. HandledOnce' /\ BooksFollowRazorpay' /\ EnrolledIsPaid'
    BY DEF HandledOnce, BooksFollowRazorpay, EnrolledIsPaid
  <1> QED
    BY <1>3, <1>4, <1>5, <1>6, <1>7

\* The other writers of course_enrollments keep the payment a row names, or
\* delete the row.
LEMMA ElsewhereStep ==
  ASSUME IndInv, EnrolmentElsewhere
  PROVE  IndInv'
  <1>1. PICK b \in Buyer :
          \/ Expire(b) \/ AutoUnenroll(b) \/ StudentEnroll(b)
          \/ Suspend(b) \/ Unsuspend(b) \/ TeacherEnroll(b) \/ Unenroll(b)
    BY DEF EnrolmentElsewhere
  <1>2. enrol[b] \in Enrolment /\ NotEnrolled \in Enrolment
    BY DEF IndInv, TypeOK, Enrolment, NotEnrolled
  <1>3. PICK r \in Enrolment :
          /\ enrol' = [enrol EXCEPT ![b] = r]
          /\ r.via # NoOrder => r.via = enrol[b].via /\ r.status # "none"
    <2> DEFINE row(s, x) == [enrol[b] EXCEPT !.status = s, !.expired = x]
    <2>0. \A s \in {"none", "active", "suspended"}, x \in BOOLEAN :
            /\ row(s, x) \in Enrolment
            /\ row(s, x).via = enrol[b].via /\ row(s, x).status = s
      BY <1>2 DEF Enrolment
    <2>1. CASE Expire(b)
      <3>1. enrol' = [enrol EXCEPT ![b] = row(enrol[b].status, TRUE)]
        BY <1>2, <2>1 DEF Expire, Enrolment, IndInv, TypeOK
      <3>2. enrol[b].status \in {"active", "suspended"}
        BY <1>2, <2>1 DEF Expire, Enrolment
      <3> QED
        BY <2>0, <3>1, <3>2
    <2>2. CASE AutoUnenroll(b) \/ Unenroll(b)
      BY <1>2, <2>2 DEF AutoUnenroll, Unenroll, NotEnrolled
    <2>3. CASE StudentEnroll(b)
      <3>1. enrol' = [enrol EXCEPT ![b] = row("active", FALSE)]
        BY <1>2, <2>3 DEF StudentEnroll, Enrolment, IndInv, TypeOK
      <3> QED
        BY <2>0, <3>1
    <2>4. CASE Suspend(b) \/ Unsuspend(b) \/ TeacherEnroll(b)
      <3>1. PICK s \in {"active", "suspended"} : enrol' = [enrol EXCEPT ![b].status = s]
        BY <2>4 DEF Suspend, Unsuspend, TeacherEnroll
      <3>2. enrol' = [enrol EXCEPT ![b] = row(s, enrol[b].expired)]
        BY <1>2, <3>1 DEF Enrolment, IndInv, TypeOK
      <3>3. enrol[b].expired \in BOOLEAN
        BY <1>2 DEF Enrolment
      <3> QED
        BY <2>0, <3>2, <3>3
    <2> QED
      BY <1>1, <2>1, <2>2, <2>3, <2>4
  <1>4. UNCHANGED <<buyer, pay, logged, seen, job, done, gateway, acked, crashes>>
    BY <1>1 DEF Expire, AutoUnenroll, StudentEnroll, Suspend, Unsuspend,
                TeacherEnroll, Unenroll, Elsewhere
  <1> USE <1>3, <1>4 DEF IndInv, gateway
  <1>5. TypeOK'
    BY DEF TypeOK
  <1>6. EnrolledIsPaid'
    BY DEF EnrolledIsPaid, TypeOK
  <1>7. /\ JobOK' /\ SentOK' /\ PlacedOK' /\ RefundedOK'
        /\ BooksFollowRazorpay' /\ HandledOnce'
    BY DEF JobOK, SentOK, PlacedOK, RefundedOK, BooksFollowRazorpay, HandledOnce
  <1> QED
    BY <1>5, <1>6, <1>7

(***************************************************************************)
(* The theorems.                                                           *)
(***************************************************************************)

LEMMA NextIndInv == IndInv /\ [Next]_vars => IndInv'
  <1> SUFFICES ASSUME IndInv, [Next]_vars PROVE IndInv'
    OBVIOUS
  <1>1. CASE \E w \in Worker : Ordering(w)
    BY <1>1, OrderingStep
  <1>2. CASE \E w \in Worker : Webhook(w)
    BY <1>2, WebhookStep
  <1>3. CASE \E w \in Worker : Verifying(w)
    BY <1>3, VerifyingStep
  <1>4. CASE \E w \in Worker : Refunding(w)
    BY <1>4, RefundingStep
  <1>5. CASE \E w \in Worker : Crash(w)
    BY <1>5, AbandonStep, CheckoutAssumption DEF Crash, IndInv, TypeOK, db, gateway
  <1>6. CASE \E w \in Worker, e \in sent : Receive(w, e)
    BY <1>6, ReceiveStep
  <1>7. CASE \E e \in sent : Skip(e)
    BY <1>7, SkipStep
  <1>8. CASE Razorpay
    BY <1>8, RazorpayStep
  <1>9. CASE EnrolmentElsewhere
    BY <1>9, ElsewhereStep
  <1>10. CASE UNCHANGED vars
    BY <1>10 DEF vars, db, gateway, IndInv, TypeOK, JobOK, SentOK, PlacedOK, RefundedOK,
                 BooksFollowRazorpay, EnrolledIsPaid, HandledOnce
  <1> QED
    BY <1>1, <1>2, <1>3, <1>4, <1>5, <1>6, <1>7, <1>8, <1>9, <1>10 DEF Next

\* The strengthening holds of every reachable state.
THEOREM Invariance == Spec => []IndInv
  <1> QED
    BY InitIndInv, NextIndInv, PTL DEF Spec

\* Every variable keeps its type, whatever the instance.
THEOREM TypeCorrect == Spec => []TypeOK
  <1>1. IndInv => TypeOK
    BY DEF IndInv
  <1> QED
    BY <1>1, Invariance, PTL

\* An enrolment that names a payment names a captured one of that student and
\* course (grant_access as called by the webhook and by verify).
THEOREM PaidEnrolments == Spec => []EnrolledIsPaid
  <1>1. IndInv => EnrolledIsPaid
    BY DEF IndInv
  <1> QED
    BY <1>1, Invariance, PTL

\* The payments table is never ahead of Razorpay, in spite of stale writes.
THEOREM FaithfulBooks == Spec => []BooksFollowRazorpay
  <1>1. IndInv => BooksFollowRazorpay
    BY DEF IndInv
  <1> QED
    BY <1>1, Invariance, PTL

\* No webhook event is handled by two requests, or again after it was handled.
THEOREM EventsHandledOnce == Spec => []HandledOnce
  <1>1. IndInv => HandledOnce
    BY DEF IndInv
  <1> QED
    BY <1>1, Invariance, PTL
(***************************************************************************)
(* Refunds.  IndInv says that they are made on captured orders; this part  *)
(* follows their amounts.                                                  *)
(***************************************************************************)

\* Razorpay refunded this amount on the order, or one that a request may book
\* as this amount.
Refunded(o, a) == \E n \in DOMAIN refunds[o] : refunds[o][n] = a
Backed(o, a) == \E n \in DOMAIN refunds[o] : a \in {refunds[o][n], refunds[o][n] + 1}

\* A row without a refund has no amount, in the table and in the memory of a
\* request; a request that read a refund knows that the row still has one.
RefundRowsOK ==
  /\ \A o \in Order : pay[o].rstatus = "none" => pay[o].ramount = 0
  /\ \A w \in Worker :
       /\ job[w].row.rstatus = "none" => job[w].row.ramount = 0
       /\ job[w].row.rstatus # "none" =>
            job[w].order \in Order /\ pay[job[w].order].rstatus # "none"

\* Who is about to record a refund holds the amount of one that was made: an
\* event holds what was refunded, a request the amount it asked for.
RefundsHeldOK ==
  /\ \A w \in Worker : job[w].pc = "refunded" => Backed(job[w].order, job[w].amount)
  /\ \A e \in sent :
       e.type \in {"refund.created", "refund.processed"} => Refunded(e.order, e.amount)

RefundInv == RefundRowsOK /\ RefundsHeldOK /\ RefundIsBacked

\* What was refunded is backed.
LEMMA RefundedBacked ==
  ASSUME NEW o, NEW a, Refunded(o, a)
  PROVE  Backed(o, a)
  BY DEF Refunded, Backed

\* The members of a sequence belong to the set it is over.
LEMMA SeqElement ==
  ASSUME NEW S, NEW s \in Seq(S), NEW n \in DOMAIN s
  PROVE  s[n] \in S
  OBVIOUS

\* A step that moves one request, which took its row from the table now or
\* before.
LEMMA RefundJob ==
  ASSUME IndInv, RefundInv, NEW w \in Worker, NEW j \in Job,
         job' = [job EXCEPT ![w] = j], UNCHANGED <<pay, refunds, sent>>,
         \/ j.row = Absent
         \/ j.row = job[w].row /\ j.order = job[w].order
         \/ j.order \in Order /\ j.row = pay[j.order],
         j.pc = "refunded" => Backed(j.order, j.amount)
  PROVE  RefundInv'
  <1>1. job \in [Worker -> Job]
    BY DEF IndInv, TypeOK
  <1>2. RefundRowsOK'
    BY <1>1 DEF RefundInv, RefundRowsOK, Absent
  <1>3. RefundsHeldOK'
    BY <1>1 DEF RefundInv, RefundsHeldOK, Refunded, Backed
  <1> QED
    BY <1>2, <1>3 DEF RefundInv, RefundIsBacked

\* A request that ends without a commit.
LEMMA RefundFinish ==
  ASSUME IndInv, RefundInv, NEW w \in Worker, Finish(w), UNCHANGED <<pay, refunds, sent>>
  PROVE  RefundInv'
  BY RefundJob, IdleJob DEF Finish, Idle

\* A commit writes the refund columns of a row only together, and with the
\* amount of a refund; what it leaves alone may be newer than what it read.
LEMMA RefundCommitted ==
  ASSUME IndInv, RefundInv, NEW w \in Worker, NEW o \in Order, o = job[w].order,
         NEW new \in Row, NEW h, Commit(w, new, h), Finish(w),
         UNCHANGED <<refunds, sent>>,
         \/ new.rstatus = job[w].row.rstatus /\ new.ramount = job[w].row.ramount
         \/ new.rstatus # "none" /\ Backed(o, new.ramount)
  PROVE  RefundInv'
  <1> DEFINE old == job[w].row
             saved == Saved(pay[o], old, new)
  <1>1. /\ job \in [Worker -> Job] /\ pay \in [Order -> Row]
        /\ refunds \in [Order -> Seq(1 .. Price)] /\ pay[o] \in Row /\ old \in Row
    BY DEF IndInv, TypeOK, Job
  <1>2. pay' = [pay EXCEPT ![o] = saved] /\ job' = [job EXCEPT ![w] = Idle]
    BY DEF Commit, Finish
  <1>3. /\ saved.rstatus = Dirty(pay[o].rstatus, old.rstatus, new.rstatus)
        /\ saved.ramount = Dirty(pay[o].ramount, old.ramount, new.ramount)
    BY DEF Saved
  <1>4. /\ old.rstatus = "none" => old.ramount = 0
        /\ old.rstatus # "none" => pay[o].rstatus # "none"
        /\ pay[o].rstatus = "none" => pay[o].ramount = 0
        /\ pay[o].rstatus # "none" => Backed(o, pay[o].ramount)
    BY DEF RefundInv, RefundRowsOK, RefundIsBacked, Backed
  <1>5. Backed(o, new.ramount) => new.ramount # 0
    <2>1. refunds[o] \in Seq(1 .. Price)
      BY <1>1
    <2>2. \A n \in DOMAIN refunds[o] : refunds[o][n] \in 1 .. Price
      BY <2>1, SeqElement
    <2> QED
      BY <2>2, CheckoutAssumption DEF Backed
  <1>6. /\ saved.rstatus = "none" => saved.ramount = 0
        /\ saved.rstatus # "none" => Backed(o, saved.ramount)
        /\ pay[o].rstatus # "none" => saved.rstatus # "none"
    BY <1>3, <1>4, <1>5 DEF Dirty
  <1> HIDE DEF saved
  <1>7. RefundRowsOK'
    BY <1>1, <1>2, <1>6 DEF RefundInv, RefundRowsOK, Idle, Absent
  <1>8. RefundsHeldOK'
    BY <1>1, <1>2 DEF RefundInv, RefundsHeldOK, Refunded, Backed, Idle
  <1>9. RefundIsBacked'
    BY <1>1, <1>2, <1>6 DEF RefundInv, RefundIsBacked, Backed
  <1> QED
    BY <1>7, <1>8, <1>9 DEF RefundInv

LEMMA RefundOrdering ==
  ASSUME IndInv, RefundInv, NEW w \in Worker, Ordering(w)
  PROVE  RefundInv'
  <1>0. job \in [Worker -> Job] /\ job[w] \in Job /\ pay \in [Order -> Row]
    BY DEF IndInv, TypeOK
  <1>1. CASE \E b \in Buyer : BeginOrder(w, b)
    <2>1. PICK b \in Buyer : BeginOrder(w, b)
      BY <1>1
    <2> DEFINE j == [Idle EXCEPT !.pc = "ordering", !.buyer = b]
    <2>2. j \in Job /\ j.pc = "ordering" /\ j.row = Absent
      BY IdleJob DEF Idle, Job, PC
    <2>3. job' = [job EXCEPT ![w] = j] /\ UNCHANGED <<pay, refunds, sent>>
      BY <2>1 DEF BeginOrder, db, gateway
    <2> HIDE DEF j
    <2> QED
      BY <2>2, <2>3, RefundJob
  <1>2. CASE InsertPending(w)
    <2> DEFINE j == [job[w] EXCEPT !.pc = "awaiting"]
    <2>1. j \in Job /\ j.pc = "awaiting" /\ j.row = job[w].row /\ j.order = job[w].order
      BY <1>0 DEF Job, PC
    <2>2. job' = [job EXCEPT ![w] = j] /\ UNCHANGED <<pay, refunds, sent>>
      BY <1>0, <1>2 DEF InsertPending, db, gateway
    <2> HIDE DEF j
    <2> QED
      BY <2>1, <2>2, RefundJob
  <1>3. CASE \E o \in Order : OrderCreated(w, o)
    <2>1. PICK o \in Order : OrderCreated(w, o)
      BY <1>3
    <2> DEFINE row == [Absent EXCEPT !.status = "created"]
    <2>2. pay[o] = Absent
      BY <2>1 DEF OrderCreated, IndInv, PlacedOK
    <2>3. row.rstatus = "none" /\ row.ramount = 0
      BY DEF Absent
    <2>4. /\ pay' = [pay EXCEPT ![o] = row] /\ job' = [job EXCEPT ![w] = Idle]
          /\ UNCHANGED <<refunds, sent>>
      BY <2>1 DEF OrderCreated, Finish, gateway
    <2> HIDE DEF row
    <2>5. RefundRowsOK'
      BY <1>0, <2>2, <2>3, <2>4 DEF RefundInv, RefundRowsOK, Idle, Absent
    <2>6. RefundsHeldOK' /\ RefundIsBacked'
      BY <1>0, <2>3, <2>4 DEF RefundInv, RefundsHeldOK, RefundIsBacked, Refunded, Backed, Idle
    <2> QED
      BY <2>5, <2>6 DEF RefundInv
  <1>4. CASE OrderRefused(w)
    BY <1>4, RefundFinish DEF OrderRefused, db, gateway
  <1> QED
    BY <1>1, <1>2, <1>3, <1>4 DEF Ordering

LEMMA RefundWebhook ==
  ASSUME IndInv, RefundInv, NEW w \in Worker, Webhook(w)
  PROVE  RefundInv'
  <1> DEFINE o == job[w].order
             e == job[w].event
             old == job[w].row
  <1>0. job \in [Worker -> Job] /\ job[w] \in Job /\ pay \in [Order -> Row] /\ old \in Row
    BY DEF IndInv, TypeOK, Job
  <1>1. CASE LookUp(w)
    <2>1. CASE Answer(w)
      BY <1>1, <2>1, RefundFinish DEF LookUp, Answer, db, gateway
    <2>2. CASE job' = [job EXCEPT ![w].pc = "apply", ![w].row = pay[job[w].order]]
      <3> DEFINE j == [job[w] EXCEPT !.pc = "apply", !.row = pay[o]]
      <3>1. o \in Order
        BY <1>1, HeldEvent DEF LookUp
      <3>2. j \in Job /\ j.pc = "apply" /\ j.order = o /\ j.row = pay[o]
        BY <1>0, <3>1 DEF Job, PC
      <3>3. job' = [job EXCEPT ![w] = j] /\ UNCHANGED <<pay, refunds, sent>>
        BY <1>0, <1>1, <2>2 DEF LookUp, db, gateway
      <3> HIDE DEF j
      <3> QED
        BY <3>1, <3>2, <3>3, RefundJob
    <2> QED
      BY <1>1, <2>1, <2>2 DEF LookUp
  <1>2. CASE CaptureAborts(w)
    BY <1>2, RefundFinish DEF CaptureAborts, db, gateway
  <1>3. job[w].pc = "apply" =>
          o \in Order /\ (e.type \in {"refund.created", "refund.processed"} =>
                            Refunded(o, e.amount) /\ e.amount \in Nat)
    <2> SUFFICES ASSUME job[w].pc = "apply"
                 PROVE  o \in Order /\ (e.type \in {"refund.created", "refund.processed"} =>
                          Refunded(o, e.amount) /\ e.amount \in Nat)
      OBVIOUS
    <2>1. e \in Event /\ e \in sent /\ o = e.order /\ o \in Order
      BY HeldEvent DEF IndInv, TypeOK
    <2> QED
      BY <2>1 DEF RefundInv, RefundsHeldOK, Event
  <1>4. CASE ApplyCaptured(w)
    <2> DEFINE new == [old EXCEPT !.status = "captured", !.linked = TRUE, !.verified = TRUE]
    <2>1. new \in Row /\ new.rstatus = old.rstatus /\ new.ramount = old.ramount
      BY <1>0 DEF Row, PaymentStatus
    <2>2. Commit(w, new, "captured") /\ Finish(w) /\ UNCHANGED <<refunds, sent>> /\ o \in Order
      BY <1>3, <1>4 DEF ApplyCaptured, Applying, Answer, gateway
    <2> HIDE DEF new
    <2> QED
      BY <2>1, <2>2, RefundCommitted
  <1>5. CASE ApplyMismatch(w) \/ ApplyFailed(w)
    <2> DEFINE new == [old EXCEPT !.status = "failed"]
    <2>1. new \in Row /\ new.rstatus = old.rstatus /\ new.ramount = old.ramount
      BY <1>0 DEF Row, PaymentStatus
    <2>2. PICK h : Commit(w, new, h)
      BY <1>5 DEF ApplyMismatch, ApplyFailed
    <2>3. Finish(w) /\ UNCHANGED <<refunds, sent>> /\ o \in Order
      BY <1>3, <1>5 DEF ApplyMismatch, ApplyFailed, Applying, Answer, gateway
    <2> HIDE DEF new
    <2> QED
      BY <2>1, <2>2, <2>3, RefundCommitted
  <1>6. CASE ApplyRefundCreated(w)
    <2> DEFINE new == [old EXCEPT !.rstatus = "pending", !.ramount = e.amount]
    <2>1. /\ Commit(w, new, old.status) /\ Finish(w) /\ UNCHANGED <<refunds, sent>>
          /\ o \in Order /\ Refunded(o, e.amount) /\ e.amount \in Nat
      BY <1>3, <1>6 DEF ApplyRefundCreated, Applying, Answer, gateway
    <2>2. /\ new \in Row /\ new.rstatus # "none" /\ new.ramount = e.amount
          /\ Backed(o, e.amount)
      BY <1>0, <2>1, RefundedBacked DEF Row, RefundStatus
    <2> HIDE DEF new
    <2> QED
      BY <2>1, <2>2, RefundCommitted
  <1>7. CASE ApplyRefundProcessed(w)
    <2> DEFINE new == [old EXCEPT !.rstatus = "processed", !.ramount = e.amount,
                                  !.status = "refunded"]
    <2>1. /\ Commit(w, new, "refunded") /\ Finish(w) /\ UNCHANGED <<refunds, sent>>
          /\ o \in Order /\ Refunded(o, e.amount) /\ e.amount \in Nat
      BY <1>3, <1>7 DEF ApplyRefundProcessed, Applying, Answer, gateway
    <2>2. /\ new \in Row /\ new.rstatus # "none" /\ new.ramount = e.amount
          /\ Backed(o, e.amount)
      BY <1>0, <2>1, RefundedBacked DEF Row, RefundStatus, PaymentStatus
    <2> HIDE DEF new
    <2> QED
      BY <2>1, <2>2, RefundCommitted
  <1> QED
    BY <1>1, <1>2, <1>4, <1>5, <1>6, <1>7 DEF Webhook

LEMMA RefundVerifying ==
  ASSUME IndInv, RefundInv, NEW w \in Worker, Verifying(w)
  PROVE  RefundInv'
  <1>0. job \in [Worker -> Job] /\ job[w] \in Job /\ pay \in [Order -> Row]
    BY DEF IndInv, TypeOK
  <1>1. CASE \E o \in Order : VerifyLookUp(w, o)
    <2>1. PICK o \in Order : VerifyLookUp(w, o)
      BY <1>1
    <2> DEFINE j == [Idle EXCEPT !.pc = "verify", !.order = o, !.row = pay[o]]
    <2>2. j \in Job /\ j.pc = "verify" /\ j.order = o /\ j.row = pay[o]
      BY <1>0, IdleJob DEF Idle, Job, PC
    <2>3. job' = [job EXCEPT ![w] = j] /\ UNCHANGED <<pay, refunds, sent>>
      BY <2>1 DEF VerifyLookUp, db, gateway
    <2> HIDE DEF j
    <2> QED
      BY <2>2, <2>3, RefundJob
  <1>2. CASE VerifyCommit(w)
    <2> DEFINE new == [job[w].row EXCEPT !.status = "captured", !.linked = TRUE]
    <2>1. job[w].order \in Order /\ job[w].row \in Row
      BY <1>0, <1>2 DEF VerifyCommit, IndInv, JobOK, TypeOK, Job
    <2>2. new \in Row /\ new.rstatus = job[w].row.rstatus /\ new.ramount = job[w].row.ramount
      BY <2>1 DEF Row, PaymentStatus
    <2>3. Commit(w, new, "captured") /\ Finish(w) /\ UNCHANGED <<refunds, sent>>
      BY <1>2 DEF VerifyCommit, gateway
    <2> HIDE DEF new
    <2> QED
      BY <2>1, <2>2, <2>3, RefundCommitted
  <1>3. CASE VerifyAborts(w)
    BY <1>3, RefundFinish DEF VerifyAborts, db, gateway
  <1> QED
    BY <1>1, <1>2, <1>3 DEF Verifying

\* Razorpay adds one amount to the refunds of an order, and they keep theirs.
LEMMA RefundAdded ==
  ASSUME IndInv, NEW o \in Order, NEW a \in 1 .. Price,
         refunds' = [refunds EXCEPT ![o] = Append(@, a)]
  PROVE  /\ \E n \in DOMAIN refunds'[o] : refunds'[o][n] = a
         /\ \A p \in Order : \A n \in DOMAIN refunds[p] :
              n \in DOMAIN refunds'[p] /\ refunds'[p][n] = refunds[p][n]
  <1>1. refunds \in [Order -> Seq(1 .. Price)] /\ refunds[o] \in Seq(1 .. Price)
    BY DEF IndInv, TypeOK
  <1>2. /\ refunds'[o] = Append(refunds[o], a)
        /\ \A p \in Order : p # o => refunds'[p] = refunds[p]
    BY <1>1
  <1>3. /\ Len(refunds[o]) + 1 \in DOMAIN refunds'[o]
        /\ refunds'[o][Len(refunds[o]) + 1] = a
        /\ \A n \in DOMAIN refunds[o] : n \in DOMAIN refunds'[o] /\ refunds'[o][n] = refunds[o][n]
    BY <1>1, <1>2
  <1> QED
    BY <1>2, <1>3

LEMMA RefundRefunding ==
  ASSUME IndInv, RefundInv, NEW w \in Worker, Refunding(w)
  PROVE  RefundInv'
  <1>0. job \in [Worker -> Job] /\ job[w] \in Job /\ pay \in [Order -> Row]
    BY DEF IndInv, TypeOK
  <1>1. CASE \E o \in Order, a \in 1 .. Listed : RefundLookUp(w, o, a)
    <2>1. PICK o \in Order, a \in 1 .. Listed : RefundLookUp(w, o, a)
      BY <1>1
    <2> DEFINE j == [Idle EXCEPT !.pc = "refund", !.order = o,
                                 !.row = pay[o], !.amount = a]
    <2>2. a \in Nat
      BY CheckoutAssumption
    <2>3. j \in Job /\ j.pc = "refund" /\ j.order = o /\ j.row = pay[o]
      BY <1>0, <2>2, IdleJob DEF Idle, Job, PC
    <2>4. job' = [job EXCEPT ![w] = j] /\ UNCHANGED <<pay, refunds, sent>>
      BY <2>1 DEF RefundLookUp, db, gateway
    <2> HIDE DEF j
    <2> QED
      BY <2>3, <2>4, RefundJob
  <1>2. CASE RefundCall(w)
    <2> DEFINE o == job[w].order
               n == Len(refunds[o]) + 1
               j == [job[w] EXCEPT !.pc = "refunded"]
    <2>0. PICK p \in 1 .. Price :
            /\ job[w].amount \in {p, p + 1}
            /\ refunds' = [refunds EXCEPT ![o] = Append(@, p)]
            /\ Issue({Ev("refund.created", o, n, p)})
      BY <1>2, CallPays
    <2> DEFINE e == Ev("refund.created", o, n, p)
    <2>1. o \in Order
      BY <1>2 DEF RefundCall, IndInv, JobOK, TypeOK
    <2>2. e.order = o /\ e.amount = p
      BY DEF Ev
    <2>3. sent' \subseteq sent \cup {e} /\ UNCHANGED pay
      BY <1>2, <2>0 DEF RefundCall, Issue, db
    <2>4. /\ job' = [job EXCEPT ![w] = j]
          /\ j.order = o /\ j.amount = job[w].amount /\ j.row = job[w].row
      BY <1>0, <1>2 DEF RefundCall, Job
    <2>5. /\ \E k \in DOMAIN refunds'[o] : refunds'[o][k] = p
          /\ \A q \in Order : \A k \in DOMAIN refunds[q] :
               k \in DOMAIN refunds'[q] /\ refunds'[q][k] = refunds[q][k]
      <3> HIDE DEF o
      <3> QED
        BY <2>0, <2>1, RefundAdded
    <2>6. /\ \A v \in Worker : job[v].pc = "refunded" => job[v].order \in Order
          /\ \A x \in sent : x.order \in Order
      BY DEF IndInv, TypeOK, JobOK, Event
    <2> HIDE DEF e, n, j, o
    <2>7. RefundRowsOK'
      BY <1>0, <2>3, <2>4 DEF RefundInv, RefundRowsOK, o
    <2>8. RefundsHeldOK'
      <3>1. \A v \in Worker : job'[v].pc = "refunded" =>
              \E k \in DOMAIN refunds'[job'[v].order] :
                job'[v].amount \in {refunds'[job'[v].order][k], refunds'[job'[v].order][k] + 1}
        <4> SUFFICES ASSUME NEW v \in Worker, job'[v].pc = "refunded"
                     PROVE  \E k \in DOMAIN refunds'[job'[v].order] :
                              job'[v].amount \in {refunds'[job'[v].order][k],
                                                  refunds'[job'[v].order][k] + 1}
          OBVIOUS
        <4>1. CASE v = w
          BY <1>0, <2>0, <2>4, <2>5, <4>1
        <4>2. CASE v # w
          <5>1. job'[v] = job[v] /\ job[v].order \in Order
            BY <1>0, <2>4, <2>6, <4>2
          <5>2. PICK k \in DOMAIN refunds[job[v].order] :
                  job[v].amount \in {refunds[job[v].order][k], refunds[job[v].order][k] + 1}
            BY <5>1 DEF RefundInv, RefundsHeldOK, Backed
          <5> QED
            BY <2>5, <5>1, <5>2
        <4> QED
          BY <4>1, <4>2
      <3>2. \A x \in sent' : x.type \in {"refund.created", "refund.processed"} =>
                               \E k \in DOMAIN refunds'[x.order] :
                                 refunds'[x.order][k] = x.amount
        BY <2>2, <2>3, <2>5, <2>6 DEF RefundInv, RefundsHeldOK, Refunded
      <3> QED
        BY <3>1, <3>2 DEF RefundsHeldOK, Refunded, Backed
    <2>9. RefundIsBacked'
      <3> SUFFICES ASSUME NEW q \in Order, pay'[q].rstatus # "none"
                   PROVE  \E k \in DOMAIN refunds'[q] :
                            pay'[q].ramount \in {refunds'[q][k], refunds'[q][k] + 1}
        BY DEF RefundIsBacked
      <3>1. PICK k \in DOMAIN refunds[q] :
              pay[q].ramount \in {refunds[q][k], refunds[q][k] + 1}
        BY <2>3 DEF RefundInv, RefundIsBacked
      <3> QED
        BY <2>3, <2>5, <3>1
    <2> QED
      BY <2>7, <2>8, <2>9 DEF RefundInv
  <1>3. CASE RefundRefused(w)
    BY <1>3, RefundFinish DEF RefundRefused, db, gateway
  <1>4. CASE RefundCommit(w)
    <2> DEFINE o == job[w].order
               old == job[w].row
               new == [old EXCEPT !.rstatus = "pending", !.ramount = job[w].amount]
    <2>1. /\ o \in Order /\ old \in Row /\ job[w].amount \in Nat
          /\ Backed(o, job[w].amount)
      BY <1>4 DEF RefundCommit, IndInv, JobOK, TypeOK, Job, RefundInv, RefundsHeldOK
    <2>2. new \in Row /\ new.rstatus # "none" /\ new.ramount = job[w].amount
      BY <2>1 DEF Row, RefundStatus
    <2>3. Commit(w, new, old.status) /\ Finish(w) /\ UNCHANGED <<refunds, sent>>
      BY <1>4 DEF RefundCommit, gateway
    <2> HIDE DEF new
    <2> QED
      BY <2>1, <2>2, <2>3, RefundCommitted
  <1> QED
    BY <1>1, <1>2, <1>3, <1>4 DEF Refunding

\* Razorpay reports a refund as settled with the amount it made it with.
LEMMA RefundRazorpay ==
  ASSUME IndInv, RefundInv, Razorpay
  PROVE  RefundInv'
  <1>1. /\ UNCHANGED <<pay, job, refunds>>
        /\ \A e \in sent' \ sent :
             e.type \in {"refund.created", "refund.processed"} => Refunded(e.order, e.amount)
    <2>1. PICK o \in Order :
            \/ \E n \in 1 .. MaxFailed : AttemptFails(o, n)
            \/ \E a \in Reported : Capture(o, a)
            \/ \E n \in 1 .. MaxRefund : RefundSettles(o, n)
      BY DEF Razorpay
    <2>2. CASE \E n \in 1 .. MaxFailed : AttemptFails(o, n)
      BY <2>2 DEF AttemptFails, Issue, Ev, db
    <2>3. CASE \E a \in Reported : Capture(o, a)
      BY <2>3 DEF Capture, Issue, Ev, db
    <2>4. CASE \E n \in 1 .. MaxRefund : RefundSettles(o, n)
      BY <2>4 DEF RefundSettles, Issue, Ev, db, Refunded
    <2> QED
      BY <2>1, <2>2, <2>3, <2>4
  <1> QED
    BY <1>1 DEF RefundInv, RefundRowsOK, RefundsHeldOK, RefundIsBacked, Refunded, Backed

\* Init and every step establish RefundInv, wherever IndInv holds.
LEMMA RefundInvariance == Spec => []RefundInv
  <1>1. Init => RefundInv
    BY DEF Init, RefundInv, RefundRowsOK, RefundsHeldOK, RefundIsBacked, Absent, Idle
  <1>2. IndInv /\ RefundInv /\ [Next]_vars => RefundInv'
    <2> SUFFICES ASSUME IndInv, RefundInv, [Next]_vars PROVE RefundInv'
      OBVIOUS
    <2>1. CASE \E w \in Worker : Ordering(w)
      BY <2>1, RefundOrdering
    <2>2. CASE \E w \in Worker : Webhook(w)
      BY <2>2, RefundWebhook
    <2>3. CASE \E w \in Worker : Verifying(w)
      BY <2>3, RefundVerifying
    <2>4. CASE \E w \in Worker : Refunding(w)
      BY <2>4, RefundRefunding
    <2>5. CASE \E w \in Worker : Crash(w)
      BY <2>5, RefundFinish DEF Crash, db, gateway
    <2>6. CASE \E w \in Worker, e \in sent : Receive(w, e)
      <3>1. PICK w \in Worker, e \in sent : Receive(w, e)
        BY <2>6
      <3> DEFINE j == [Idle EXCEPT !.pc = "received", !.order = e.order, !.event = e]
      <3>2. e \in Event
        BY DEF IndInv, TypeOK
      <3>3. j \in Job /\ j.pc = "received" /\ j.row = Absent
        BY <3>2, IdleJob DEF Idle, Job, PC, Event
      <3>4. job' = [job EXCEPT ![w] = j] /\ UNCHANGED <<pay, refunds, sent>>
        BY <3>1 DEF Receive, db, gateway
      <3> HIDE DEF j
      <3> QED
        BY <3>3, <3>4, RefundJob
    <2>7. CASE Razorpay
      BY <2>7, RefundRazorpay
    <2>8. CASE (\E e \in sent : Skip(e)) \/ EnrolmentElsewhere \/ UNCHANGED vars
      <3>1. UNCHANGED <<pay, refunds, sent, job>>
        BY <2>8 DEF Skip, EnrolmentElsewhere, Expire, AutoUnenroll, StudentEnroll, Suspend,
                    Unsuspend, TeacherEnroll, Unenroll, Elsewhere, vars, db, gateway
      <3> QED
        BY <3>1 DEF RefundInv, RefundRowsOK, RefundsHeldOK, RefundIsBacked, Refunded, Backed
    <2> QED
      BY <2>1, <2>2, <2>3, <2>4, <2>5, <2>6, <2>7, <2>8 DEF Next
  <1> QED
    BY <1>1, <1>2, Invariance, PTL DEF Spec

\* A refund on the books is one that Razorpay made, of that amount or of one
\* paisa less, although the request truncates what it sends, and the request and
\* the two refund events each write beside what they read some steps ago
\* (RefundService.initiate, _handle_refund_*).
THEOREM BackedRefunds == Spec => []RefundIsBacked
  <1>1. RefundInv => RefundIsBacked
    BY DEF RefundInv
  <1> QED
    BY <1>1, RefundInvariance, PTL

(***************************************************************************)
(* Changes of status.                                                      *)
(***************************************************************************)

\* A captured event carries an amount that Razorpay reports.
CapturesOK == \A e \in sent : e.type = "payment.captured" => e.amount \in Reported

LEMMA CapturesInvariance == Spec => []CapturesOK
  <1>1. Init => CapturesOK
    BY DEF Init, CapturesOK
  <1>2. CapturesOK /\ [Next]_vars => CapturesOK'
    <2> SUFFICES ASSUME CapturesOK, [Next]_vars PROVE CapturesOK'
      OBVIOUS
    <2>1. CASE UNCHANGED sent
      BY <2>1 DEF CapturesOK
    <2>2. CASE \E w \in Worker : RefundCall(w)
      BY <2>2 DEF RefundCall, Issue, Ev, CapturesOK
    <2>3. CASE Razorpay
      <3>1. PICK o \in Order :
              \/ \E n \in 1 .. MaxFailed : AttemptFails(o, n)
              \/ \E a \in Reported : Capture(o, a)
              \/ \E n \in 1 .. MaxRefund : RefundSettles(o, n)
        BY <2>3 DEF Razorpay
      <3>2. CASE \E n \in 1 .. MaxFailed : AttemptFails(o, n)
        BY <3>2 DEF AttemptFails, Issue, Ev, CapturesOK
      <3>3. CASE \E a \in Reported : Capture(o, a)
        <4>1. PICK a \in Reported : Capture(o, a)
          BY <3>3
        <4>2. \A e \in sent' : e \in sent \/ e.amount = a
          BY <4>1 DEF Capture, Issue, Ev
        <4> QED
          BY <4>2 DEF CapturesOK
      <3>4. CASE \E n \in 1 .. MaxRefund : RefundSettles(o, n)
        BY <3>4 DEF RefundSettles, Issue, Ev, CapturesOK
      <3> QED
        BY <3>1, <3>2, <3>3, <3>4
    <2> QED
      BY <2>1, <2>2, <2>3
      DEF Next, vars, gateway, Ordering, BeginOrder, InsertPending, OrderCreated, OrderRefused,
          Webhook, LookUp, ApplyCaptured, ApplyMismatch, CaptureAborts, ApplyFailed,
          ApplyRefundCreated, ApplyRefundProcessed, Verifying, VerifyLookUp, VerifyCommit,
          VerifyAborts, Refunding, RefundLookUp, RefundRefused, RefundCommit, Crash, Receive,
          Skip, EnrolmentElsewhere, Expire, AutoUnenroll, StudentEnroll, Suspend, Unsuspend,
          TeacherEnroll, Unenroll, Elsewhere
  <1> QED
    BY <1>1, <1>2, PTL DEF Spec

\* A commit changes the status of its own order at most, and only to a status
\* the handler wrote because it had read another one.
LEMMA CommitStatus ==
  ASSUME IndInv, NEW w \in Worker, NEW new, NEW h, Commit(w, new, h),
         NEW o \in Order, pay'[o].status # pay[o].status
  PROVE  /\ o = job[w].order /\ logged'[o] = h
         /\ pay'[o].status = new.status /\ new.status # job[w].row.status
  <1>1. pay \in [Order -> Row] /\ logged \in [Order -> PaymentStatus \cup {"absent"}]
    BY DEF IndInv, TypeOK
  <1>2. o = job[w].order
    BY <1>1 DEF Commit
  <1> QED
    BY <1>1, <1>2 DEF Commit, Saved, Dirty

\* What a step that changes a status writes besides.
Told(o) ==
  \/ /\ logged'[o] = pay'[o].status
     /\ pay'[o].status = "captured" => Grant(o) /\ o \in captured
  \/ \E w \in Worker : ApplyMismatch(w) /\ pay'[o].status = "failed"

LEMMA StatusChanges ==
  ASSUME IndInv, [Next]_vars, NEW o \in Order, pay'[o].status # pay[o].status
  PROVE  Told(o)
  <1>1. CASE \E w \in Worker, p \in Order : OrderCreated(w, p)
    <2>1. PICK w \in Worker, p \in Order : OrderCreated(w, p)
      BY <1>1
    <2> QED
      BY <2>1 DEF OrderCreated, Absent, IndInv, TypeOK, Told
  <1>2. ASSUME NEW w \in Worker,
               ApplyCaptured(w) \/ ApplyMismatch(w) \/ ApplyFailed(w)
                 \/ ApplyRefundCreated(w) \/ ApplyRefundProcessed(w)
                 \/ VerifyCommit(w) \/ RefundCommit(w)
        PROVE  Told(o)
    <2>1. CASE ApplyCaptured(w) \/ VerifyCommit(w)
      <3>1. PICK new : Commit(w, new, "captured") /\ new.status = "captured"
        <4>1. job[w].row \in Row
          BY DEF IndInv, TypeOK, Job
        <4> QED
          <5>1. CASE ApplyCaptured(w)
            <6> DEFINE n == [job[w].row EXCEPT !.status = "captured", !.linked = TRUE,
                                                  !.verified = TRUE]
            <6>1. Commit(w, n, "captured") /\ n.status = "captured"
              BY <4>1, <5>1 DEF ApplyCaptured, Row
            <6> HIDE DEF n
            <6> QED
              BY <6>1
          <5>2. CASE VerifyCommit(w)
            <6> DEFINE n == [job[w].row EXCEPT !.status = "captured", !.linked = TRUE]
            <6>1. Commit(w, n, "captured") /\ n.status = "captured"
              BY <4>1, <5>2 DEF VerifyCommit, Row
            <6> HIDE DEF n
            <6> QED
              BY <6>1
          <5> QED
            BY <2>1, <5>1, <5>2
      <3>2. Grant(job[w].order) /\ job[w].order \in captured
        BY <2>1, HeldEvent DEF ApplyCaptured, Applying, VerifyCommit, IndInv, JobOK
      <3> QED
        BY <3>1, <3>2, CommitStatus DEF Told
    <2>2. CASE ApplyMismatch(w)
      <3>1. PICK new, h : Commit(w, new, h) /\ new.status = "failed"
        <4>1. job[w].row \in Row
          BY DEF IndInv, TypeOK, Job
        <4> QED
          BY <2>2, <4>1 DEF ApplyMismatch, Row
      <3> QED
        BY <2>2, <3>1, CommitStatus DEF Told
    <2>3. CASE ApplyFailed(w) \/ ApplyRefundProcessed(w)
      <3>1. PICK new, h : Commit(w, new, h) /\ new.status = h /\ h # "captured"
        <4>1. job[w].row \in Row
          BY DEF IndInv, TypeOK, Job
        <4>2. CASE ApplyFailed(w)
          BY <4>1, <4>2 DEF ApplyFailed, Row
        <4>3. CASE ApplyRefundProcessed(w)
          BY <4>1, <4>3 DEF ApplyRefundProcessed, Row
        <4> QED
          BY <2>3, <4>2, <4>3
      <3> QED
        BY <3>1, CommitStatus DEF Told
    <2>4. CASE ApplyRefundCreated(w) \/ RefundCommit(w)
      <3>1. PICK new, h : Commit(w, new, h) /\ new.status = job[w].row.status
        <4>1. job[w].row \in Row
          BY DEF IndInv, TypeOK, Job
        <4> QED
          <5>1. CASE ApplyRefundCreated(w)
            <6> DEFINE n == [job[w].row EXCEPT !.rstatus = "pending", !.ramount = job[w].event.amount]
            <6>1. Commit(w, n, job[w].row.status) /\ n.status = job[w].row.status
              BY <4>1, <5>1 DEF ApplyRefundCreated, Row
            <6> HIDE DEF n
            <6> QED
              BY <6>1
          <5>2. CASE RefundCommit(w)
            <6> DEFINE n == [job[w].row EXCEPT !.rstatus = "pending", !.ramount = job[w].amount]
            <6>1. Commit(w, n, job[w].row.status) /\ n.status = job[w].row.status
              BY <4>1, <5>2 DEF RefundCommit, Row
            <6> HIDE DEF n
            <6> QED
              BY <6>1
          <5> QED
            BY <2>4, <5>1, <5>2
      <3> QED
        BY <3>1, CommitStatus
    <2> QED
      BY <1>2, <2>1, <2>2, <2>3, <2>4
  <1> QED
    BY <1>1, <1>2
    DEF Next, vars, db, Ordering, BeginOrder, InsertPending, OrderRefused,
        Webhook, LookUp, CaptureAborts, Verifying, VerifyLookUp, VerifyAborts, Refunding,
        RefundLookUp, RefundCall, RefundRefused, Crash, Receive, Skip, Razorpay, AttemptFails,
        Capture, RefundSettles, EnrolmentElsewhere, Expire, AutoUnenroll, StudentEnroll,
        Suspend, Unsuspend, TeacherEnroll, Unenroll, Elsewhere

\* Whoever records a capture opens the course in the same transaction, however
\* late its row was read (_handle_payment_captured and verify).
THEOREM CapturesGrant == Spec => CaptureGrants
  <1> DEFINE A == \A o \in Order :
       pay[o].status # "captured" /\ pay'[o].status = "captured" =>
         enrol'[buyer[o]] = [status |-> "active", expired |-> FALSE, via |-> o]
  <1>1. IndInv /\ [Next]_vars => A
    <2> SUFFICES ASSUME IndInv, [Next]_vars, NEW o \in Order,
                        pay[o].status # "captured", pay'[o].status = "captured"
                 PROVE  enrol'[buyer[o]] = [status |-> "active", expired |-> FALSE, via |-> o]
      OBVIOUS
    <2>1. Grant(o) /\ o \in captured
      BY StatusChanges DEF Told
    <2>2. enrol \in [Buyer -> Enrolment] /\ buyer[o] \in Buyer
      BY <2>1 DEF IndInv, TypeOK, PlacedOK
    <2> QED
      BY <2>1, <2>2 DEF Grant
  <1> QED
    BY <1>1, Invariance, PTL DEF Spec, CaptureGrants

\* A history record tells of every change of a status, where no captured event
\* reports another amount than the price (_log_history and its callers).
THEOREM ChangesLogged ==
  ASSUME Reported \subseteq {Price}
  PROVE  Spec => ChangesAreLogged
  <1> DEFINE A == \A o \in Order :
       pay'[o].status # pay[o].status => logged'[o] = pay'[o].status
  <1>1. IndInv /\ CapturesOK /\ [Next]_vars => A
    <2> SUFFICES ASSUME IndInv, CapturesOK, [Next]_vars, NEW o \in Order,
                        pay'[o].status # pay[o].status
                 PROVE  logged'[o] = pay'[o].status
      OBVIOUS
    <2>1. Told(o)
      BY StatusChanges
    <2>2. \A w \in Worker : ~ApplyMismatch(w)
      <3> SUFFICES ASSUME NEW w \in Worker, ApplyMismatch(w) PROVE FALSE
        OBVIOUS
      <3>1. job[w].pc = "apply" /\ job[w].event.type = "payment.captured"
        BY DEF ApplyMismatch, Applying
      <3>2. job[w].event \in sent
        BY <3>1, HeldEvent DEF IndInv, TypeOK
      <3> QED
        BY <3>1, <3>2 DEF CapturesOK, ApplyMismatch
    <2> QED
      BY <2>1, <2>2 DEF Told
  <1> QED
    BY <1>1, Invariance, CapturesInvariance, PTL DEF Spec, ChangesAreLogged

(***************************************************************************)
(* Checkout implements Purchase.                                           *)
(***************************************************************************)

access == [b \in Buyer |-> enrol[b].via]

\* A grant opens the course: the row it inserts was not there, so no payment
\* held the student's access.
LEMMA GrantOpens ==
  ASSUME IndInv, NEW o \in Order, o \in captured, Grant(o), UNCHANGED <<buyer, captured>>
  PROVE  Abstract!Open(o)
  <1>1. buyer[o] \in Buyer /\ enrol \in [Buyer -> Enrolment]
    BY DEF IndInv, TypeOK, PlacedOK
  <1>2. enrol[buyer[o]].via = NoOrder
    BY <1>1 DEF Grant, CanGrant, IndInv, EnrolledIsPaid
  <1>3. access' = [access EXCEPT ![buyer[o]] = o]
    BY <1>1 DEF Grant, access
  <1> QED
    BY <1>1, <1>2, <1>3 DEF Abstract!Open, access

\* The other writers of a row leave its payment alone, or end the access.
LEMMA ElsewhereEnds ==
  ASSUME IndInv, EnrolmentElsewhere
  PROVE  (\E b \in Buyer : Abstract!End(b)) \/ UNCHANGED <<buyer, captured, access>>
  <1>1. PICK b \in Buyer :
          \/ Expire(b) \/ AutoUnenroll(b) \/ StudentEnroll(b)
          \/ Suspend(b) \/ Unsuspend(b) \/ TeacherEnroll(b) \/ Unenroll(b)
    BY DEF EnrolmentElsewhere
  <1>2. enrol \in [Buyer -> Enrolment] /\ enrol[b] \in Enrolment
    BY DEF IndInv, TypeOK
  <1>3. UNCHANGED <<buyer, captured>>
    BY <1>1 DEF Expire, AutoUnenroll, StudentEnroll, Suspend, Unsuspend,
                TeacherEnroll, Unenroll, Elsewhere, gateway
  <1>4. CASE AutoUnenroll(b) \/ Unenroll(b)
    <2>1. access' = [access EXCEPT ![b] = NoOrder]
      <3>1. enrol' = [enrol EXCEPT ![b] = NotEnrolled] /\ NotEnrolled.via = NoOrder
        BY <1>4 DEF AutoUnenroll, Unenroll, NotEnrolled
      <3>2. \A c \in Buyer : enrol'[c].via = IF c = b THEN NoOrder ELSE enrol[c].via
        BY <1>2, <3>1
      <3> QED
        BY <3>2 DEF access
    <2> QED
      BY <1>3, <2>1 DEF Abstract!End, access
  <1>5. CASE Expire(b) \/ StudentEnroll(b) \/ Suspend(b) \/ Unsuspend(b) \/ TeacherEnroll(b)
    <2>1. \A c \in Buyer : enrol'[c].via = enrol[c].via
      BY <1>2, <1>5 DEF Expire, StudentEnroll, Suspend, Unsuspend, TeacherEnroll, Enrolment
    <2> QED
      BY <1>3, <2>1 DEF access
  <1> QED
    BY <1>1, <1>4, <1>5

LEMMA StepPurchases ==
  ASSUME IndInv, [Next]_vars
  PROVE  Abstract!Next \/ UNCHANGED <<buyer, captured, access>>
  <1>1. CASE \E w \in Worker, o \in Order : OrderCreated(w, o)
    <2>1. PICK w \in Worker, o \in Order : OrderCreated(w, o)
      BY <1>1
    <2>2. job[w].buyer \in Buyer
      BY <2>1 DEF OrderCreated, IndInv, JobOK
    <2>3. Abstract!Place(o, job[w].buyer)
      BY <2>1 DEF OrderCreated, gateway, Abstract!Place, access
    <2> QED
      BY <2>2, <2>3 DEF Abstract!Next
  <1>2. CASE \E o \in Order, a \in Reported : Capture(o, a)
    BY <1>2 DEF Capture, db, Abstract!Next, Abstract!Pay, access
  <1>3. CASE \E w \in Worker : ApplyCaptured(w) \/ VerifyCommit(w)
    <2>1. PICK w \in Worker : ApplyCaptured(w) \/ VerifyCommit(w)
      BY <1>3
    <2>2. job[w].order \in captured /\ job[w].order \in Order
      BY <2>1, HeldEvent DEF ApplyCaptured, Applying, VerifyCommit, IndInv, JobOK, TypeOK
    <2>3. Grant(job[w].order) /\ UNCHANGED <<buyer, captured>>
      BY <2>1 DEF ApplyCaptured, VerifyCommit, gateway
    <2> QED
      BY <2>2, <2>3, GrantOpens DEF Abstract!Next
  <1>4. CASE EnrolmentElsewhere
    BY <1>4, ElsewhereEnds DEF Abstract!Next
  <1>5. CASE UNCHANGED <<buyer, captured, enrol>>
    BY <1>5 DEF access
  <1> QED
    BY <1>1, <1>2, <1>3, <1>4, <1>5
    DEF Next, vars, db, gateway, Ordering, BeginOrder, InsertPending, OrderRefused,
        Webhook, LookUp, ApplyMismatch, CaptureAborts, ApplyFailed, ApplyRefundCreated,
        ApplyRefundProcessed, Verifying, VerifyLookUp, VerifyAborts, Refunding,
        RefundLookUp, RefundCall, RefundRefused, RefundCommit, Crash, Receive, Skip,
        Razorpay, AttemptFails, RefundSettles

\* The handlers, the webhooks and their replays together do no more than place
\* an order, pay it once, and open the course to the student who paid.
THEOREM ImplementsPurchase == Spec => Purchases
  <1>1. Init => Abstract!Init
    BY DEF Init, Abstract!Init, NotEnrolled
  <1>2. IndInv /\ [Next]_vars => [Abstract!Next]_<<buyer, captured, access>>
    BY StepPurchases
  <1> QED
    BY <1>1, <1>2, Invariance, PTL DEF Spec, Purchases, Abstract!Spec, access

===============================================================================
