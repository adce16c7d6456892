----------------------------- MODULE EnrolPages -----------------------------
(***************************************************************************)
(* The two pages on which a student enrols: the catalogue (explore) and the  *)
(* page of one course.  A click starts a flow of several requests and, for a *)
(* paid course, the Razorpay window.  Flows go on when their page has left   *)
(* the screen.  The payment module is Purchase, which Checkout implements;   *)
(* there is one student, so a buyer is a course.                             *)
(***************************************************************************)
EXTENDS Naturals, FiniteSets

CONSTANTS Course, Free, Order, NoCourse, NoOrder,
          MaxFlow, MaxMount,   \* clicks on an enrol button, pages opened (bounds)
          MaxFault             \* requests, answers and scripts that are lost (bound)

ASSUME EnrolPagesAssumption ==
  /\ Free \subseteq Course /\ NoCourse \notin Course /\ NoOrder \notin Order
  /\ {MaxFlow, MaxMount, MaxFault} \subseteq Nat

VARIABLES buyer, paid, access,  \* orders and paid enrolments, as in Purchase
          joined,               \* enrolments without an order
          view, mount,          \* the page on screen, and its number
          load, answer,         \* how far its fetch is, and what it brought
          shown,                \* courses the page shows as enrolled
          busy,                 \* enrollingId; isEnrolling of the course page
          sdk,                  \* the script of Razorpay in the document
          flow,                 \* flow[f]: the f-th click
          opened,               \* enrolments since the page was opened (history only)
          faults

server == <<buyer, paid, access, joined>>
page == <<view, mount, load, answer, shown, busy>>
vars == <<server, page, sdk, flow, opened, faults>>

Backend == INSTANCE Purchase WITH Buyer <- Course, NoBuyer <- NoCourse

Catalogue == [at |-> "explore", course |-> NoCourse]
Page == {Catalogue} \cup [at : {"course"}, course : Course]
Flow == 1 .. MaxFlow

NoFlow == [step |-> "none", course |-> NoCourse, mount |-> 0,
           from |-> "explore", order |-> NoOrder]

Init == /\ Backend!Init /\ joined = {}
        /\ view = Catalogue /\ mount = 0 /\ load = "none" /\ answer = {}
        /\ shown = {} /\ busy = NoCourse /\ sdk = "absent"
        /\ flow = [f \in Flow |-> NoFlow]
        /\ opened = {} /\ faults = 0

Fault == faults < MaxFault /\ faults' = faults + 1

-----------------------------------------------------------------------------
(* Enrolments on the server, which also change without this browser: the     *)
(* webhook opens a paid order, and a row is deleted when it expires or a     *)
(* teacher removes the student.                                              *)
Enrolled == joined \cup {c \in Course : access[c] # NoOrder}

Opens(c) == opened' = opened \cup {c}

Webhook(o) ==
  /\ buyer[o] \notin Enrolled /\ Backend!Open(o)
  /\ Opens(buyer[o])
  /\ UNCHANGED <<joined, page, sdk, flow, faults>>

Ends(c) ==
  /\ c \in Enrolled /\ Backend!End(c) /\ joined' = joined \ {c}
  /\ UNCHANGED <<page, sdk, flow, opened, faults>>

-----------------------------------------------------------------------------
(* Opening a page, and what it fetches when it mounts.                       *)
Mounts(p) ==
  /\ mount < MaxMount /\ mount' = mount + 1
  /\ view' = p /\ load' = IF p = Catalogue THEN "catalogue" ELSE "detail"
  /\ answer' = {} /\ shown' = {} /\ busy' = NoCourse /\ opened' = Enrolled

Navigate(p) == Mounts(p) /\ p # view /\ UNCHANGED <<server, sdk, flow, faults>>

(* A reload is a new document: no script, and the flows are gone.            *)
Reload ==
  /\ Mounts(view) /\ mount > 0
  /\ sdk' = "absent"
  /\ flow' = [f \in Flow |-> IF flow[f].step \in {"none", "enrolled", "failed", "cancelled"}
                             THEN flow[f] ELSE [flow[f] EXCEPT !.step = "gone"]]
  /\ UNCHANGED <<server, faults>>

Loads(step, brought) ==
  /\ load' = step /\ answer' = brought
  /\ UNCHANGED <<server, view, mount, shown, busy, sdk, flow, opened>>

(* GET /courses/:id knows enrolled students only: any failure of it falls    *)
(* back to the catalogue.                                                    *)
ReadDetail ==
  /\ load = "detail"
  /\ \/ view.course \in Enrolled /\ Loads("read", {view.course}) /\ UNCHANGED faults
     \/ view.course \notin Enrolled /\ Loads("catalogue", {}) /\ UNCHANGED faults
     \/ Fault /\ Loads("catalogue", {})

(* GET /courses/explore answers a request whose token has expired as it      *)
(* answers a visitor: nothing is enrolled.                                   *)
ReadCatalogue ==
  /\ load = "catalogue"
  /\ \/ \E brought \in {Enrolled, {}} : Loads("read", brought) /\ UNCHANGED faults
     \/ Fault /\ Loads("error", {})

Displays ==
  /\ load = "read" /\ load' = "ready"
  /\ shown' = IF view = Catalogue THEN answer ELSE answer \cap {view.course}
  /\ UNCHANGED <<server, view, mount, answer, busy, sdk, flow, opened, faults>>

-----------------------------------------------------------------------------
(* Mistaken form of OnScreen: flows write to a store that all pages share.   *)
OnScreen_Shared(f) == flow[f].mount <= mount

(* handleEnroll.  A flow writes to the page it was started on, if that is    *)
(* still the one on screen.                                                  *)
OnScreen(f) == flow[f].mount = mount
To(f, step) == flow' = [flow EXCEPT ![f].step = step]

Ended(f, how) ==
  /\ To(f, how)
  /\ busy' = IF OnScreen(f) THEN NoCourse ELSE busy
  /\ shown' = IF OnScreen(f) /\ how = "enrolled" THEN shown \cup {flow[f].course} ELSE shown
  /\ UNCHANGED <<view, mount, load, answer>>

Fails(f) == Ended(f, "failed") /\ UNCHANGED <<server, sdk, opened>>

(* Mistaken form of FirstStep: the window is opened without an order.        *)
FirstStep_Window(c) == IF c \in Free THEN "joining" ELSE "ordered"

FirstStep(c) == IF c \in Free THEN "joining" ELSE "ordering"

(* Mistaken form of Disabled: the button does not look at isEnrolling.       *)
Disabled_Never(c) == c \in shown

(* A button is not there for an enrolled course, and disabled while its      *)
(* course is the one being enrolled in.                                      *)
Disabled(c) == c \in shown \/ busy = c

Click(f, c) ==
  /\ flow[f].step = "none" /\ \A g \in 1 .. f - 1 : flow[g].step # "none"
  /\ load = "ready" /\ (view = Catalogue \/ view.course = c)
  /\ ~Disabled(c) /\ \A g \in Flow : flow[g].step # "window"  \* it covers the page
  /\ busy' = c
  /\ flow' = [flow EXCEPT ![f] = [step |-> FirstStep(c), course |-> c, mount |-> mount,
                                  from |-> view.at, order |-> NoOrder]]
  /\ UNCHANGED <<server, view, mount, load, answer, shown, sdk, opened, faults>>

(* A free course: POST /payments/enroll-free refuses whoever is enrolled;    *)
(* the course page then tries POST /courses/:id/enroll, which does not.      *)
Joins(f) ==
  /\ \/ flow[f].step = "joining" /\ flow[f].course \notin Enrolled
     \/ flow[f].step = "rejoining"
  /\ joined' = IF flow[f].course \in Enrolled THEN joined ELSE joined \cup {flow[f].course}
  /\ To(f, IF flow[f].step = "joining" THEN "joined" ELSE "rejoined")
  /\ Opens(flow[f].course)
  /\ UNCHANGED <<buyer, paid, access, page, sdk, faults>>

JoinFails(f) ==
  /\ \/ flow[f].step = "joining" /\ flow[f].course \in Enrolled /\ UNCHANGED faults
     \/ flow[f].step \in {"joining", "joined", "rejoining", "rejoined"} /\ Fault
  /\ IF flow[f].step \in {"joining", "joined"} /\ flow[f].from = "course"
       THEN To(f, "rejoining") /\ UNCHANGED <<server, page, sdk, opened>>
       ELSE Fails(f)

(* A paid course: an order, the script, the window, the verification.        *)
Orders(f, o) ==
  /\ flow[f].step = "ordering" /\ flow[f].course \notin Enrolled
  /\ Backend!Place(o, flow[f].course)
  /\ flow' = [flow EXCEPT ![f].step = "ordered", ![f].order = o]
  /\ UNCHANGED <<joined, page, sdk, opened, faults>>

OrderFails(f) ==
  /\ \/ flow[f].step = "ordering" /\ flow[f].course \in Enrolled /\ UNCHANGED faults
     \/ flow[f].step \in {"ordering", "ordered"} /\ Fault
  /\ Fails(f)

(* loadRazorpayScript is satisfied by the element of the script, loaded or   *)
(* not; without the script, openCheckout throws in an executor that is       *)
(* async, and its promise is never settled.                                  *)
OpensCheckout(f) ==
  /\ flow[f].step = "ordered"
  /\ \/ sdk = "absent" /\ sdk' = "loading" /\ To(f, "loading")
     \/ sdk = "loaded" /\ To(f, "window") /\ UNCHANGED sdk
     \/ sdk \in {"loading", "broken"} /\ To(f, "hung") /\ UNCHANGED sdk
  /\ UNCHANGED <<server, page, opened, faults>>

ScriptAnswers ==
  /\ \E f \in Flow :
       /\ flow[f].step = "loading"
       /\ \/ sdk' = "loaded" /\ To(f, "window") /\ UNCHANGED faults
          \/ Fault /\ sdk' = "broken" /\ To(f, "hung")
  /\ UNCHANGED <<server, page, opened>>

(* A payment may be settled when its window is closed already.               *)
Pays(f) ==
  /\ flow[f].step \in {"window", "cancelled"} /\ Backend!Pay(flow[f].order)
  /\ UNCHANGED <<joined, page, sdk, flow, opened, faults>>

Dismissed(f) ==
  /\ flow[f].step = "window"
  /\ Ended(f, "cancelled") /\ UNCHANGED <<server, sdk, opened, faults>>

Paid(f) ==
  /\ flow[f].step = "window" /\ flow[f].order \in paid
  /\ To(f, "verifying") /\ UNCHANGED <<server, page, sdk, opened, faults>>

(* verify_payment enrols; it fails if the webhook was first (see Checkout).  *)
Verifies(f) ==
  /\ flow[f].step = "verifying" /\ flow[f].course \notin Enrolled
  /\ Backend!Open(flow[f].order) /\ Opens(flow[f].course)
  /\ To(f, "verified") /\ UNCHANGED <<joined, page, sdk, faults>>

VerifyFails(f) ==
  /\ \/ flow[f].step = "verifying" /\ flow[f].course \in Enrolled /\ UNCHANGED faults
     \/ flow[f].step \in {"verifying", "verified"} /\ Fault
  /\ Fails(f)

Succeeds(f) ==
  /\ flow[f].step \in {"joined", "rejoined", "verified"}
  /\ Ended(f, "enrolled") /\ UNCHANGED <<server, sdk, opened, faults>>

-----------------------------------------------------------------------------
Enrols(f) ==
  \/ \E c \in Course : Click(f, c)
  \/ Joins(f) \/ JoinFails(f)
  \/ OrderFails(f) \/ \E o \in Order : Orders(f, o)
  \/ OpensCheckout(f) \/ Pays(f) \/ Dismissed(f) \/ Paid(f)
  \/ Verifies(f) \/ VerifyFails(f) \/ Succeeds(f)

Next ==
  \/ \E f \in Flow : Enrols(f)
  \/ ScriptAnswers \/ ReadDetail \/ ReadCatalogue \/ Displays
  \/ Reload \/ \E p \in Page : Navigate(p)
  \/ \E o \in Order : Webhook(o)
  \/ \E c \in Course : Ends(c)

Spec == Init /\ [][Next]_vars

-----------------------------------------------------------------------------
Step == {"none", "joining", "joined", "rejoining", "rejoined", "ordering", "ordered", "loading",
         "hung", "window", "verifying", "verified", "enrolled", "failed", "cancelled", "gone"}

(* Shape of the state; a flow has an order from the answer of create-order   *)
(* on, and the script is awaited by the flow that loads it.                  *)
TypeOK ==
  /\ buyer \in [Order -> Course \cup {NoCourse}] /\ paid \subseteq Order
  /\ access \in [Course -> Order \cup {NoOrder}] /\ joined \subseteq Free
  /\ view \in Page /\ mount \in 0 .. MaxMount
  /\ load \in {"none", "detail", "catalogue", "read", "ready", "error"}
  /\ answer \subseteq Course /\ shown \subseteq Course /\ busy \in Course \cup {NoCourse}
  /\ sdk \in {"absent", "loading", "loaded", "broken"}
  /\ flow \in [Flow -> [step : Step, course : Course \cup {NoCourse}, mount : 0 .. MaxMount,
                        from : {"explore", "course"}, order : Order \cup {NoOrder}]]
  /\ opened \subseteq Course /\ faults \in 0 .. MaxFault
  /\ \A f \in Flow : flow[f].step \in {"window", "verifying", "verified"} => flow[f].order # NoOrder

(* What a page shows as enrolled was an enrolment at some time since the     *)
(* page was opened: no answer of an older page, and no flow that failed or   *)
(* was cancelled, makes a course look bought (setIsEnrolled, setCourses).    *)
ShownIsOpen == shown \subseteq opened

(* On the page of a course a student pays twice only knowingly: if two flows *)
(* of one visit have both taken money, the first had told him that it failed *)
(* or he had closed its window (the buttons and isEnrolling).                *)
ChargedOnce ==
  \A f, g \in Flow :
    /\ f < g /\ flow[f].from = "course" /\ flow[g].from = "course"
    /\ flow[f].mount = flow[g].mount
    /\ {flow[f].order, flow[g].order} \subseteq paid
    => flow[f].step \in {"failed", "cancelled"}
=============================================================================
