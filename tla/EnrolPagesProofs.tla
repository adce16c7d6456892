-------------------------- MODULE EnrolPagesProofs --------------------------
(***************************************************************************)
(* What the pages show as enrolled, proved for every set of courses and      *)
(* orders and every bound.                                                   *)
(***************************************************************************)
EXTENDS EnrolPages, TLAPS

\* A paid order is for a course.
PaidOK == \A o \in paid : buyer[o] \in Course

\* A flow that took an order still names it, and the order is for its course;
\* a flow without an order is that of a free course.
FlowOK ==
  \A f \in Flow :
    /\ flow[f].mount <= mount
    /\ flow[f].step # "none" => flow[f].course \in Course
    /\ flow[f].step \in {"joining", "joined", "rejoining", "rejoined"} => flow[f].course \in Free
    /\ flow[f].step \in {"ordered", "loading", "hung", "window", "verifying", "verified",
                        "cancelled"} =>
         flow[f].order \in Order /\ buyer[flow[f].order] = flow[f].course

\* Whatever a page may still come to show was open since it was opened: what
\* it fetched, what is enrolled now, the courses of its flows that succeeded.
OpenedOK ==
  /\ Enrolled \subseteq opened
  /\ answer \subseteq opened
  /\ \A f \in Flow :
       flow[f].step \in {"joined", "rejoined", "verified"} /\ OnScreen(f) =>
         flow[f].course \in opened

IndInv == TypeOK /\ PaidOK /\ FlowOK /\ OpenedOK /\ ShownIsOpen

-----------------------------------------------------------------------------
(* How flows and enrolments change.                                          *)

ClickRecord == [step : Step, course : Course \cup {NoCourse}, mount : 0 .. MaxMount,
                from : {"explore", "course"}, order : Order \cup {NoOrder}]

\* Faults are counted up to their bound.
LEMMA FaultBounded ==
  ASSUME TypeOK, Fault
  PROVE  faults' \in 0 .. MaxFault
BY EnrolPagesAssumption, SMT DEF TypeOK, Fault

\* To moves one flow by its step only.
LEMMA ToMoves ==
  ASSUME TypeOK, NEW f \in Flow, NEW step \in Step, To(f, step)
  PROVE  /\ flow' \in [Flow -> ClickRecord]
         /\ flow'[f].step = step
         /\ \A g \in Flow : g # f => flow'[g].step = flow[g].step
         /\ \A g \in Flow : /\ flow'[g].course = flow[g].course
                            /\ flow'[g].mount = flow[g].mount
                            /\ flow'[g].from = flow[g].from
                            /\ flow'[g].order = flow[g].order
<1>1. flow \in [Flow -> ClickRecord]
  BY DEF TypeOK, ClickRecord
<1>2. flow' = [flow EXCEPT ![f].step = step]
  BY DEF To
<1>3. flow[f] \in ClickRecord
  BY <1>1
<1>4. [flow[f] EXCEPT !.step = step] \in ClickRecord
  BY <1>3 DEF ClickRecord
<1>5. flow' \in [Flow -> ClickRecord]
  BY <1>1, <1>2, <1>4
<1>6. flow'[f] = [flow[f] EXCEPT !.step = step]
  BY <1>1, <1>2
<1>7. \A g \in Flow : g # f => flow'[g] = flow[g]
  BY <1>1, <1>2
<1> QED
  BY <1>3, <1>5, <1>6, <1>7 DEF ClickRecord

\* Opening a course by an order enrols in the course of that order only.
LEMMA OpenEnrols ==
  ASSUME TypeOK, NEW o \in Order, Backend!Open(o), UNCHANGED joined
  PROVE  /\ Enrolled' \subseteq Enrolled \cup {buyer[o]}
         /\ access' \in [Course -> Order \cup {NoOrder}]
BY DEF TypeOK, Enrolled, Backend!Open

-----------------------------------------------------------------------------
(* The server's own steps.                                                   *)

\* An enrolment by the webhook is counted as opened; one that ends only shrinks.
LEMMA ServerStep ==
  ASSUME IndInv,
         (\E o \in Order : Webhook(o)) \/ (\E c \in Course : Ends(c))
  PROVE  IndInv'
<1>1. CASE \E o \in Order : Webhook(o)
  <2>1. PICK o \in Order : Webhook(o)
    BY <1>1
  <2>2. /\ Backend!Open(o) /\ UNCHANGED <<buyer, paid, joined, page, sdk, flow, faults>>
        /\ opened' = opened \cup {buyer[o]} /\ buyer[o] \notin Enrolled
    BY <2>1 DEF Webhook, Opens, Backend!Open
  <2>3. /\ Enrolled' \subseteq Enrolled \cup {buyer[o]}
        /\ access' \in [Course -> Order \cup {NoOrder}]
    BY <2>2, OpenEnrols DEF IndInv
  <2>4. opened' \subseteq Course
    BY <2>2 DEF IndInv, TypeOK, PaidOK, Backend!Open
  <2> QED
    BY <2>2, <2>3, <2>4 DEF IndInv, TypeOK, PaidOK, FlowOK, OpenedOK, ShownIsOpen, OnScreen, page
<1>2. CASE \E c \in Course : Ends(c)
  <2>1. PICK c \in Course : Ends(c)
    BY <1>2
  <2>2. /\ joined' = joined \ {c} /\ access' = [access EXCEPT ![c] = NoOrder]
        /\ UNCHANGED <<buyer, paid, page, sdk, flow, opened, faults>>
    BY <2>1 DEF Ends, Backend!End
  <2>3. Enrolled' \subseteq Enrolled /\ access' \in [Course -> Order \cup {NoOrder}]
    BY <2>2 DEF IndInv, TypeOK, Enrolled
  <2> QED
    BY <2>2, <2>3 DEF IndInv, TypeOK, PaidOK, FlowOK, OpenedOK, ShownIsOpen, OnScreen, page
<1> QED
  BY <1>1, <1>2
-----------------------------------------------------------------------------
(* Pages.                                                                    *)

\* A page that is opened shows nothing yet, and no flow is its own.
LEMMA MountsPage ==
  ASSUME IndInv, NEW p \in Page, Mounts(p), UNCHANGED server,
         sdk' \in {"absent", "loading", "loaded", "broken"},
         flow' \in [Flow -> ClickRecord],
         \A f \in Flow : /\ flow'[f].step \in {flow[f].step, "gone"}
                         /\ flow'[f].step = "none" <=> flow[f].step = "none"
                         /\ flow'[f].course = flow[f].course
                         /\ flow'[f].mount = flow[f].mount
                         /\ flow'[f].order = flow[f].order,
         UNCHANGED faults
  PROVE  IndInv'
<1>1. /\ mount \in Nat /\ mount' = mount + 1 /\ mount' \in 0 .. MaxMount
      /\ view' \in Page /\ load' \in {"catalogue", "detail"}
      /\ answer' = {} /\ shown' = {} /\ busy' = NoCourse /\ opened' = Enrolled
  BY EnrolPagesAssumption DEF IndInv, TypeOK, Mounts
<1>2. Enrolled \subseteq Course /\ Enrolled' = Enrolled
  BY EnrolPagesAssumption DEF IndInv, TypeOK, Enrolled, server
<1>3. \A f \in Flow : flow[f].mount \in Nat /\ flow[f].mount <= mount
  BY DEF IndInv, TypeOK, FlowOK
<1>4. \A f \in Flow : flow'[f].mount <= mount' /\ flow'[f].mount # mount'
  <2>1. \A m, n \in Nat : m <= n => m <= n + 1 /\ m # n + 1
    OBVIOUS
  <2> QED
    BY <1>1, <1>3, <2>1
<1>5. TypeOK'
  <2>1. \A f \in Flow : flow'[f].step \in {"window", "verifying", "verified"} =>
                         flow'[f].order # NoOrder
    BY DEF IndInv, TypeOK
  <2> QED
    BY <1>1, <1>2, <2>1 DEF IndInv, TypeOK, server, ClickRecord
<1>6. PaidOK' /\ FlowOK'
  <2>1. buyer' = buyer /\ paid' = paid
    BY DEF server
  <2> QED
    BY <1>4, <2>1, Zenon DEF IndInv, PaidOK, FlowOK
<1>7. OpenedOK' /\ ShownIsOpen'
  BY <1>1, <1>2, <1>4 DEF OpenedOK, ShownIsOpen, OnScreen
<1> QED
  BY <1>5, <1>6, <1>7 DEF IndInv

\* Opening a page, or the same one again, leaves no flow of it under way.
LEMMA OpeningStep ==
  ASSUME IndInv, Reload \/ \E p \in Page : Navigate(p)
  PROVE  IndInv'
<1>1. CASE \E p \in Page : Navigate(p)
  BY <1>1, MountsPage DEF Navigate, IndInv, TypeOK, ClickRecord
<1>2. CASE Reload
  <2>1. /\ view \in Page /\ Mounts(view) /\ sdk' = "absent" /\ UNCHANGED <<server, faults>>
    BY <1>2 DEF Reload, IndInv, TypeOK
  <2>2. flow' = [f \in Flow |-> IF flow[f].step \in {"none", "enrolled", "failed", "cancelled"}
                               THEN flow[f] ELSE [flow[f] EXCEPT !.step = "gone"]]
    BY <1>2 DEF Reload
  <2>3. \A f \in Flow : flow[f] \in ClickRecord
    BY DEF IndInv, TypeOK, ClickRecord
  <2>4. \A f \in Flow : [flow[f] EXCEPT !.step = "gone"] \in ClickRecord
    BY <2>3 DEF ClickRecord, Step
  <2>5. flow' \in [Flow -> ClickRecord]
    BY <2>2, <2>3, <2>4
  <2>6. \A f \in Flow : \/ flow'[f] = flow[f]
                        \/ /\ flow'[f] = [flow[f] EXCEPT !.step = "gone"]
                           /\ flow[f].step # "none"
    BY <2>2
  <2>7. \A f \in Flow : /\ flow'[f].step \in {flow[f].step, "gone"}
                        /\ flow'[f].step = "none" <=> flow[f].step = "none"
                        /\ flow'[f].course = flow[f].course
                        /\ flow'[f].mount = flow[f].mount
                        /\ flow'[f].order = flow[f].order
    BY <2>3, <2>6 DEF ClickRecord
  <2> QED
    BY <2>1, <2>5, <2>7, MountsPage
<1> QED
  BY <1>1, <1>2

\* The answers of a page's own requests.
LEMMA FetchStep ==
  ASSUME IndInv, ReadDetail \/ ReadCatalogue \/ Displays
  PROVE  IndInv'
<1>1. CASE ReadDetail \/ ReadCatalogue
  <2>1. /\ UNCHANGED <<server, view, mount, shown, busy, sdk, flow, opened>>
        /\ load' \in {"read", "catalogue", "error"}
        /\ answer' \subseteq Enrolled
        /\ faults' \in 0 .. MaxFault
    BY <1>1, FaultBounded DEF ReadDetail, ReadCatalogue, Loads, IndInv, TypeOK
  <2>2. Enrolled' = Enrolled /\ Enrolled \subseteq Course
    BY <2>1, EnrolPagesAssumption DEF Enrolled, server, IndInv, TypeOK
  <2> QED
    BY <2>1, <2>2
    DEF IndInv, TypeOK, PaidOK, FlowOK, OpenedOK, ShownIsOpen, OnScreen, server
<1>2. CASE Displays
  <2>1. /\ UNCHANGED <<server, view, mount, answer, busy, sdk, flow, opened, faults>>
        /\ load' = "ready" /\ shown' \subseteq answer
    BY <1>2 DEF Displays
  <2>2. Enrolled' = Enrolled
    BY <2>1 DEF Enrolled, server
  <2> QED
    BY <2>1, <2>2
    DEF IndInv, TypeOK, PaidOK, FlowOK, OpenedOK, ShownIsOpen, OnScreen, server
<1> QED
  BY <1>1, <1>2

-----------------------------------------------------------------------------
(* Flows.                                                                    *)

\* A step that moves one flow only: what the new step asks of the flow, and
\* what else may have changed, is enough.
LEMMA MoveStep ==
  ASSUME IndInv, NEW f \in Flow, NEW step \in Step, To(f, step),
         step # "none" => flow[f].course \in Course,
         step \in {"joining", "joined", "rejoining", "rejoined"} => flow[f].course \in Free,
         step \in {"ordered", "loading", "hung", "window", "verifying", "verified",
                   "cancelled"} =>
           flow[f].order \in Order /\ buyer[flow[f].order] = flow[f].course,
         step \in {"joined", "rejoined", "verified"} /\ OnScreen(f) =>
           flow[f].course \in opened',
         UNCHANGED <<buyer, paid, view, mount, load, answer>>,
         access' \in [Course -> Order \cup {NoOrder}], joined' \subseteq Free,
         opened \subseteq opened', opened' \subseteq Course,
         Enrolled' \subseteq opened', shown' \subseteq opened',
         busy' \in Course \cup {NoCourse},
         sdk' \in {"absent", "loading", "loaded", "broken"}, faults' \in 0 .. MaxFault
  PROVE  IndInv'
<1>1. /\ flow' \in [Flow -> ClickRecord]
      /\ flow'[f].step = step
      /\ \A g \in Flow : g # f => flow'[g].step = flow[g].step
      /\ \A g \in Flow : /\ flow'[g].course = flow[g].course
                         /\ flow'[g].mount = flow[g].mount
                         /\ flow'[g].from = flow[g].from
                         /\ flow'[g].order = flow[g].order
  BY ToMoves DEF IndInv
<1>2. PaidOK'
  BY DEF IndInv, PaidOK
<1>3. FlowOK'
  <2> SUFFICES ASSUME NEW g \in Flow
               PROVE  /\ flow'[g].mount <= mount'
                      /\ flow'[g].step # "none" => flow'[g].course \in Course
                      /\ flow'[g].step \in {"joining", "joined", "rejoining", "rejoined"} =>
                           flow'[g].course \in Free
                      /\ flow'[g].step \in {"ordered", "loading", "hung", "window",
                                            "verifying", "verified", "cancelled"} =>
                           /\ flow'[g].order \in Order
                           /\ buyer'[flow'[g].order] = flow'[g].course
    BY DEF FlowOK
  <2>1. CASE g = f
    BY <1>1, <2>1 DEF IndInv, FlowOK
  <2>2. CASE g # f
    BY <1>1, <2>2 DEF IndInv, FlowOK
  <2> QED
    BY <2>1, <2>2
<1>4. TypeOK'
  <2>1. \A g \in Flow : flow'[g].step \in {"window", "verifying", "verified"} =>
                          flow'[g].order # NoOrder
    BY <1>3, EnrolPagesAssumption DEF FlowOK
  <2> QED
    BY <1>1, <2>1 DEF IndInv, TypeOK, ClickRecord
<1>5. OpenedOK'
  <2>1. \A g \in Flow : flow'[g].step \in {"joined", "rejoined", "verified"} /\ OnScreen(g)' =>
                          flow'[g].course \in opened'
    <3> SUFFICES ASSUME NEW g \in Flow,
                        flow'[g].step \in {"joined", "rejoined", "verified"}, OnScreen(g)'
                 PROVE  flow'[g].course \in opened'
      OBVIOUS
    <3>1. OnScreen(g) /\ flow'[g].course = flow[g].course
      BY <1>1 DEF OnScreen
    <3>2. CASE g = f
      BY <1>1, <3>1, <3>2
    <3>3. CASE g # f
      BY <1>1, <3>1, <3>3 DEF IndInv, OpenedOK
    <3> QED
      BY <3>2, <3>3
  <2> QED
    BY <2>1 DEF IndInv, OpenedOK
<1> QED
  BY <1>2, <1>3, <1>4, <1>5 DEF IndInv, ShownIsOpen

\* A flow that fails, or is dismissed, shows nothing new.
LEMMA EndsBadly ==
  ASSUME IndInv, NEW f \in Flow, NEW how \in {"failed", "cancelled"}, Ended(f, how),
         flow[f].step # "none", how = "cancelled" => flow[f].step = "window",
         UNCHANGED <<server, sdk, opened>>,
         faults' \in 0 .. MaxFault
  PROVE  IndInv'
<1>1. /\ To(f, how) /\ how \in Step /\ UNCHANGED <<view, mount, load, answer>>
      /\ busy' \in {busy, NoCourse} /\ shown' = shown
  BY DEF Ended, Step
<1>2. Enrolled' = Enrolled
  BY DEF Enrolled, server
<1>3. /\ flow[f].course \in Course
      /\ how = "cancelled" =>
           flow[f].order \in Order /\ buyer[flow[f].order] = flow[f].course
  BY DEF IndInv, FlowOK
<1> QED
  BY <1>1, <1>2, <1>3, MoveStep DEF IndInv, TypeOK, OpenedOK, ShownIsOpen, server

\* A click makes a flow of the page on screen.
LEMMA ClickStep ==
  ASSUME IndInv, NEW f \in Flow, NEW c \in Course, Click(f, c)
  PROVE  IndInv'
<1>1. /\ flow' = [flow EXCEPT ![f] = [step |-> FirstStep(c), course |-> c, mount |-> mount,
                                      from |-> view.at, order |-> NoOrder]]
      /\ busy' = c
      /\ UNCHANGED <<buyer, paid, access, joined, view, mount, load, answer, shown, sdk,
                     opened, faults>>
  BY DEF Click, server
<1>2. /\ FirstStep(c) \in {"joining", "ordering"}
      /\ FirstStep(c) = "joining" => c \in Free
  BY DEF FirstStep
<1>3. view.at \in {"explore", "course"}
  BY DEF IndInv, TypeOK, Page, Catalogue
<1>4. /\ flow'[f].step = FirstStep(c) /\ flow'[f].course = c /\ flow'[f].mount = mount
      /\ \A g \in Flow : g # f => flow'[g] = flow[g]
  BY <1>1 DEF IndInv, TypeOK
<1>5. flow' \in [Flow -> ClickRecord]
  BY <1>1, <1>2, <1>3 DEF IndInv, TypeOK, ClickRecord, Step
<1>6. FlowOK'
  <2> SUFFICES ASSUME NEW g \in Flow
               PROVE  /\ flow'[g].mount <= mount'
                      /\ flow'[g].step # "none" => flow'[g].course \in Course
                      /\ flow'[g].step \in {"joining", "joined", "rejoining", "rejoined"} =>
                           flow'[g].course \in Free
                      /\ flow'[g].step \in {"ordered", "loading", "hung", "window",
                                            "verifying", "verified", "cancelled"} =>
                           /\ flow'[g].order \in Order
                           /\ buyer'[flow'[g].order] = flow'[g].course
    BY DEF FlowOK
  <2>1. CASE g = f
    BY <1>1, <1>2, <1>4, <2>1 DEF IndInv, TypeOK
  <2>2. CASE g # f
    BY <1>1, <1>4, <2>2 DEF IndInv, FlowOK
  <2> QED
    BY <2>1, <2>2
<1>7. TypeOK'
  <2>1. \A g \in Flow : flow'[g].step \in {"window", "verifying", "verified"} =>
                          flow'[g].order # NoOrder
    BY <1>6, EnrolPagesAssumption DEF FlowOK
  <2> QED
    BY <1>1, <1>5, <2>1 DEF IndInv, TypeOK, ClickRecord
<1>8. OpenedOK'
  <2>1. Enrolled' = Enrolled
    BY <1>1 DEF Enrolled
  <2>2. \A g \in Flow : flow'[g].step \in {"joined", "rejoined", "verified"} =>
                          flow'[g] = flow[g]
    BY <1>2, <1>4
  <2> QED
    BY <1>1, <2>1, <2>2 DEF IndInv, OpenedOK, OnScreen
<1> QED
  BY <1>1, <1>6, <1>7, <1>8 DEF IndInv, PaidOK, ShownIsOpen

\* The answer of create-order: the order is for the course of its flow.
LEMMA OrderStep ==
  ASSUME IndInv, NEW f \in Flow, NEW o \in Order, Orders(f, o)
  PROVE  IndInv'
<1>1. /\ flow' = [flow EXCEPT ![f].step = "ordered", ![f].order = o]
      /\ flow[f].step = "ordering"
      /\ buyer[o] = NoCourse /\ buyer' = [buyer EXCEPT ![o] = flow[f].course]
      /\ UNCHANGED <<paid, access, joined, view, mount, load, answer, shown, busy, sdk,
                     opened, faults>>
  BY DEF Orders, Backend!Place, page
<1>2. flow[f] \in ClickRecord /\ flow[f].course \in Course /\ flow[f].mount <= mount
  BY <1>1 DEF IndInv, TypeOK, FlowOK, ClickRecord
<1>3. /\ flow'[f] = [flow[f] EXCEPT !.step = "ordered", !.order = o]
      /\ \A g \in Flow : g # f => flow'[g] = flow[g]
  BY <1>1 DEF IndInv, TypeOK
<1>4. /\ flow'[f] \in ClickRecord
      /\ flow'[f].step = "ordered" /\ flow'[f].order = o
      /\ flow'[f].course = flow[f].course /\ flow'[f].mount = flow[f].mount
  BY <1>2, <1>3 DEF ClickRecord, Step
<1>5. flow' \in [Flow -> ClickRecord]
  BY <1>1, <1>3, <1>4 DEF IndInv, TypeOK, ClickRecord
<1>6. buyer' \in [Order -> Course \cup {NoCourse}]
  BY <1>1, <1>2 DEF IndInv, TypeOK
<1>7. PaidOK'
  BY <1>1, EnrolPagesAssumption DEF IndInv, TypeOK, PaidOK
<1>8. FlowOK'
  <2> SUFFICES ASSUME NEW g \in Flow
               PROVE  /\ flow'[g].mount <= mount'
                      /\ flow'[g].step # "none" => flow'[g].course \in Course
                      /\ flow'[g].step \in {"joining", "joined", "rejoining", "rejoined"} =>
                           flow'[g].course \in Free
                      /\ flow'[g].step \in {"ordered", "loading", "hung", "window",
                                            "verifying", "verified", "cancelled"} =>
                           /\ flow'[g].order \in Order
                           /\ buyer'[flow'[g].order] = flow'[g].course
    BY DEF FlowOK
  <2>1. CASE g = f
    BY <1>1, <1>2, <1>4, <2>1 DEF IndInv, TypeOK
  <2>2. CASE g # f
    <3>1. flow[g].step \in {"ordered", "loading", "hung", "window", "verifying", "verified",
                            "cancelled"} =>
            flow[g].order # o
      BY <1>1, EnrolPagesAssumption DEF IndInv, FlowOK
    <3> QED
      BY <1>1, <1>3, <2>2, <3>1 DEF IndInv, FlowOK, TypeOK
  <2> QED
    BY <2>1, <2>2
<1>9. TypeOK'
  <2>1. \A g \in Flow : flow'[g].step \in {"window", "verifying", "verified"} =>
                          flow'[g].order # NoOrder
    BY <1>8, EnrolPagesAssumption DEF FlowOK
  <2> QED
    BY <1>1, <1>5, <1>6, <2>1 DEF IndInv, TypeOK, ClickRecord
<1>10. OpenedOK' /\ ShownIsOpen'
  <2>1. Enrolled' = Enrolled
    BY <1>1 DEF Enrolled
  <2>2. \A g \in Flow : flow'[g].step \in {"joined", "rejoined", "verified"} =>
                          flow'[g] = flow[g]
    BY <1>3, <1>4
  <2>3. \A g \in Flow : flow'[g].step \in {"joined", "rejoined", "verified"} /\ OnScreen(g)' =>
                          flow'[g].course \in opened'
    <3> SUFFICES ASSUME NEW g \in Flow, flow'[g].mount = mount',
                        flow'[g].step \in {"joined", "rejoined", "verified"}
                 PROVE  flow'[g].course \in opened'
      BY DEF OnScreen
    <3>1. flow'[g] = flow[g]
      BY <2>2
    <3>2. flow[g].mount = mount /\ flow[g].step \in {"joined", "rejoined", "verified"}
      BY <1>1, <3>1
    <3>3. flow[g].course \in opened
      BY <3>2 DEF IndInv, OpenedOK, OnScreen
    <3> QED
      BY <1>1, <3>1, <3>3
  <2>4. Enrolled' \subseteq opened' /\ answer' \subseteq opened' /\ shown' \subseteq opened'
    BY <1>1, <2>1 DEF IndInv, OpenedOK, ShownIsOpen
  <2> QED
    BY <2>3, <2>4 DEF OpenedOK, ShownIsOpen
<1> QED
  BY <1>7, <1>8, <1>9, <1>10 DEF IndInv

\* A free course.
LEMMA JoiningStep ==
  ASSUME IndInv, NEW f \in Flow, Joins(f) \/ JoinFails(f)
  PROVE  IndInv'
<1>1. CASE Joins(f)
  <2> DEFINE step == IF flow[f].step = "joining" THEN "joined" ELSE "rejoined"
  <2>1. /\ flow[f].step \in {"joining", "rejoining"}
        /\ joined' \subseteq joined \cup {flow[f].course}
        /\ To(f, step) /\ opened' = opened \cup {flow[f].course}
        /\ UNCHANGED <<buyer, paid, access, page, sdk, faults>>
    BY <1>1 DEF Joins, Opens
  <2>2. flow[f].course \in Free /\ flow[f].course \in Course
    BY <2>1 DEF IndInv, FlowOK
  <2>3. Enrolled' \subseteq Enrolled \cup {flow[f].course}
    BY <2>1 DEF Enrolled
  <2>4. step \in {"joined", "rejoined"} /\ step \in Step
    BY DEF Step
  <2> HIDE DEF step
  <2> QED
    BY <2>1, <2>2, <2>3, <2>4, MoveStep DEF IndInv, TypeOK, OpenedOK, ShownIsOpen, page
<1>2. CASE JoinFails(f)
  <2>1. /\ flow[f].step \in {"joining", "joined", "rejoining", "rejoined"}
        /\ faults' \in 0 .. MaxFault
    BY <1>2, FaultBounded DEF JoinFails, IndInv, TypeOK
  <2>2. CASE To(f, "rejoining") /\ UNCHANGED <<server, page, sdk, opened>>
    <3>1. flow[f].course \in Course /\ flow[f].course \in Free
      BY <2>1 DEF IndInv, FlowOK
    <3>2. Enrolled' = Enrolled /\ "rejoining" \in Step
      BY <2>2 DEF Enrolled, server, Step
    <3> QED
      BY <2>1, <2>2, <3>1, <3>2, MoveStep
      DEF IndInv, TypeOK, OpenedOK, ShownIsOpen, server, page
  <2>3. CASE Fails(f)
    BY <2>1, <2>3, EndsBadly DEF Fails
  <2> QED
    BY <1>2, <2>2, <2>3 DEF JoinFails
<1> QED
  BY <1>1, <1>2

\* The script and the window.
LEMMA CheckoutStep ==
  ASSUME IndInv, NEW f \in Flow,
         \/ OpensCheckout(f) \/ ScriptAnswers \/ Pays(f) \/ Paid(f)
         \/ Dismissed(f) \/ OrderFails(f)
  PROVE  IndInv'
<1>1. CASE OpensCheckout(f) \/ ScriptAnswers \/ Paid(f)
  <2>1. PICK g \in Flow, step \in {"loading", "window", "hung", "verifying"} :
          /\ flow[g].step \in {"ordered", "loading", "window"} /\ To(g, step)
          /\ sdk' \in {"absent", "loading", "loaded", "broken"}
          /\ faults' \in 0 .. MaxFault
          /\ UNCHANGED <<server, page, opened>>
    BY <1>1, FaultBounded DEF OpensCheckout, ScriptAnswers, Paid, IndInv, TypeOK
  <2>2. /\ flow[g].course \in Course
        /\ flow[g].order \in Order /\ buyer[flow[g].order] = flow[g].course
    BY <2>1 DEF IndInv, FlowOK
  <2>3. Enrolled' = Enrolled /\ step \in Step
    BY <2>1 DEF Enrolled, server, Step
  <2> QED
    BY <2>1, <2>2, <2>3, MoveStep
    DEF IndInv, TypeOK, OpenedOK, ShownIsOpen, server, page
<1>2. CASE Pays(f)
  <2>1. /\ Backend!Pay(flow[f].order)
        /\ UNCHANGED <<joined, page, sdk, flow, opened, faults>>
    BY <1>2 DEF Pays
  <2>2. /\ flow[f].course \in Course
        /\ flow[f].order \in Order /\ buyer[flow[f].order] = flow[f].course
    BY <1>2 DEF Pays, IndInv, FlowOK
  <2>3. paid' = paid \cup {flow[f].order} /\ UNCHANGED <<buyer, access>>
    BY <2>1 DEF Backend!Pay
  <2>4. Enrolled' = Enrolled
    BY <2>1, <2>3 DEF Enrolled
  <2> QED
    BY <2>1, <2>2, <2>3, <2>4
    DEF IndInv, TypeOK, PaidOK, FlowOK, OpenedOK, ShownIsOpen, OnScreen, page
<1>3. CASE Dismissed(f) \/ OrderFails(f)
  <2>1. PICK how \in {"failed", "cancelled"} :
          /\ Ended(f, how) /\ flow[f].step # "none"
          /\ how = "cancelled" => flow[f].step = "window"
          /\ UNCHANGED <<server, sdk, opened>> /\ faults' \in 0 .. MaxFault
    BY <1>3, FaultBounded DEF Dismissed, OrderFails, Fails, IndInv, TypeOK
  <2> QED
    BY <2>1, EndsBadly
<1> QED
  BY <1>1, <1>2, <1>3

\* The verification, and what a page does with a success.
LEMMA VerifyingStep ==
  ASSUME IndInv, NEW f \in Flow, Verifies(f) \/ VerifyFails(f) \/ Succeeds(f)
  PROVE  IndInv'
<1>1. CASE Verifies(f)
  <2>1. /\ flow[f].step = "verifying" /\ Backend!Open(flow[f].order)
        /\ opened' = opened \cup {flow[f].course} /\ To(f, "verified")
        /\ UNCHANGED <<joined, page, sdk, faults>>
    BY <1>1 DEF Verifies, Opens
  <2>2. /\ flow[f].course \in Course
        /\ flow[f].order \in Order /\ buyer[flow[f].order] = flow[f].course
    BY <2>1 DEF IndInv, FlowOK
  <2>3. /\ Enrolled' \subseteq Enrolled \cup {flow[f].course}
        /\ access' \in [Course -> Order \cup {NoOrder}]
    BY <2>1, <2>2, OpenEnrols DEF IndInv
  <2>4. UNCHANGED <<buyer, paid>> /\ "verified" \in Step
    BY <2>1 DEF Backend!Open, Step
  <2> QED
    BY <2>1, <2>2, <2>3, <2>4, MoveStep DEF IndInv, TypeOK, OpenedOK, ShownIsOpen, page
<1>2. CASE VerifyFails(f)
  <2>1. /\ flow[f].step \in {"verifying", "verified"} /\ Fails(f)
        /\ faults' \in 0 .. MaxFault
    BY <1>2, FaultBounded DEF VerifyFails, IndInv, TypeOK
  <2> QED
    BY <2>1, EndsBadly DEF Fails
<1>3. CASE Succeeds(f)
  <2>1. /\ flow[f].step \in {"joined", "rejoined", "verified"}
        /\ To(f, "enrolled") /\ busy' \in {busy, NoCourse}
        /\ shown' = IF OnScreen(f) THEN shown \cup {flow[f].course} ELSE shown
        /\ UNCHANGED <<server, view, mount, load, answer, sdk, opened, faults>>
    BY <1>3 DEF Succeeds, Ended
  <2>2. flow[f].course \in Course /\ (OnScreen(f) => flow[f].course \in opened)
    BY <2>1 DEF IndInv, FlowOK, OpenedOK
  <2>3. Enrolled' = Enrolled /\ "enrolled" \in Step
    BY <2>1 DEF Enrolled, server, Step
  <2> QED
    BY <2>1, <2>2, <2>3, MoveStep DEF IndInv, TypeOK, OpenedOK, ShownIsOpen, server
<1> QED
  BY <1>1, <1>2, <1>3

-----------------------------------------------------------------------------
(* The theorems.                                                             *)

\* Nothing is ordered, enrolled or shown at first.
LEMMA Initially == Init => IndInv
<1> SUFFICES ASSUME Init PROVE IndInv
  OBVIOUS
<1>1. Enrolled = {}
  BY DEF Init, Backend!Init, Enrolled
<1>2. NoFlow \in ClickRecord
  BY EnrolPagesAssumption DEF NoFlow, ClickRecord, Step
<1>3. \A f \in Flow : flow[f] = NoFlow
  BY DEF Init
<1>4. TypeOK
  BY <1>2, <1>3, EnrolPagesAssumption
  DEF Init, Backend!Init, TypeOK, ClickRecord, Page, NoFlow
<1> QED
  BY <1>1, <1>3, <1>4
  DEF Init, Backend!Init, IndInv, PaidOK, FlowOK, OpenedOK, ShownIsOpen, NoFlow

\* Every step keeps the invariant: one case per group of actions.
LEMMA Inductive == IndInv /\ [Next]_vars => IndInv'
<1> SUFFICES ASSUME IndInv, [Next]_vars PROVE IndInv'
  OBVIOUS
<1>1. CASE \E f \in Flow : Enrols(f)
  BY <1>1, ClickStep, OrderStep, JoiningStep, CheckoutStep, VerifyingStep DEF Enrols
<1>2. CASE ScriptAnswers
  <2>1. PICK f \in Flow : TRUE
    BY <1>2 DEF ScriptAnswers
  <2> QED
    BY <1>2, <2>1, CheckoutStep
<1>3. CASE ReadDetail \/ ReadCatalogue \/ Displays
  BY <1>3, FetchStep
<1>4. CASE Reload \/ \E p \in Page : Navigate(p)
  BY <1>4, OpeningStep
<1>5. CASE (\E o \in Order : Webhook(o)) \/ (\E c \in Course : Ends(c))
  BY <1>5, ServerStep
<1>6. CASE UNCHANGED vars
  <2>1. Enrolled' = Enrolled
    BY <1>6 DEF vars, server, Enrolled
  <2> QED
    BY <1>6, <2>1
    DEF vars, server, page, IndInv, TypeOK, PaidOK, FlowOK, OpenedOK, ShownIsOpen, OnScreen
<1> QED
  BY <1>1, <1>2, <1>3, <1>4, <1>5, <1>6 DEF Next

\* The strengthened invariant holds of every behaviour.
LEMMA Invariance == Spec => []IndInv
BY Initially, Inductive, PTL DEF Spec

\* The state has its type: in particular the window is open for an order only,
\* and only the free courses are joined without one.
THEOREM TypeCorrect == Spec => []TypeOK
<1>1. IndInv => TypeOK
  BY DEF IndInv
<1> QED
  BY <1>1, Invariance, PTL

\* No page shows a course as enrolled that was not open since the page was
\* opened, whatever flows and fetches of it and of other pages end meanwhile.
THEOREM NothingShownFalsely == Spec => []ShownIsOpen
<1>1. IndInv => ShownIsOpen
  BY DEF IndInv
<1> QED
  BY <1>1, Invariance, PTL

-----------------------------------------------------------------------------
(* Two flows of one visit.                                                   *)

Active == {"joining", "joined", "rejoining", "rejoined", "ordering", "ordered", "loading",
           "hung", "window", "verifying", "verified"}

\* The flows of the page on screen: the course page's button stays disabled
\* while one of them is active, and gone when one has succeeded.
VisitOK ==
  \A f \in Flow : flow[f].step # "none" /\ OnScreen(f) =>
    /\ load = "ready" /\ flow[f].from = view.at /\ flow[f].step # "gone"
    /\ view.at = "course" =>
         /\ flow[f].course = view.course
         /\ flow[f].step \in Active => busy = flow[f].course
         /\ flow[f].step = "enrolled" => flow[f].course \in shown

\* A second flow of a visit began when the first had failed or was cancelled.
OnePerVisit ==
  \A f, g \in Flow :
    /\ f < g /\ flow[f].from = "course" /\ flow[g].from = "course"
    /\ flow[f].mount = flow[g].mount /\ flow[g].step # "none"
    => flow[f].step \in {"failed", "cancelled"}

\* Flows begin in turn, and without an order.
InTurn ==
  /\ \A f, g \in Flow : f < g /\ flow[g].step # "none" => flow[f].step # "none"
  /\ \A f \in Flow : flow[f].step = "none" => flow[f].order = NoOrder

VisitInv == VisitOK /\ OnePerVisit /\ InTurn

\* Nothing a flow of the visit could notice has changed.
LEMMA VisitKept ==
  ASSUME VisitInv, UNCHANGED <<page, flow>>
  PROVE  VisitInv'
  BY DEF VisitInv, VisitOK, OnePerVisit, InTurn, OnScreen, page

\* While a page fetches, no flow is its own.
LEMMA VisitFetched ==
  ASSUME VisitInv, UNCHANGED <<flow, mount>>, load # "ready"
  PROVE  VisitInv'
<1>1. \A f \in Flow : flow[f].step # "none" => ~OnScreen(f)
  BY DEF VisitInv, VisitOK
<1> QED
  BY <1>1 DEF VisitInv, VisitOK, OnePerVisit, InTurn, OnScreen

\* No flow is that of a page just opened, and those that are gone were not
\* the first of two.
LEMMA VisitMounted ==
  ASSUME IndInv, VisitInv, Reload \/ \E p \in Page : Navigate(p)
  PROVE  VisitInv'
<1>1. /\ mount' = mount + 1
      /\ \A f \in Flow : \/ flow'[f] = flow[f]
                         \/ /\ flow'[f] = [flow[f] EXCEPT !.step = "gone"]
                            /\ flow[f].step \in Active \cup {"gone"}
  <2>1. CASE Reload
    <3>1. \A f \in Flow : flow[f].step \in Step
      BY DEF IndInv, TypeOK
    <3>2. \A f \in Flow : \/ flow'[f] = flow[f]
                          \/ /\ flow'[f] = [flow[f] EXCEPT !.step = "gone"]
                             /\ flow[f].step \notin {"none", "enrolled", "failed", "cancelled"}
      BY <2>1 DEF Reload
    <3> QED
      BY <2>1, <3>1, <3>2 DEF Reload, Mounts, Step, Active
  <2>2. CASE \E p \in Page : Navigate(p)
    BY <2>2 DEF Navigate, Mounts
  <2> QED
    BY <2>1, <2>2
<1>2. \A f \in Flow : flow[f] \in ClickRecord
  BY DEF IndInv, TypeOK, ClickRecord
<1>3. \A f \in Flow : /\ flow'[f].mount = flow[f].mount /\ flow'[f].from = flow[f].from
                      /\ flow'[f].order = flow[f].order
                      /\ flow'[f].step = "none" <=> flow[f].step = "none"
                      /\ flow[f].step \in {"failed", "cancelled"} => flow'[f].step = flow[f].step
  BY <1>1, <1>2 DEF ClickRecord, Active
<1>4. \A f \in Flow : flow'[f].mount # mount'
  <2>1. \A f \in Flow : flow[f].mount \in Nat /\ flow[f].mount <= mount /\ mount \in Nat
    BY DEF IndInv, TypeOK, FlowOK
  <2> QED
    BY <1>1, <1>3, <2>1
<1>5. VisitOK'
  BY <1>4 DEF VisitOK, OnScreen
<1>6. OnePerVisit' /\ InTurn'
  BY <1>3 DEF VisitInv, OnePerVisit, InTurn
<1> QED
  BY <1>5, <1>6 DEF VisitInv

\* An active flow moves, and tells its page when it has ended.
LEMMA VisitMoves ==
  ASSUME IndInv, VisitInv, NEW f \in Flow, flow[f].step \in Active,
         flow'[f].step \in Active \cup {"failed", "cancelled", "enrolled"},
         \A g \in Flow : /\ g # f => flow'[g] = flow[g]
                         /\ flow'[g].course = flow[g].course
                         /\ flow'[g].mount = flow[g].mount
                         /\ flow'[g].from = flow[g].from,
         UNCHANGED <<view, mount, load>>,
         ~OnScreen(f) \/ flow'[f].step \in Active => busy' = busy /\ shown' = shown,
         OnScreen(f) /\ flow'[f].step = "enrolled" => flow[f].course \in shown'
  PROVE  VisitInv'
<1>1. f \in Nat /\ \A g \in Flow : g \in Nat
  BY DEF Flow
<1>2. ASSUME NEW g \in Flow, g # f, flow[g].step # "none", flow[f].from = "course",
             flow[g].from = "course", flow[g].mount = flow[f].mount
      PROVE  flow[g].step \in {"failed", "cancelled"}
  <2>1. CASE g < f
    BY <1>2, <2>1 DEF VisitInv, OnePerVisit, Active
  <2>2. CASE f < g
    BY <1>2, <2>2 DEF VisitInv, OnePerVisit, Active
  <2> QED
    BY <1>1, <1>2, <2>1, <2>2
<1>3. VisitOK'
  <2> SUFFICES ASSUME NEW g \in Flow, flow'[g].step # "none", flow'[g].mount = mount'
               PROVE  /\ load' = "ready" /\ flow'[g].from = view'.at /\ flow'[g].step # "gone"
                      /\ view'.at = "course" =>
                           /\ flow'[g].course = view'.course
                           /\ flow'[g].step \in Active => busy' = flow'[g].course
                           /\ flow'[g].step = "enrolled" => flow'[g].course \in shown'
    BY DEF VisitOK, OnScreen
  <2>1. flow[g].step # "none" /\ OnScreen(g)
    BY DEF OnScreen, Active
  <2>2. /\ load = "ready" /\ flow[g].from = view.at /\ flow[g].step # "gone"
        /\ view.at = "course" =>
             /\ flow[g].course = view.course
             /\ flow[g].step \in Active => busy = flow[g].course
             /\ flow[g].step = "enrolled" => flow[g].course \in shown
    BY <2>1 DEF VisitInv, VisitOK
  <2>3. CASE g = f
    BY <2>1, <2>2, <2>3 DEF Active
  <2>4. CASE g # f /\ OnScreen(f)
    <3>1. flow[f].from = view.at /\ flow[f].mount = flow[g].mount
      BY <2>1, <2>4 DEF VisitInv, VisitOK, OnScreen, Active
    <3>2. view.at = "course" => flow[g].step \in {"failed", "cancelled"}
      BY <1>2, <2>1, <2>2, <2>4, <3>1
    <3> QED
      BY <2>2, <2>4, <3>2 DEF Active
  <2>5. CASE g # f /\ ~OnScreen(f)
    BY <2>2, <2>5
  <2> QED
    BY <2>3, <2>4, <2>5
<1>4. OnePerVisit'
  <2> SUFFICES ASSUME NEW g \in Flow, NEW h \in Flow, g < h, flow[g].from = "course",
                      flow[h].from = "course", flow[g].mount = flow[h].mount,
                      flow'[h].step # "none"
               PROVE  flow'[g].step \in {"failed", "cancelled"}
    BY DEF OnePerVisit
  <2>1. flow[h].step # "none"
    BY DEF Active
  <2>2. flow[g].step \in {"failed", "cancelled"}
    BY <2>1 DEF VisitInv, OnePerVisit
  <2> QED
    BY <2>2 DEF Active
<1>5. InTurn'
  BY DEF VisitInv, InTurn, Active
<1> QED
  BY <1>3, <1>4, <1>5 DEF VisitInv

\* The same, for the steps that only move their flow.
LEMMA VisitTo ==
  ASSUME IndInv, VisitInv, NEW f \in Flow, NEW step \in Active, To(f, step),
         flow[f].step \in Active, UNCHANGED page
  PROVE  VisitInv'
<1>1. /\ flow'[f].step = step
      /\ \A g \in Flow : /\ g # f => flow'[g] = flow[g]
                         /\ flow'[g].course = flow[g].course
                         /\ flow'[g].mount = flow[g].mount
                         /\ flow'[g].from = flow[g].from
  <2>1. step \in Step /\ flow \in [Flow -> ClickRecord]
    BY DEF Active, Step, IndInv, TypeOK, ClickRecord
  <2> QED
    BY <2>1, ToMoves DEF IndInv, To
<1>2. UNCHANGED <<view, mount, load>> /\ busy' = busy /\ shown' = shown
  BY DEF page
<1>3. flow'[f].step \in Active /\ flow'[f].step # "enrolled"
  BY <1>1 DEF Active
<1> QED
  BY <1>1, <1>2, <1>3, VisitMoves

\* The same, for the steps that end their flow.
LEMMA VisitEnded ==
  ASSUME IndInv, VisitInv, NEW f \in Flow, NEW how \in {"failed", "cancelled", "enrolled"},
         Ended(f, how), flow[f].step \in Active
  PROVE  VisitInv'
<1>1. /\ flow'[f].step = how
      /\ \A g \in Flow : /\ g # f => flow'[g] = flow[g]
                         /\ flow'[g].course = flow[g].course
                         /\ flow'[g].mount = flow[g].mount
                         /\ flow'[g].from = flow[g].from
  <2>1. how \in Step /\ flow \in [Flow -> ClickRecord] /\ To(f, how)
    BY DEF Step, IndInv, TypeOK, ClickRecord, Ended
  <2> QED
    BY <2>1, ToMoves DEF IndInv, To
<1>2. /\ busy' = IF OnScreen(f) THEN NoCourse ELSE busy
      /\ shown' = IF OnScreen(f) /\ how = "enrolled" THEN shown \cup {flow[f].course} ELSE shown
      /\ UNCHANGED <<view, mount, load>>
  BY DEF Ended
<1>3. how \notin Active
  BY DEF Active
<1> QED
  BY <1>1, <1>2, <1>3, VisitMoves

\* A click: the button was there and enabled.
LEMMA VisitClick ==
  ASSUME IndInv, VisitInv, NEW f \in Flow, NEW c \in Course, Click(f, c)
  PROVE  VisitInv'
<1>1. /\ flow[f].step = "none" /\ \A g \in Flow : g < f => flow[g].step # "none"
      /\ load = "ready" /\ (view = Catalogue \/ view.course = c)
      /\ c \notin shown /\ busy # c /\ busy' = c
      /\ flow' = [flow EXCEPT ![f] = [step |-> FirstStep(c), course |-> c, mount |-> mount,
                                      from |-> view.at, order |-> NoOrder]]
      /\ UNCHANGED <<view, mount, load, shown>>
  BY DEF Click, Disabled, Flow
<1>2. /\ flow'[f].step = FirstStep(c) /\ flow'[f].course = c /\ flow'[f].mount = mount
      /\ flow'[f].from = view.at /\ flow'[f].order = NoOrder
      /\ \A g \in Flow : g # f => flow'[g] = flow[g]
  BY <1>1 DEF IndInv, TypeOK
<1>3. FirstStep(c) \in Active /\ FirstStep(c) \notin {"none", "gone", "enrolled"}
  BY DEF FirstStep, Active
<1>4. view.at = "course" => view.course = c
  BY <1>1 DEF Catalogue
<1>5. f \in Nat /\ \A g \in Flow : g \in Nat
  BY DEF Flow
<1>6. ASSUME NEW g \in Flow, g # f, flow[g].step # "none", flow[g].mount = mount,
             view.at = "course"
      PROVE  flow[g].step \in {"failed", "cancelled"}
  <2>1. /\ flow[g].course = c /\ flow[g].step # "gone"
        /\ flow[g].step \in Active => busy = c
        /\ flow[g].step = "enrolled" => c \in shown
    BY <1>4, <1>6 DEF VisitInv, VisitOK, OnScreen
  <2>2. flow[g].step \in Step
    BY DEF IndInv, TypeOK
  <2> QED
    BY <1>1, <1>6, <2>1, <2>2 DEF Step, Active
<1>7. VisitOK'
  <2> SUFFICES ASSUME NEW g \in Flow, flow'[g].step # "none", flow'[g].mount = mount'
               PROVE  /\ load' = "ready" /\ flow'[g].from = view'.at /\ flow'[g].step # "gone"
                      /\ view'.at = "course" =>
                           /\ flow'[g].course = view'.course
                           /\ flow'[g].step \in Active => busy' = flow'[g].course
                           /\ flow'[g].step = "enrolled" => flow'[g].course \in shown'
    BY DEF VisitOK, OnScreen
  <2>1. CASE g = f
    BY <1>1, <1>2, <1>3, <1>4, <2>1
  <2>2. CASE g # f
    <3>1. flow'[g] = flow[g] /\ flow[g].step # "none" /\ flow[g].mount = mount
      BY <1>1, <1>2, <2>2
    <3>2. /\ flow[g].from = view.at /\ flow[g].step # "gone"
          /\ view.at = "course" => flow[g].course = view.course
      BY <3>1 DEF VisitInv, VisitOK, OnScreen
    <3>3. view.at = "course" => flow[g].step \notin Active \cup {"enrolled"}
      BY <1>6, <2>2, <3>1 DEF Active
    <3> QED
      BY <1>1, <3>1, <3>2, <3>3
  <2> QED
    BY <2>1, <2>2
<1>8. OnePerVisit'
  <2> SUFFICES ASSUME NEW g \in Flow, NEW h \in Flow, g < h, flow'[g].from = "course",
                      flow'[h].from = "course", flow'[g].mount = flow'[h].mount,
                      flow'[h].step # "none"
               PROVE  flow'[g].step \in {"failed", "cancelled"}
    BY DEF OnePerVisit
  <2>1. CASE g = f
    <3>1. h # f /\ flow[h].step # "none"
      BY <1>2, <1>5, <2>1
    <3>2. flow[f].step # "none"
      BY <2>1, <3>1 DEF VisitInv, InTurn
    <3> QED
      BY <1>1, <3>2
  <2>2. CASE h = f
    <3>1. g # f /\ flow[g].step # "none"
      BY <1>1, <1>5, <2>2
    <3>2. flow'[g] = flow[g] /\ flow[g].mount = mount /\ view.at = "course"
      BY <1>2, <2>2, <3>1
    <3> QED
      BY <1>6, <3>1, <3>2
  <2>3. CASE g # f /\ h # f
    BY <1>2, <2>3 DEF VisitInv, OnePerVisit
  <2> QED
    BY <2>1, <2>2, <2>3
<1>9. InTurn'
  <2>1. \A g, h \in Flow : g < h /\ flow'[h].step # "none" => flow'[g].step # "none"
    <3> SUFFICES ASSUME NEW g \in Flow, NEW h \in Flow, g < h, flow'[h].step # "none"
                 PROVE  flow'[g].step # "none"
      OBVIOUS
    <3>1. CASE g = f
      BY <1>2, <1>3, <3>1
    <3>2. CASE g # f /\ h = f
      BY <1>1, <1>2, <3>2
    <3>3. CASE g # f /\ h # f
      BY <1>2, <3>3 DEF VisitInv, InTurn
    <3> QED
      BY <3>1, <3>2, <3>3
  <2>2. \A g \in Flow : flow'[g].step = "none" => flow'[g].order = NoOrder
    BY <1>2 DEF VisitInv, InTurn
  <2> QED
    BY <2>1, <2>2 DEF InTurn
<1> QED
  BY <1>7, <1>8, <1>9 DEF VisitInv

\* The answer of create-order moves its flow.
LEMMA VisitOrders ==
  ASSUME IndInv, VisitInv, NEW f \in Flow, NEW o \in Order, Orders(f, o)
  PROVE  VisitInv'
<1>1. /\ flow' = [flow EXCEPT ![f].step = "ordered", ![f].order = o]
      /\ flow[f].step = "ordering" /\ UNCHANGED page
  BY DEF Orders
<1>2. flow \in [Flow -> ClickRecord]
  BY DEF IndInv, TypeOK, ClickRecord
<1>3. /\ flow'[f] = [flow[f] EXCEPT !.step = "ordered", !.order = o]
      /\ \A g \in Flow : g # f => flow'[g] = flow[g]
  BY <1>1, <1>2
<1>4. /\ flow'[f].step = "ordered" /\ flow'[f].course = flow[f].course
      /\ flow'[f].mount = flow[f].mount /\ flow'[f].from = flow[f].from
  BY <1>2, <1>3 DEF ClickRecord
<1>5. \A g \in Flow : /\ g # f => flow'[g] = flow[g]
                      /\ flow'[g].course = flow[g].course
                      /\ flow'[g].mount = flow[g].mount
                      /\ flow'[g].from = flow[g].from
  BY <1>3, <1>4
<1>6. flow[f].step \in Active /\ flow'[f].step \in Active
  BY <1>1, <1>4 DEF Active
<1> QED
  BY <1>1, <1>5, <1>6, VisitMoves DEF page, Active

\* One case per way a step moves a flow or a page.
LEMMA VisitStep ==
  ASSUME IndInv, VisitInv, [Next]_vars
  PROVE  VisitInv'
<1>1. CASE \E f \in Flow : Enrols(f)
  <2>1. PICK f \in Flow : Enrols(f)
    BY <1>1
  <2>2. CASE \E c \in Course : Click(f, c)
    BY <2>2, VisitClick
  <2>3. CASE \E o \in Order : Orders(f, o)
    BY <2>3, VisitOrders
  <2>4. CASE Pays(f)
    BY <2>4, VisitKept DEF Pays
  <2>5. CASE Fails(f) /\ flow[f].step \in Active
    BY <2>5, VisitEnded DEF Fails
  <2>6. CASE Dismissed(f) \/ Succeeds(f)
    BY <2>6, VisitEnded DEF Dismissed, Succeeds, Active
  <2>7. CASE Joins(f) \/ JoinFails(f)
    <3>1. flow[f].step \in Active
      BY <2>7 DEF Joins, JoinFails, Active
    <3>2. \/ Fails(f)
          \/ (To(f, "joined") \/ To(f, "rejoined") \/ To(f, "rejoining")) /\ UNCHANGED page
      BY <2>7 DEF Joins, JoinFails
    <3>3. {"joined", "rejoined", "rejoining"} \subseteq Active
      BY DEF Active
    <3> QED
      BY <2>5, <3>1, <3>2, <3>3, VisitTo
  <2>8. CASE OrderFails(f) \/ VerifyFails(f)
    BY <2>5, <2>8 DEF OrderFails, VerifyFails, Active
  <2>9. CASE OpensCheckout(f) \/ Paid(f) \/ Verifies(f)
    <3>1. flow[f].step \in Active /\ UNCHANGED page
      BY <2>9 DEF OpensCheckout, Paid, Verifies, Active
    <3>2. To(f, "loading") \/ To(f, "window") \/ To(f, "hung") \/ To(f, "verifying")
            \/ To(f, "verified")
      BY <2>9 DEF OpensCheckout, Paid, Verifies
    <3>3. {"loading", "window", "hung", "verifying", "verified"} \subseteq Active
      BY DEF Active
    <3> QED
      BY <3>1, <3>2, <3>3, VisitTo
  <2> QED
    BY <2>1, <2>2, <2>3, <2>4, <2>6, <2>7, <2>8, <2>9 DEF Enrols
<1>2. CASE ScriptAnswers
  <2>1. PICK f \in Flow : flow[f].step = "loading" /\ (To(f, "window") \/ To(f, "hung"))
    BY <1>2 DEF ScriptAnswers
  <2>2. UNCHANGED page
    BY <1>2 DEF ScriptAnswers
  <2>3. {"loading", "window", "hung"} \subseteq Active
    BY DEF Active
  <2> QED
    BY <2>1, <2>2, <2>3, VisitTo
<1>3. CASE ReadDetail \/ ReadCatalogue \/ Displays
  BY <1>3, VisitFetched DEF ReadDetail, ReadCatalogue, Displays, Loads
<1>4. CASE Reload \/ \E p \in Page : Navigate(p)
  BY <1>4, VisitMounted
<1>5. CASE (\E o \in Order : Webhook(o)) \/ (\E c \in Course : Ends(c)) \/ UNCHANGED vars
  BY <1>5, VisitKept DEF Webhook, Ends, vars
<1> QED
  BY <1>1, <1>2, <1>3, <1>4, <1>5 DEF Next

\* On the page of a course money is taken twice in one visit only if the first
\* flow had failed, or its window was closed: the button is disabled or gone
\* while a flow is active or has succeeded, through every answer and reload.
THEOREM ChargedKnowingly == Spec => []ChargedOnce
<1>1. Init => VisitInv
  <2> SUFFICES ASSUME Init PROVE VisitInv
    OBVIOUS
  <2>1. \A f \in Flow : flow[f] = NoFlow
    BY DEF Init
  <2> QED
    BY <2>1 DEF NoFlow, VisitInv, VisitOK, OnePerVisit, InTurn
<1>2. IndInv /\ VisitInv /\ [Next]_vars => VisitInv'
  BY VisitStep
<1>3. IndInv /\ VisitInv => ChargedOnce
  <2> SUFFICES ASSUME IndInv, VisitInv, NEW f \in Flow, NEW g \in Flow, f < g,
                      flow[f].from = "course", flow[g].from = "course",
                      flow[f].mount = flow[g].mount,
                      {flow[f].order, flow[g].order} \subseteq paid
               PROVE  flow[f].step \in {"failed", "cancelled"}
    BY DEF ChargedOnce
  <2>1. flow[g].order # NoOrder
    BY EnrolPagesAssumption DEF IndInv, TypeOK
  <2> QED
    BY <2>1 DEF VisitInv, OnePerVisit, InTurn
<1> QED
  BY <1>1, <1>2, <1>3, Invariance, PTL DEF Spec

=============================================================================
