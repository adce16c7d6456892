------------------------------- MODULE Purchase -------------------------------
(***************************************************************************)
(* What the payment module promises, without handlers, webhooks or caches: *)
(* an order belongs to one buyer (a student and a course), is paid at most *)
(* once, and only a paid order opens the course, to its own buyer and      *)
(* while no other order does.  Access ends when the enrolment is deleted.  *)
(***************************************************************************)
CONSTANTS Buyer, Order, NoBuyer, NoOrder

VARIABLES
  buyer,   \* who placed each order, and for which course
  paid,    \* the orders paid for
  access   \* the order by which each buyer is in the course

Init ==
  /\ buyer = [o \in Order |-> NoBuyer]
  /\ paid = {}
  /\ access = [b \in Buyer |-> NoOrder]

Place(o, b) ==
  /\ buyer[o] = NoBuyer
  /\ buyer' = [buyer EXCEPT ![o] = b]
  /\ UNCHANGED <<paid, access>>

Pay(o) ==
  /\ buyer[o] # NoBuyer /\ o \notin paid
  /\ paid' = paid \cup {o}
  /\ UNCHANGED <<buyer, access>>

Open(o) ==
  /\ o \in paid /\ access[buyer[o]] = NoOrder
  /\ access' = [access EXCEPT ![buyer[o]] = o]
  /\ UNCHANGED <<buyer, paid>>

End(b) ==
  /\ access' = [access EXCEPT ![b] = NoOrder]
  /\ UNCHANGED <<buyer, paid>>

Next ==
  \/ \E o \in Order : Pay(o) \/ Open(o) \/ \E b \in Buyer : Place(o, b)
  \/ \E b \in Buyer : End(b)

Spec == Init /\ [][Next]_<<buyer, paid, access>>
===============================================================================
