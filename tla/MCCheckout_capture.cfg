SPECIFICATION Spec
CONSTANTS
  Buyer = {b1}
  Order = {o1, o2}
  Worker = {w1, w2}
  NoBuyer = NoBuyer
  NoOrder = NoOrder
  Listed = 1
  Price = 1
  Reported = {0, 1}
  Subscribed = {"payment.captured"}
  Writers = {"time", "student", "teacher"}
  MaxFailed = 0
  MaxRefund = 0
  MaxCrash = 1
SYMMETRY Symmetry
INVARIANT TypeOK
INVARIANT EnrolledIsPaid
INVARIANT BooksFollowRazorpay
INVARIANT HandledOnce
PROPERTY CaptureGrants
PROPERTY Purchases
