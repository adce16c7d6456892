SPECIFICATION Spec
CONSTANTS
  Buyer = {b1}
  Order = {o1}
  Worker = {w1, w2}
  NoBuyer = NoBuyer
  NoOrder = NoOrder
  Listed = 2
  Price = 2
  Reported = {2}
  Subscribed = {"payment.captured", "payment.failed", "refund.created", "refund.processed"}
  Writers = {}
  MaxFailed = 1
  MaxRefund = 2
  MaxCrash = 0
SYMMETRY Symmetry
INVARIANT RefundIsBacked
PROPERTY ChangesAreLogged
