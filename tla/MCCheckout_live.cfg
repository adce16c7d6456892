SPECIFICATION FairSpec
CONSTANTS
  Buyer = {b1}
  Order = {o1}
  Worker = {w1, w2}
  NoBuyer = NoBuyer
  NoOrder = NoOrder
  Listed = 2
  Price = 1
  Reported = {1}
  Subscribed = {"payment.captured", "payment.failed", "order.paid", "refund.created"}
  Writers = {}
  MaxFailed = 1
  MaxRefund = 1
  MaxCrash = 0
PROPERTY PaidIsEnrolled
PROPERTY RefundIsRecorded
PROPERTY RetriesStop
