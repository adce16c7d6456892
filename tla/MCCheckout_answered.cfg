SPECIFICATION Spec
CONSTANTS
  Buyer = {b1}
  Order = {o1}
  Worker = {w1, w2}
  NoBuyer = NoBuyer
  NoOrder = NoOrder
  Listed = 1
  Price = 1
  Reported = {1}
  Subscribed = {"payment.captured"}
  Writers = {}
  MaxFailed = 0
  MaxRefund = 0
  MaxCrash = 0
INVARIANT AnsweredIsProcessed
