SPECIFICATION Spec
CONSTANTS
  Publishers = {p1, p2}
  Streams = {s1}
  Buffer = 1
  MaxEvents = 3
  Free = Free
PROPERTIES PublishReturns DeliveredOrEnded
