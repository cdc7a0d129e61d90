SPECIFICATION BusFairSpec
CONSTANTS
  Publishers = {p1, p2}
  Subscribers = {"risk", "exec"}
  Kinds = {"signal", "order"}
  Emits <- Chain
  Nothing = Nothing
  Capacity = 2
  MaxEvents = 4
  MaxRebinds = 1
CHECK_DEADLOCK FALSE
INVARIANT PublisherOrder
PROPERTY EventsHandled
