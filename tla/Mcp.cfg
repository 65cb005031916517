SPECIFICATION FairMcpSpec
CONSTANTS
  p1 = p1  p2 = p2  bridge = bridge  program = program
  call1 = call1  call2 = call2  big = big  other = other  list = list
  Instances = {p1}
  Clients = {bridge, program}
  Bridged = {bridge}
  Requests = {call1, call2, big, other, list}
  Kind <- KindOf
  Sender <- SentBy
  Leavers = {bridge}
  NoRequest = NoRequest
  Nobody = Nobody
  MaxStarts = 2
  MaxNesting = 1
CHECK_DEADLOCK FALSE
INVARIANT PendingIsPipeline
PROPERTY RequestSpec
PROPERTY EveryRequestAnswered
