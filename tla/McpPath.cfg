SPECIFICATION McpSpec
CONSTANTS
  p1 = p1  p2 = p2  bridge = bridge  program = program
  call1 = call1  call2 = call2  big = big  other = other  list = list
  Instances = {p1, p2}
  Clients = {bridge}
  Bridged = {bridge}
  Requests = {call1}
  Kind <- KindOf
  Sender <- SentBy
  Leavers = {bridge}
  NoRequest = NoRequest
  Nobody = Nobody
  MaxStarts = 2
  MaxNesting = 0
CHECK_DEADLOCK FALSE
INVARIANT ListenerReachable
