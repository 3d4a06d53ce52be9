\* Connections are let in, fail, fall silent and send too much while work is
\* set and broadcast; the table has room for one client.
SPECIFICATION ServerSpec
CONSTANTS
  acceptor = acceptor  owner = owner  h1 = h1  h2 = h2  ip = ip
  Tasks = {acceptor, owner, h1, h2}
  None = None
  Acceptor = acceptor
  Owner = owner
  Addresses = {ip}
  MaxClients = 1
  MaxPerIp = 1
  RateLimit = 1
  MaxConnections = 3
  MaxClientShares = 1
INVARIANTS ClientsBounded
SYMMETRY HandlersSymmetric
CHECK_DEADLOCK FALSE
