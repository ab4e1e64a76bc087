\* One program of each kind, the base module and both tenant modules.
CONSTANTS
  client = client
  zero_copy = zero_copy
  stream = stream
  cat = cat
  net_filter = net_filter
  block_filter = block_filter
  Clients = {client}
  ZeroCopies = {zero_copy}
  Streams = {stream}
  Cats = {cat}
  Tenants = {net_filter, block_filter}
SPECIFICATION FairSpec
INVARIANTS TypeOK NothingLeft UsersHavePage ReleasedOnReturn
PROPERTY CatTerminates
