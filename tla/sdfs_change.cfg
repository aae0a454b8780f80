CONSTANTS
  s1 = s1
  s2 = s2
  s3 = s3
  f1 = f1
  Servers = {s1, s2, s3}
  Files = {f1}
  Hash <- MCHash
  HASH_SIZE = 4
  Or <- BitOr
  Founding = {s1, s2}
  JoinTime <- MCJoinTime
  Clients = {s2}
  Commands <- OnePut
  REPLICA_COUNT = 2
  READ_CONSISTENCY = 1
  WRITE_CONSISTENCY = 2
  MaxChanges = 1
  MaxErrors = 0
SPECIFICATION Spec
CHECK_DEADLOCK FALSE
INVARIANT Durable
