CONSTANTS
  s1 = s1
  s2 = s2
  s3 = s3
  f1 = f1
  Servers = {s1, s2, s3}
  Files = {f1}
  Hash <- MCHash
  HASH_SIZE = 4
  Or <- BitOr
  Founding = {s1, s2, s3}
  JoinTime <- MCJoinTime
  Clients = {s2}
  Commands <- PutChangeGet
  REPLICA_COUNT = 3
  READ_CONSISTENCY = 2
  WRITE_CONSISTENCY = 2
  MaxChanges = 0
  MaxErrors = 1
SPECIFICATION Spec
CHECK_DEADLOCK FALSE
INVARIANT TypeOK
INVARIANT GetSeesEarlierPuts
INVARIANT DeletedStaysDeleted
