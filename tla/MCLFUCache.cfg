CONSTANTS
  a = a
  b = b
  c = c
  old = old
  new = new
  NoSchema = NoSchema
  Keys <- MCKeys
  Schemas <- MCSchemas
  TTLs <- MCTTLs
  Capacities <- MCCapacities
  MaxFreq = 3
SPECIFICATION CacheSpec
INVARIANTS
  StructuresAgree
PROPERTIES
  ImplementsPolicy
CHECK_DEADLOCK FALSE
