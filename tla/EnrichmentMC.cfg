SPECIFICATION FairSpec
CONSTANTS
  p1 = p1
  p2 = p2
  c1 = c1
  c2 = c2
  Procs <- MCProcs
  Readable <- MCReadable
  Elusive <- MCElusive
  Conns <- MCConns
  Late <- MCLate
  Mortal <- MCMortal
  Owner <- MCOwner
  BusCapacity = 2
  Capacity = 1
  MaxDeferred = 1
  MaxPerProcess = 1
  None = None
INVARIANTS
  QueuesAgree
  NoStrandedFacts
PROPERTIES
  JudgedWithSignature
  ParkedIsReleased
