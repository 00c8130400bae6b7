SPECIFICATION PartsSpec
CONSTANTS
  Chunk = 3
  FirstCap = 2
  Addrs = {1, 2, 3, 4}
  Caps = {1, 2}
  Lengths = {1, 3, 4, 7}
  Files = {"shown", "other"}
  Shown = "shown"
  MaxItems = 4
  MaxRows = 3
  MaxSet = 2
  SizeMax = 15
  LengthMax = 7
  Buffer = 4
  Keys = {k1, k2, k3}
  Values = {v1, v2}
  Buckets <- MCBuckets
  Hash <- MCHash
  MaxEntries = 4
  k1 = k1
  k2 = k2
  k3 = k3
  Word = 2
  Page = 4
  Capacity = 10
  Root = root
  Scratches = {s1, s2}
  Sizes = {0, 1, 3, 5}
  MaxBlocks = 3
INVARIANTS
  LookupFinds
  NumbersHold
  AddressRight
  RegistersAgree
  SliceReads
  HashTypeOK
  FullOnlyByRemovals
  ArenaTypeOK
  NoOverlap
  ScratchesApart
PROPERTIES
  InsertsUnder
  IsDictionary
CHECK_DEADLOCK FALSE
