CONSTANTS
  TableKeys = {"k1", "k2", "k3", "buffer"}
  AddressKeys = {"buffer"}
  TableValues = {"v", "w"}
  Hashes = {3, 7}
  HashOf <- MCHashOf
  MinCapacity = 2
  MaxCapacity = 4
  Spaces = {"core", "user", "lib"}
  CoreSpace = "core"
  UserSpace = "user"
  Symbols = {"x"}
  Sources = {"user", "lib"}
  CoreVars = {"x"}
  Objects = {o1, o2, ext}
  Exts = {ext}
  MAX_AGE = 1
  MAX_REMEMBERED = 1
  MaxStack = 4
  MaxBindings = 2
SPECIFICATION MCSpec
INVARIANTS
  KeysAreFound
  CacheIsFresh
  LoadsSound
  ListsFollowStack
  UnwindSound
  HeapSound
PROPERTIES
  ImplementsOrderedMap
  PrivateStaysOut
  UnwindsArrive
CHECK_DEADLOCK FALSE
