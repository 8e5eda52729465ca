SPECIFICATION Spec
CONSTANTS
  Handles = {h1}
  Roots = {before, after, other}
  VaultOf <- MCVaultOf
  EpochsOf <- MCEpochsOf
  ActiveOf <- MCActiveOf
  Locked = locked
  Slots = {own, catalog}
  CatalogSlot <- MCCatalogSlot
  Codecs = {codec, unregistered}
  Registered = {codec}
  Native = native
  Leaves = {l1}
  Required = {{e1}, {e2}, {e1, e2}}
  Locators = {d1}
  MaxLocators = 2
  d1 = d1
  MaxPackages = 2
  MaxCalls = 2
  h1 = h1
  before = before
  after = after
  other = other
  v1 = v1
  v2 = v2
  e1 = e1
  e2 = e2
  locked = locked
  catalog = catalog
  own = own
  codec = codec
  unregistered = unregistered
  native = native
  l1 = l1
INVARIANTS NothingAfterLock SealedAsShown CodecsSeeExpected OpenedAsExpected SealedOpens
