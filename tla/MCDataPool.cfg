CONSTANTS
  Owner = {o1, o2, o3}
  NoRef = NoRef
  Null = Null
  Length = {0, 2, 3}
  MaxU32 = 2
  MaxSlots = 2
  MaxLives = 3
  StaleWindow = 1
SYMMETRY Symmetry
SPECIFICATION Spec
INVARIANTS
  TypeOK
  RefsCountOwners
  MappedStorageLive
  AliasNeedsFullWrap
PROPERTY OnlyOwnersChangeSlots
