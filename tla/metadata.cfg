SPECIFICATION MetadataSpec
CONSTANTS
  InstanceUID = InstanceUID
  Preface = preface
  a = a
  b = b
  Keys <- MCKeys
  DefTag <- MCDefTag
  OldPrimers <- MCOldPrimers
  Sets = {preface, other}
  Values = {v}
  MaxTag = 3
  FirstDynamic = 2
  OwnTags = {}
  NULL = NULL
  old = old
  new = new
  Models <- MCModels
  SetDefs <- MCSetDefs
  ItemDefs <- MCItemDefs
  TypeDefs <- MCTypeDefs
  Extension = 2
  MaxTypes = 4
INVARIANTS NoTagSkipped FileAgrees SetsFound ItemsInPlace CloneIsWhole
PROPERTIES ImplementsStore MeaningKept
CHECK_DEADLOCK FALSE
