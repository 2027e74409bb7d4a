SPECIFICATION Spec
CONSTANTS
  Versions <- MCVersions
  Generators <- MCGenerators
  Schemas <- MCSchemas
  Emits <- MCEmits
  Names <- MCNames
  Models <- MCModels
  Wrappers <- MCWrappers
  Handwritten <- MCHandwritten
  Checkout <- MCCheckout
  MaxAccidents = 2
  MaxReplaced = 2
  Missing = Missing
  Torn = Torn
  Nil = Nil
INVARIANT CertifiedIsConsistent
INVARIANT RefreshIsWhole
PROPERTY PinMovesOnRequest
