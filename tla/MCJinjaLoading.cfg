SPECIFICATION Spec
CONSTANTS
  Names <- MCNames
  Sources <- MCSources
  Loader <- MCLoader
  Templates = {1, 2, 3, 4, 5}
  MaxCached = 2
  MaxTemplates = 3
  MaxBytes = 3
  MaxDepth = 2
  MaxHandles = 1
  Null = Null
INVARIANTS
  ReferencesExact
  LoadsAccounted
  InstancesOnce
PROPERTY
  RenderEnds
