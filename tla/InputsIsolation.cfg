SPECIFICATION InputsSpec
CONSTANTS
  Names = {"a", "b"}
  TenantIds = {"acme"}
  Kinds = {"line"}
  Items <- IsolatedItems
  MaxItems = 3
  MaxRows = 0
INVARIANT OpenRtcFlagsAreStripped
