SPECIFICATION InputsSpec
CONSTANTS
  Names = {"a", "b"}
  TenantIds = {"acme"}
  Kinds = {"job", "line", "options", "page", "turn", "registration", "tenancy"}
  Items <- LineItems
  MaxItems = 4
  MaxRows = 3
INVARIANTS FilterMirrorsRouting HandoffIsClean PagesShowEveryRow SessionOptionsSurvive
