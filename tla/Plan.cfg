\* A cluster whose groups share plurals, kinds and short names.
CONSTANTS
  Word <- MCWord
  Catalogue <- MCCatalogue
  Curated <- MCCurated
  Version <- MCVersion
  Request <- MCRequest
  Namespace = {"a", "b"}
  ContextNamespace = "team"
SPECIFICATION Spec
INVARIANTS NamesIdentify AliasesUnique SavedPlanResumable CRDsNeedConsent
CHECK_DEADLOCK FALSE
