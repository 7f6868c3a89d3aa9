\* docs/edges.md: wildcard access of a service account in the cluster leads to
\* AllSecrets.  The rule "*" of the group "*" does not.
CONSTANT
  Request <- MCRequest
SPECIFICATION Spec
INVARIANTS WildcardReadsSecrets
CHECK_DEADLOCK FALSE
