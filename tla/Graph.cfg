\* Two namespaces, every kind of binding, rule and subject; duplicates and
\* undecoded lines in every order.
CONSTANT
  Request <- MCRequest
SPECIFICATION Spec
INVARIANTS OneNodePerObject EdgesJoinNodes EveryBindingShown PermissionsAgree AccessGranted PlainAccessShown RoutesMarked EnvTraced
CHECK_DEADLOCK FALSE
