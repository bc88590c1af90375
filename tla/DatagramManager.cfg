CONSTANTS
  c1 = c1
  c2 = c2
  Callers <- MCCallers
  Endpoint <- MCEndpoint
  Owner <- MCOwner
  NoEndpoint = NoEndpoint
  Capacity = 2
  MaxId = 3
SPECIFICATION Spec
INVARIANTS TypeOK PermitsConserved OneAssociationPerEndpoint IdentityNotShared
PROPERTIES ImplementsPool
