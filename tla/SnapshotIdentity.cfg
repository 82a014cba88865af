CONSTANTS
  ahenk1 = ahenk1
  ahenk2 = ahenk2
  Agent <- MCAgent
  Expected = 1
  PageSize = 1
SPECIFICATION Spec
INVARIANT
  PassSurfacesAgreeOnIdentity
