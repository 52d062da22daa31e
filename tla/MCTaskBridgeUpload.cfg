CONSTANTS
  MaxCalls = 1
  MaxReloads = 0
  MaxLines = 1
  PageMethods <- KindsOfMethod
SPECIFICATION Spec
INVARIANT NoOrphanedPromise
