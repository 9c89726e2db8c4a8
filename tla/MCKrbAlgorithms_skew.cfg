CONSTANTS
  Int32Max <- MCInt32Max
  Int32Min <- MCInt32Min
  PaTypes <- MCPaTypes
  MaxPadata = 4
  PrefLists <- MCPrefLists
  DefaultKtypes <- MCDefaultKtypes
  Enctypes <- MCEnctypes
  MaxKtypes = 4
  Skew = 2
SPECIFICATION Spec
INVARIANT SkewCheckSound
