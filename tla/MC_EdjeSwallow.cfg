CONSTANTS
  e1 = e1
  e2 = e2
  o1 = o1
  o2 = o2
  Edjes = {e1, e2}
  Objs = {o1, o2}
  Parts <- MCParts
  NoObj = NoObj
  NoParent = NoParent
  CallersUnswallowFirst = TRUE
  ObjType <- MCObjType
  OwnMax <- MCOwnMax
  MinIn <- MCMinIn
  MaxIn <- MCMaxIn
  MaxFreeze = 1
  MaxBlock = 1
SYMMETRY MCSymmetry
SPECIFICATION SwallowSpec
INVARIANT SwallowTypeOK
INVARIANT NoDanglingSwallow
INVARIANT FreeCallbacksExact
INVARIANT ParamsOfHolder
