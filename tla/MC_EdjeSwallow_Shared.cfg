\* Callers may swallow an object that another part already holds (spec 3
\* says the new swallow revokes the old placement): NoDanglingSwallow is
\* expected to fail.
CONSTANTS
  e1 = e1
  e2 = e2
  o1 = o1
  o2 = o2
  Edjes = {e1, e2}
  Objs = {o1, o2}
  Parts <- MCParts
  NoObj = NoObj
  NoParent = NoParent
  CallersUnswallowFirst = FALSE
  ObjType <- MCObjType
  OwnMax <- MCOwnMax
  MinIn <- MCMinIn
  MaxIn <- MCMaxIn
  MaxFreeze = 1
  MaxBlock = 1
SYMMETRY MCSymmetry
SPECIFICATION SwallowSpec
INVARIANT NoDanglingSwallow
