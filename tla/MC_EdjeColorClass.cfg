CONSTANTS
  Edjes = {"e1", "e2"}
  ColorClasses = {"c1", "c2"}
  Descs <- MCDescs
  FileColors <- MCFileColors
  ObjIn <- MCObjIn
  OutlineIn = {0}
  NoClass = NoClass
  MaxFreeze = 1
  MaxBlock = 1
SPECIFICATION ColorSpec
INVARIANT ColorTypeOK
INVARIANT MemberIndexExact
VIEW MCColorView
