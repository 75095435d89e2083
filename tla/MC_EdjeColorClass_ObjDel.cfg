\* edje_object_color_class_del of a class the instance holds returns before
\* its recalc: LayoutFresh is expected to fail.
CONSTANTS
  Edjes = {"e1", "e2"}
  ColorClasses = {"c1", "c2"}
  Descs <- MCDescs
  FileColors <- MCFileColors
  ObjIn = {256}
  OutlineIn = {0}
  NoClass = NoClass
  MaxFreeze = 1
  MaxBlock = 1
SPECIFICATION ColorSpec
INVARIANT LayoutFresh
