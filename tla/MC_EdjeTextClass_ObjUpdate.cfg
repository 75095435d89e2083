\* edje_object_text_class_set updating a class the instance already has
\* recalcs without rebuilding the textblock styles: ObjectUpdateRestyles is
\* expected to fail.
CONSTANTS
  Edjes = {"e1", "e2"}
  TextClasses = {"t1", "t2"}
  TDescs <- MCTDescs
  FontIn = {"f1"}
  SizeIn <- MCSizeIn
  NoFont = NoFont
  NoClass = NoClass
  MaxFreeze = 1
  MaxBlock = 1
SPECIFICATION TextSpec
PROPERTY ObjectUpdateRestyles
