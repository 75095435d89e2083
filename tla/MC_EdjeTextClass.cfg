CONSTANTS
  Edjes = {"e1", "e2"}
  TextClasses = {"t1", "t2"}
  TDescs <- MCTDescs
  FontIn = {"f1"}
  SizeIn <- MCSizeIn
  NoFont = NoFont
  NoClass = NoClass
  MaxFreeze = 1
  MaxBlock = 1
SPECIFICATION TextSpec
INVARIANT TextTypeOK
INVARIANT TextMemberIndexExact
PROPERTY GlobalUpdateRestyles
VIEW MCTextView
