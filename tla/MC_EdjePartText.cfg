\* Freeze/thaw, block guard and part text of two instances.
CONSTANTS
  Edjes = {e1, e2}
  MaxFreeze = 2
  MaxBlock = 2
  PartType <- MCPartType
  TextIn = {t1}
  Funcs = {cb}
  NoText = NoText
  NoFunc = NoFunc
  MaxReentry = 1
SYMMETRY EdjesSymmetry
SPECIFICATION PartTextSpec
VIEW PartTextView
INVARIANT TypeOK
 
INVARIANT BreakScoped
INVARIANT TextShown
PROPERTY NotifiedSeesFinal
PROPERTY ChangeNotified
