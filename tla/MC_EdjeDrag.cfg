\* The drag API of two parts interleaved with pointer grabs, freezes and
\* thaws.
CONSTANTS
  Edjes = {e1}
  Ed = e1
  DragParts = {"knob", "bar"}
  Dragable <- MCDragable
  Q = 2
  ValueIn <- MCValueIn
  FracIn <- MCFracIn
  DeltaIn <- MCDeltaIn
  MaxDown = 1
  NoSignal = NoSignal
  MaxFreeze = 1
  MaxBlock = 1
SPECIFICATION DragSpec
INVARIANTS
  DragTypeOK
  DragShown
PROPERTIES
  NotifyIffMoved
  ValueReadBack
VIEW MCDragView
