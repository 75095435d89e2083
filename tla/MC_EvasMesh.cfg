\* Frames, materials, vertex and index buffers and node uses of one mesh,
\* reloaded only while no node uses it.
CONSTANTS
  FrameIds = {0, 2}
  Attribs = {"POSITION"}
  Materials = {m1, m2}
  Nodes = {n1, n2}
  Strides = {12}
  VertexCounts = {2}
  IndexFormats = {"UNSIGNED_SHORT"}
  IndexCounts = {3}
  Values = {"v"}
  QueryFrames = {1}
  NoMaterial = NoMaterial
  NoData = NoData
  NoHash = NoHash
  NoFrame = NoFrame
  MaxUses = 2
  MaxRefs = 3
  ReloadsOnlyUnused = TRUE
SYMMETRY MeshSymmetry
SPECIFICATION MeshSpec
INVARIANT MeshTypeOK
INVARIANT NodeIndexExact
INVARIANT MaterialMeshExact
INVARIANT MaterialRefsHeld
VIEW MCMeshView
