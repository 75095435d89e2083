\* The vertex buffers the renderer interpolates, at every frame between the
\* two a caller adds.
CONSTANTS
  FrameIds = {0, 2}
  Attribs = {"POSITION"}
  Materials = {m1, m2}
  Nodes = {n1, n2}
  Strides = {12}
  VertexCounts = {2}
  IndexFormats = {"UNSIGNED_SHORT"}
  IndexCounts = {3}
  Values = {"v"}
  QueryFrames = {0, 1, 2}
  NoMaterial = NoMaterial
  NoData = NoData
  NoHash = NoHash
  NoFrame = NoFrame
  MaxUses = 2
  MaxRefs = 3
  ReloadsOnlyUnused = TRUE
SYMMETRY MeshSymmetry
SPECIFICATION MeshSpec
VIEW MCMeshView
INVARIANT InterpolationExact
