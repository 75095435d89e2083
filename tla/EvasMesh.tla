------------------------------- MODULE EvasMesh -------------------------------
(***************************************************************************)
(* The Evas 3D mesh of src/src/lib/evas/canvas/evas_3d_mesh.c: its list of *)
(* frames, the material and vertex buffers of each frame, the index        *)
(* buffer, the hash of the scene nodes using the mesh, and the reload by   *)
(* evas_3d_mesh_file_set.                                                  *)
(*                                                                         *)
(* A buffer is NoData (NULL), "ext" (the caller's memory, not owned) or    *)
(* "own" (allocated by the mesh); sizes and strides are in bytes.  The     *)
(* float contents and the bounding boxes computed from them are left out.  *)
(*                                                                         *)
(* The callers outside this file are modelled from their interface:        *)
(*  - a node (evas_3d_node.c) calls evas_3d_mesh_node_add when it starts   *)
(*    using the mesh and evas_3d_mesh_node_del when it stops; users[n]     *)
(*    counts the uses node n holds;                                        *)
(*  - evas_3d_material_mesh_add/_del (evas_3d_material.c) count, in the    *)
(*    material, the references of this mesh (mat_meshes);                  *)
(*  - eo_ref/eo_unref count the references taken on a material            *)
(*    (mat_refs, the caller's own reference included).                     *)
(* evas_3d_object_change, which forwards a change to the nodes of the      *)
(* hash, and the plain setters change nothing a property here reads; the   *)
(* setters are kept as actions on settings.                                *)
(***************************************************************************)
EXTENDS Integers, SequencesExt

CONSTANTS
  FrameIds,      \* the frame numbers callers use
  Attribs,       \* the vertex attributes callers use
  Materials,     \* the materials callers set
  Nodes,         \* the scene nodes that may use the mesh
  Strides,       \* the strides callers pass
  VertexCounts,  \* the vertex counts callers set
  IndexFormats,  \* the index formats callers pass
  IndexCounts,   \* the index counts callers pass
  Values,        \* the values of the plain settings
  NoMaterial, NoData, NoHash, NoFrame,
  MaxUses,       \* bound on the uses a node holds
  MaxRefs,       \* bound on the references on a material
  QueryFrames,   \* the frames a renderer interpolates at
  ReloadsOnlyUnused  \* callers reload only a mesh that no node uses

\* sizeof(float), and the element counts of _frame_vertex_data_set.
FloatSize == 4
ElementCount == [POSITION |-> 3, NORMAL |-> 3, TANGENT |-> 3, COLOR |-> 4,
                 TEXCOORD |-> 2]
IndexSize == [UNSIGNED_BYTE |-> 1, UNSIGNED_SHORT |-> 2]
Settings == {"shade_mode", "fog_color", "fog_enabled", "blending", "blend_func",
             "assembly"}

ASSUME /\ Attribs \subseteq DOMAIN ElementCount
       /\ ReloadsOnlyUnused \in BOOLEAN

VARIABLES
  frames,        \* pd->frames, the frame numbers in list order
  material,      \* f->material of each frame
  vb,            \* f->vertices[attrib] of each frame
  vertex_count,  \* pd->vertex_count
  index,         \* pd->indices, index_format, index_count, index_size
  index_mapped,  \* pd->index_mapped
  settings,      \* shade mode, fog, blending and assembly
  nodes,         \* pd->nodes: count of each node, 0 if absent, or NoHash
  users,         \* uses of the mesh held by each node
  mat_meshes,    \* references of this mesh held in each material
  mat_refs,      \* eo references on each material
  alive          \* the mesh object exists (constructed, not destroyed)

vars == <<frames, material, vb, vertex_count, index, index_mapped, settings,
          nodes, users, mat_meshes, mat_refs, alive>>

EmptyVB == [data |-> NoData, size |-> 0, stride |-> 0, elems |-> 0, mapped |-> FALSE]
NoIndex == [format |-> "NONE", count |-> 0, size |-> 0, data |-> NoData]

\* Mutant: the lookup that never finds the frame.
FoundNever(f) == FALSE

\* evas_3d_mesh_frame_find: the frame is in the list.
Found(f) == f \in ToSet(frames)

\* evas_3d_material_mesh_add/_del: this mesh's count in the material.
MaterialMeshAdd(mm, m) == [mm EXCEPT ![m] = @ + 1]

\* Mutant: the material left holding the mesh when its frame is freed.
FrameFreeKeepingMaterial(mm, f) == mm

MaterialMeshDel(mm, m) == [mm EXCEPT ![m] = @ - 1]

\* evas_3d_mesh_frame_free: the material drops the mesh, owned vertex
\* data is freed.  No eo_unref of the material.
FrameFree(mm, f) ==
  IF material[f] # NoMaterial THEN MaterialMeshDel(mm, material[f]) ELSE mm

\* The frames of the list freed one by one, as _mesh_fini does.
FramesFree(mm) == FoldLeft(LAMBDA acc, f : FrameFree(acc, f), mm, frames)

\* evas_3d_mesh_frame_new, calloc'ed: no material, empty buffers.
NewFrame(f) ==
  /\ material' = [material EXCEPT ![f] = NoMaterial]
  /\ vb' = [vb EXCEPT ![f] = [a \in Attribs |-> EmptyVB]]

(***************************************************************************)
(* Operations                                                              *)
(***************************************************************************)

\* _evas_3d_mesh_frame_add: an existing frame number is refused; the new
\* frame is appended, whatever its number.
_evas_3d_mesh_frame_add(f) ==
  /\ ~Found(f)
  /\ frames' = Append(frames, f)
  /\ NewFrame(f)
  /\ UNCHANGED <<vertex_count, index, index_mapped, settings, nodes, users,
                 mat_meshes, mat_refs>>

\* _evas_3d_mesh_frame_del: the frame leaves the list and is freed.
_evas_3d_mesh_frame_del(f) ==
  /\ Found(f)
  /\ frames' = Remove(frames, f)
  /\ mat_meshes' = FrameFree(mat_meshes, f)
  /\ NewFrame(f)
  /\ UNCHANGED <<vertex_count, index, index_mapped, settings, nodes, users,
                 mat_refs>>

\* Mutant: the new material never referenced.
MaterialRefSkipped(r, old, m) ==
  IF old # NoMaterial THEN [r EXCEPT ![old] = @ - 1] ELSE r

\* "eo_unref(f->material)" on the old one, "eo_ref(material)" on the new.
MaterialRef(r, old, m) ==
  LET r1 == IF old # NoMaterial THEN [r EXCEPT ![old] = @ - 1] ELSE r
  IN [r1 EXCEPT ![m] = @ + 1]

\* _evas_3d_mesh_frame_material_set: the same material returns; otherwise
\* the old one drops the mesh and a reference, the new one is referenced
\* and takes the mesh.
_evas_3d_mesh_frame_material_set(f, m) ==
  LET old == material[f]
  IN /\ Found(f)
     /\ old # m
     /\ mat_refs[m] < MaxRefs
     /\ material' = [material EXCEPT ![f] = m]
     /\ mat_refs' = MaterialRef(mat_refs, old, m)
     /\ mat_meshes' = MaterialMeshAdd(IF old # NoMaterial
                                      THEN MaterialMeshDel(mat_meshes, old)
                                      ELSE mat_meshes, m)
     /\ UNCHANGED <<frames, vb, vertex_count, index, index_mapped, settings,
                    nodes, users>>

\* _evas_3d_mesh_frame_vertex_data_set: a stride below sizeof(float) is
\* refused; the caller's pointer is stored, not owned, with size 0; owned
\* data is freed first, whether or not it is mapped.
_evas_3d_mesh_frame_vertex_data_set(f, a, stride, d) ==
  /\ Found(f)
  /\ stride >= FloatSize
  /\ vb' = [vb EXCEPT ![f][a] = [@ EXCEPT !.data = d, !.size = 0,
                                          !.stride = stride,
                                          !.elems = ElementCount[a]]]
  /\ UNCHANGED <<frames, material, vertex_count, index, index_mapped, settings,
                 nodes, users, mat_meshes, mat_refs>>

\* _evas_3d_mesh_frame_vertex_data_copy_set: a buffer of element_count
\* floats per vertex is allocated unless an owned one is large enough; the
\* stride stored is 0.  The data is then copied in, unless NULL: a content
\* the model does not follow.
_evas_3d_mesh_frame_vertex_data_copy_set(f, a) ==
  LET size == ElementCount[a] * FloatSize * vertex_count
      cur == vb[f][a]
      grow == cur.data # "own" \/ cur.size < size
  IN /\ Found(f)
     /\ vb' = [vb EXCEPT ![f][a] = [@ EXCEPT !.data = "own",
                                             !.size = IF grow THEN size ELSE cur.size,
                                             !.stride = 0,
                                             !.elems = ElementCount[a]]]
     /\ UNCHANGED <<frames, material, vertex_count, index, index_mapped,
                    settings, nodes, users, mat_meshes, mat_refs>>

\* _frame_vertex_data_map and _unmap: a second map, or an unmap of data
\* not mapped, is refused.
_evas_3d_mesh_frame_vertex_data_map(f, a, mapped) ==
  /\ Found(f)
  /\ vb[f][a].mapped # mapped
  /\ vb' = [vb EXCEPT ![f][a].mapped = mapped]
  /\ UNCHANGED <<frames, material, vertex_count, index, index_mapped, settings,
                 nodes, users, mat_meshes, mat_refs>>

\* _evas_3d_mesh_index_data_set: the caller's indices, not owned.
_evas_3d_mesh_index_data_set(fmt, cnt, d) ==
  /\ index' = [format |-> fmt, count |-> cnt, size |-> 0, data |-> d]
  /\ UNCHANGED <<frames, material, vb, vertex_count, index_mapped, settings,
                 nodes, users, mat_meshes, mat_refs>>

\* _evas_3d_mesh_index_data_copy_set: an invalid format is refused; the
\* buffer is reallocated unless owned and large enough.
_evas_3d_mesh_index_data_copy_set(fmt, cnt) ==
  LET size == cnt * IndexSize[fmt]
      grow == index.data # "own" \/ index.size < size
  IN /\ fmt \in DOMAIN IndexSize
     /\ index' = [format |-> fmt, count |-> cnt, data |-> "own",
                  size |-> IF grow THEN size ELSE index.size]
     /\ UNCHANGED <<frames, material, vb, vertex_count, index_mapped, settings,
                    nodes, users, mat_meshes, mat_refs>>

\* _index_data_map and _unmap.
_evas_3d_mesh_index_data_map(mapped) ==
  /\ index_mapped # mapped
  /\ index_mapped' = mapped
  /\ UNCHANGED <<frames, material, vb, vertex_count, index, settings, nodes,
                 users, mat_meshes, mat_refs>>

\* _evas_3d_mesh_vertex_count_set.
_evas_3d_mesh_vertex_count_set(c) ==
  /\ vertex_count' = c
  /\ UNCHANGED <<frames, material, vb, index, index_mapped, settings, nodes,
                 users, mat_meshes, mat_refs>>

\* _evas_3d_mesh_shade_mode_set: returns on an equal mode, else stores it.
ShadeModeSet(v) ==
  /\ settings["shade_mode"] # v
  /\ settings' = [settings EXCEPT !["shade_mode"] = v]
  /\ UNCHANGED <<frames, material, vb, vertex_count, index, index_mapped, nodes,
                 users, mat_meshes, mat_refs>>

\* vertex_assembly_set, fog_color_set, fog_enable_set, blending_enable_set
\* and blending_func_set: the value stored, equal or not.
SettingSet(s, v) ==
  /\ settings' = [settings EXCEPT ![s] = v]
  /\ UNCHANGED <<frames, material, vb, vertex_count, index, index_mapped, nodes,
                 users, mat_meshes, mat_refs>>

\* Mutant: the entry deleted whatever its count.
NodeDelAlways(h, n) == IF h = NoHash THEN h ELSE [h EXCEPT ![n] = 0]

\* evas_3d_mesh_node_del: no hash is refused; a count of 1 deletes the
\* entry, any other count (0 for an absent node) is decremented.
evas_3d_mesh_node_del(h, n) ==
  IF h = NoHash THEN h
  ELSE IF h[n] = 1 THEN [h EXCEPT ![n] = 0] ELSE [h EXCEPT ![n] = @ - 1]

\* evas_3d_mesh_node_add: the hash created on first use, the count of the
\* node incremented.
evas_3d_mesh_node_add(h, n) ==
  IF h = NoHash THEN [x \in Nodes |-> IF x = n THEN 1 ELSE 0]
  ELSE [h EXCEPT ![n] = @ + 1]

\* A node starts, or stops, using the mesh.
NodeUse(n) ==
  /\ users[n] < MaxUses
  /\ users' = [users EXCEPT ![n] = @ + 1]
  /\ nodes' = evas_3d_mesh_node_add(nodes, n)
  /\ UNCHANGED <<frames, material, vb, vertex_count, index, index_mapped,
                 settings, mat_meshes, mat_refs>>

NodeUnuse(n) ==
  /\ users[n] > 0
  /\ users' = [users EXCEPT ![n] = @ - 1]
  /\ nodes' = evas_3d_mesh_node_del(nodes, n)
  /\ UNCHANGED <<frames, material, vb, vertex_count, index, index_mapped,
                 settings, mat_meshes, mat_refs>>

\* _evas_3d_mesh_file_set: _mesh_fini frees every frame, the owned indices
\* and the node hash; _mesh_init empties the mesh and resets the assembly
\* and blending.  The loader (outside src/) then rebuilds it through the
\* operations above.
_evas_3d_mesh_file_set ==
  /\ ReloadsOnlyUnused => \A n \in Nodes : users[n] = 0
  /\ mat_meshes' = FramesFree(mat_meshes)
  /\ frames' = <<>>
  /\ material' = [f \in FrameIds |-> NoMaterial]
  /\ vb' = [f \in FrameIds |-> [a \in Attribs |-> EmptyVB]]
  /\ vertex_count' = 0
  /\ index' = NoIndex
  /\ nodes' = NoHash
  /\ settings' = [settings EXCEPT !["assembly"] = "default",
                                  !["blending"] = "default",
                                  !["blend_func"] = "default"]
  /\ UNCHANGED <<index_mapped, users, mat_refs>>

\* _evas_3d_mesh_eo_base_destructor: _mesh_fini frees every frame, the
\* owned indices and the node hash.  A node holds a reference on a mesh it
\* uses (evas_3d_node.c), so only an unused mesh is destroyed.  The data of
\* the freed object is left as the calloc of the next object will find it.
_evas_3d_mesh_eo_base_destructor ==
  /\ \A n \in Nodes : users[n] = 0
  /\ alive' = FALSE
  /\ mat_meshes' = FramesFree(mat_meshes)
  /\ frames' = <<>>
  /\ material' = [f \in FrameIds |-> NoMaterial]
  /\ vb' = [f \in FrameIds |-> [a \in Attribs |-> EmptyVB]]
  /\ vertex_count' = 0
  /\ index' = NoIndex
  /\ index_mapped' = FALSE
  /\ nodes' = NoHash
  /\ settings' = [s \in Settings |-> "default"]
  /\ UNCHANGED <<users, mat_refs>>

\* evas_3d_mesh_add and _evas_3d_mesh_eo_base_constructor: a new mesh,
\* calloc'ed and set up by _mesh_init.
_evas_3d_mesh_eo_base_constructor ==
  /\ ~alive
  /\ alive' = TRUE
  /\ UNCHANGED <<frames, material, vb, vertex_count, index, index_mapped,
                 settings, nodes, users, mat_meshes, mat_refs>>

\* _mesh_init, after the constructor's calloc.
MeshInit ==
  /\ frames = <<>>
  /\ material = [f \in FrameIds |-> NoMaterial]
  /\ vb = [f \in FrameIds |-> [a \in Attribs |-> EmptyVB]]
  /\ vertex_count = 0
  /\ index = NoIndex
  /\ index_mapped = FALSE
  /\ settings = [s \in Settings |-> "default"]
  /\ nodes = NoHash
  /\ users = [n \in Nodes |-> 0]
  /\ mat_meshes = [m \in Materials |-> 0]
  /\ mat_refs = [m \in Materials |-> 1]
  /\ alive = TRUE

\* A method called on the mesh, or a node starting or stopping to use it.
MeshCall ==
  \/ \E f \in FrameIds :
       \/ _evas_3d_mesh_frame_add(f)
       \/ _evas_3d_mesh_frame_del(f)
       \/ \E m \in Materials : _evas_3d_mesh_frame_material_set(f, m)
       \/ \E a \in Attribs :
            \/ \E s \in Strides, d \in {NoData, "ext"} :
                 _evas_3d_mesh_frame_vertex_data_set(f, a, s, d)
            \/ _evas_3d_mesh_frame_vertex_data_copy_set(f, a)
            \/ \E mp \in BOOLEAN : _evas_3d_mesh_frame_vertex_data_map(f, a, mp)
  \/ \E fmt \in IndexFormats, c \in IndexCounts :
       \/ \E d \in {NoData, "ext"} : _evas_3d_mesh_index_data_set(fmt, c, d)
       \/ _evas_3d_mesh_index_data_copy_set(fmt, c)
  \/ \E mp \in BOOLEAN : _evas_3d_mesh_index_data_map(mp)
  \/ \E c \in VertexCounts : _evas_3d_mesh_vertex_count_set(c)
  \/ \E v \in Values : ShadeModeSet(v)
  \/ \E s \in Settings \ {"shade_mode"}, v \in Values : SettingSet(s, v)
  \/ \E n \in Nodes : NodeUse(n) \/ NodeUnuse(n)
  \/ _evas_3d_mesh_file_set

\* eo_do on a destroyed object calls no method.
MeshNext ==
  \/ alive /\ MeshCall /\ UNCHANGED alive
  \/ alive /\ _evas_3d_mesh_eo_base_destructor
  \/ _evas_3d_mesh_eo_base_constructor

MeshSpec == MeshInit /\ [][MeshNext]_vars

(***************************************************************************)
(* Interpolation of a vertex attribute at a frame, as the renderer asks    *)
(* for it.                                                                 *)
(***************************************************************************)

\* _mesh_frame_find: the positions of the first consecutive pair of the
\* list that brackets q, or of the last frame and NULL if none does (the
\* "if (right == NULL)" block computes other positions, but the two
\* assignments after it overwrite them).  0 stands for NULL.
_mesh_frame_find(q) ==
  LET I == {i \in 1..(Len(frames) - 1) : q >= frames[i] /\ q <= frames[i + 1]}
  IN IF frames = <<>> THEN <<0, 0>>
     ELSE IF I # {} THEN <<Min(I), Min(I) + 1>>
     ELSE <<Len(frames), 0>>

\* A single buffer, with weight 1.
Single(f) == [buf0 |-> f, buf1 |-> NoFrame, weight |-> <<1, 1>>]

NoBuffers == [buf0 |-> NoFrame, buf1 |-> NoFrame, weight |-> <<1, 1>>]

\* evas_3d_mesh_interpolate_vertex_buffer_get: from the left position back
\* to the nearest frame with data for a, from the right one forward; no
\* frame leaves the buffers as they were; without a left frame f0 takes
\* the right one; a frame equal to q is used alone.  The weight is the
\* fraction (f1->frame - frame) / (f1->frame - f0->frame).
evas_3d_mesh_interpolate_vertex_buffer_get(q, a) ==
  LET lr == _mesh_frame_find(q)
      i0 == IF lr[1] = 0 THEN 0
            ELSE SelectLastInSubSeq(frames, 1, lr[1], LAMBDA f : vb[f][a].data # NoData)
      i1 == IF lr[2] = 0 THEN 0
            ELSE SelectInSubSeq(frames, lr[2], Len(frames), LAMBDA f : vb[f][a].data # NoData)
      f0 == IF i0 = 0 THEN NoFrame ELSE frames[i0]
      f1 == IF i1 = 0 THEN NoFrame ELSE frames[i1]
      g0 == IF f0 = NoFrame THEN f1
            ELSE IF f1 # NoFrame /\ q # f0 /\ q = f1 THEN f1 ELSE f0
      g1 == IF f0 = NoFrame THEN f1
            ELSE IF f1 # NoFrame /\ (q = f0 \/ q = f1) THEN NoFrame ELSE f1
  IN IF f0 = NoFrame /\ f1 = NoFrame THEN NoBuffers
     ELSE [buf0 |-> g0, buf1 |-> g1,
           weight |-> IF g1 # NoFrame THEN <<g1 - q, g1 - g0>> ELSE <<1, 1>>]

\* The reference: the nearest frames with data at or below q and at or
\* above q, by frame number; one of them alone if the other is missing or
\* both are the same.
RefInterpolate(q, a) ==
  LET D == {f \in ToSet(frames) : vb[f][a].data # NoData}
      Lo == {f \in D : f <= q}
      Hi == {f \in D : f >= q}
  IN IF D = {} THEN NoBuffers
     ELSE IF Lo = {} THEN Single(Min(Hi))
     ELSE IF Hi = {} \/ Max(Lo) = Min(Hi) THEN Single(Max(Lo))
     ELSE [buf0 |-> Max(Lo), buf1 |-> Min(Hi),
           weight |-> <<Min(Hi) - q, Min(Hi) - Max(Lo)>>]

(***************************************************************************)
(* Properties                                                              *)
(***************************************************************************)

VB == [data : {NoData, "ext", "own"}, size : Nat, stride : Nat, elems : Nat,
       mapped : BOOLEAN]

\* MeshTypeOK: every variable has its type, and the frame list never holds
\* a frame number twice, as _evas_3d_mesh_frame_add refuses one it finds.
MeshTypeOK ==
  /\ frames \in Seq(FrameIds) /\ IsInjective(frames)
  /\ material \in [FrameIds -> Materials \cup {NoMaterial}]
  /\ vb \in [FrameIds -> [Attribs -> VB]]
  /\ nodes \in [Nodes -> Int] \cup {NoHash}
  /\ users \in [Nodes -> 0..MaxUses]
  /\ mat_meshes \in [Materials -> Int]
  /\ mat_refs \in [Materials -> 0..MaxRefs]
  /\ alive \in BOOLEAN

\* The count pd->nodes holds for node n, 0 if absent.
NodeCount(n) == IF nodes = NoHash THEN 0 ELSE nodes[n]

\* NodeIndexExact: after any interleaving of several nodes starting and
\* stopping to use the mesh, some of them more than once, and reloads, the
\* node hash counts for each node exactly the uses it holds, so a change
\* of the mesh reaches every node using it and no other
\* (evas_3d_mesh_node_add/_del, _mesh_fini).
NodeIndexExact == \A n \in Nodes : NodeCount(n) = users[n]

\* The frames of the list holding material m.
Holders(m) == Cardinality({f \in ToSet(frames) : material[f] = m})

\* MaterialMeshExact: through material replacements, frame deletions and
\* reloads, each material counts this mesh once per frame holding it,
\* so a material change reaches the mesh exactly while a frame uses it
\* (frame_material_set, evas_3d_mesh_frame_free).
MaterialMeshExact == \A m \in Materials : mat_meshes[m] = Holders(m)

\* MaterialRefsHeld: a material keeps, besides its creator's reference,
\* one for each frame holding it, so no frame ever holds a material its
\* other users may already have released (eo_ref/eo_unref in
\* frame_material_set).
MaterialRefsHeld == \A m \in Materials : mat_refs[m] >= 1 + Holders(m)

\* InterpolationExact: wherever the renderer asks, the vertex buffers
\* interpolated are those of the nearest frames with data around the
\* frame asked for, with the weight of the first
\* (evas_3d_mesh_interpolate_vertex_buffer_get, _mesh_frame_find).
InterpolationExact ==
  \A q \in QueryFrames, a \in Attribs :
    evas_3d_mesh_interpolate_vertex_buffer_get(q, a) = RefInterpolate(q, a)

=============================================================================
