-------------------------- MODULE MountResolution --------------------------
(***************************************************************************)
(* How the guest turns an accepted mount tree into detached mounts         *)
(* (spawn/mounts.rs), in four loops over vectors that the host thread has  *)
(* allocated before the clone: the sources on the host are collected, then *)
(* captured one namespace after the other, then overlays are put together  *)
(* from their layers, and last everything else is made.  All of them write *)
(* to the slots of one vector, each entry to the slot of its rank in path  *)
(* order; MountAttach then reads the slots in order.                       *)
(***************************************************************************)
EXTENDS MountTree

VARIABLES
  namespaces,   \* namespace_fd_scratch_space: the entries to capture
  layers,       \* overlay_mount_scratch_space: the layers of all overlays
  overlays,     \* overlay_mounts: the overlays to put together
  cursor,       \* how far the loop over one of these vectors is
  nextLayer,    \* mount_i: the layers used
  slots,        \* slots[i]: what slot i of resolved_mappings holds, if written
  nResolved,    \* n_resolved
  found,        \* the file a capture has found under its name
  replaced      \* names under which the host has another file than was opened

scratchVars == <<namespaces, layers, overlays>>
resolveVars == <<scratchVars, cursor, nextLayer, slots, nResolved, found>>
resolutionVars == <<treeVars, resolveVars, replaced>>

Resolving == {"collect", "capture", "convert", "overlays", "fresh"}

\* A layer starts as a namespace and becomes a mount.
Layer(p, role, n, form) == [path |-> p, role |-> role, n |-> n, form |-> form]

ResolutionInit ==
  /\ TreeInit
  /\ namespaces = <<>> /\ layers = <<>> /\ overlays = <<>>
  /\ cursor = 0 /\ nextLayer = 0
  /\ slots = <<>> /\ nResolved = 0
  /\ found = "none"
  /\ replaced = {}

-----------------------------------------------------------------------------
IsBind(m) == m.kind \in {"bindFile", "bindDirectory"}
IsOverlay(m) == m.kind = "overlay"

\* The index that enumerate() gives the entry.
Rank(p) == Cardinality({q \in DOMAIN tree \ {p} : Before(q, p)})

\* The layers of the overlay at p, in the order they are collected and used.
LayersOf(p, form) ==
  [n \in 1 .. tree[p].lower |-> Layer(p, "lower", n, form)]
    \o [n \in 1 .. tree[p].data |-> Layer(p, "data", n, form)]
    \o (IF tree[p].upper = "fd" THEN <<Layer(p, "upper", 1, form)>> ELSE <<>>)

Written(i, slot) ==
  [j \in DOMAIN slots \cup {i} |-> IF j = i THEN slot ELSE slots[j]]

\* What a slot holds: the entry it is for, the layers it is made of, and
\* whether it is the file that the caller has opened.
SlotFor(p, used, genuine) == [path |-> p, layers |-> used, genuine |-> genuine]

\* The loop at stage from is over, and the next begins.
GoOn(from, to) ==
  /\ stage = from /\ stage' = to
  /\ UNCHANGED <<tree, stack, counted, hostMountCount, replaced>>

Stay(s) ==
  /\ stage = s
  /\ UNCHANGED <<tree, stage, stack, counted, hostMountCount, replaced>>

\* The policy is spawned with.
Start ==
  /\ GoOn("built", "collect")
  /\ unvisited' = DOMAIN tree
  /\ UNCHANGED resolveVars

-----------------------------------------------------------------------------
\* resolve_bind_mappings, the loop over the tree: open_tree of every source.
Collect(d) ==
  /\ Stay("collect") /\ IsFirst(d, unvisited)
  /\ unvisited' = unvisited \ {d}
  /\ UNCHANGED <<cursor, nextLayer, slots, nResolved, found>>

CollectBind(d) ==
  /\ Collect(d) /\ IsBind(tree[d])
  /\ namespaces' = Append(namespaces, d)
  /\ UNCHANGED <<layers, overlays>>

CollectOverlay(d) ==
  /\ Collect(d) /\ IsOverlay(tree[d])
  /\ overlays' = Append(overlays, d)
  /\ layers' = layers \o LayersOf(d, "namespace")
  /\ UNCHANGED namespaces

CollectNothing(d) ==
  /\ Collect(d) /\ ~IsBind(tree[d]) /\ ~IsOverlay(tree[d])
  /\ UNCHANGED scratchVars

\* unshare(CLONE_NEWNS): from here the guest has mounts of its own.
Unshare ==
  /\ GoOn("collect", "capture") /\ unvisited = {}
  /\ cursor' = 1
  /\ UNCHANGED <<unvisited, scratchVars, nextLayer, slots, nResolved, found>>

-----------------------------------------------------------------------------
\* resolve_bind_mappings, the loop over the namespaces.
Current == namespaces[cursor]

\* Enter the namespace and capture the file by its name, or the root.
Capture ==
  /\ Stay("capture") /\ cursor <= Len(namespaces) /\ found = "none"
  /\ found' = IF tree[Current].kind = "bindFile" /\ Current \in replaced
              THEN "other" ELSE "genuine"
  /\ UNCHANGED <<unvisited, scratchVars, cursor, nextLayer, slots, nResolved>>

\* Mutant: the name is looked at once more, instead of what was captured.
VerifyName ==
  /\ Stay("capture") /\ found # "none" /\ Current \notin replaced
  /\ slots' = Written(Rank(Current), SlotFor(Current, <<>>, found = "genuine"))
  /\ cursor' = cursor + 1
  /\ found' = "none"
  /\ UNCHANGED <<unvisited, scratchVars, nextLayer, nResolved>>

\* HostSourcedFileMismatch unless this is the file that the caller opened.
Verify ==
  /\ Stay("capture") /\ found = "genuine"
  /\ slots' = Written(Rank(Current), SlotFor(Current, <<>>, found = "genuine"))
  /\ cursor' = cursor + 1
  /\ found' = "none"
  /\ UNCHANGED <<unvisited, scratchVars, nextLayer, nResolved>>

Captured ==
  /\ GoOn("capture", "convert") /\ cursor > Len(namespaces)
  /\ cursor' = 1
  /\ nResolved' = Len(namespaces)
  /\ UNCHANGED <<unvisited, scratchVars, nextLayer, slots, found>>

\* Each layer's namespace is replaced by a mount captured in it.
Convert ==
  /\ Stay("convert") /\ cursor <= Len(layers)
  /\ layers' = [layers EXCEPT ![cursor].form = "mount"]
  /\ cursor' = cursor + 1
  /\ UNCHANGED <<unvisited, namespaces, overlays, nextLayer, slots, nResolved, found>>

\* setns(original_ns): back to the guest's own mounts.
Converted ==
  /\ GoOn("convert", "overlays") /\ cursor > Len(layers)
  /\ cursor' = 1
  /\ UNCHANGED <<unvisited, scratchVars, nextLayer, slots, nResolved, found>>

-----------------------------------------------------------------------------
\* finish_overlay_mount_resolution.

\* How far an overlay advances mount_i.
LayersUsed(p) ==
  tree[p].lower + tree[p].data + (IF tree[p].upper = "fd" THEN 1 ELSE 0)

\* Mutant: mount_i is not advanced past the layer of the upper directory.
FinishOverlayForgetting ==
  LET p == overlays[cursor]
  IN /\ Stay("overlays") /\ cursor <= Len(overlays)
     /\ tree[p].upper = "fd" => p \notin replaced
     /\ nextLayer' = nextLayer + tree[p].lower + tree[p].data
     /\ slots' = Written(Rank(p),
          SlotFor(p, SubSeq(layers, nextLayer + 1, nextLayer + LayersUsed(p)), TRUE))
     /\ cursor' = cursor + 1
     /\ UNCHANGED <<unvisited, scratchVars, nResolved, found>>

\* The upper directory is opened by name beneath its captured parent, compared
\* with the one the caller opened, and used by the same descriptor.
FinishOverlay ==
  LET p == overlays[cursor]
      last == nextLayer + LayersUsed(p)
  IN /\ Stay("overlays") /\ cursor <= Len(overlays)
     /\ tree[p].upper = "fd" => p \notin replaced
     /\ nextLayer' = last
     /\ slots' = Written(Rank(p), SlotFor(p, SubSeq(layers, nextLayer + 1, last), TRUE))
     /\ cursor' = cursor + 1
     /\ UNCHANGED <<unvisited, scratchVars, nResolved, found>>

\* resolve_nonbind_mappings enumerates the tree once more.
OverlaysFinished ==
  /\ GoOn("overlays", "fresh") /\ cursor > Len(overlays)
  /\ nResolved' = nResolved + Len(overlays)
  /\ unvisited' = DOMAIN tree
  /\ UNCHANGED <<scratchVars, cursor, nextLayer, slots, found>>

-----------------------------------------------------------------------------
\* resolve_nonbind_mappings.

\* Mutant: the slots are counted instead of enumerated.
MakeFreshInTurn(d) ==
  /\ Stay("fresh") /\ IsFirst(d, unvisited)
  /\ ~IsBind(tree[d]) /\ ~IsOverlay(tree[d])
  /\ unvisited' = unvisited \ {d}
  /\ slots' = Written(nResolved, SlotFor(d, <<>>, TRUE))
  /\ nResolved' = nResolved + 1
  /\ UNCHANGED <<scratchVars, cursor, nextLayer, found>>

MakeFresh(d) ==
  /\ Stay("fresh") /\ IsFirst(d, unvisited)
  /\ ~IsBind(tree[d]) /\ ~IsOverlay(tree[d])
  /\ unvisited' = unvisited \ {d}
  /\ slots' = Written(Rank(d), SlotFor(d, <<>>, TRUE))
  /\ nResolved' = nResolved + 1
  /\ UNCHANGED <<scratchVars, cursor, nextLayer, found>>

SkipResolved(d) ==
  /\ Stay("fresh") /\ IsFirst(d, unvisited)
  /\ IsBind(tree[d]) \/ IsOverlay(tree[d])
  /\ unvisited' = unvisited \ {d}
  /\ UNCHANGED resolveVars

\* MappingsLengthMismatch if the count is wrong; then set_len.
SetLen ==
  /\ GoOn("fresh", "ready") /\ unvisited = {}
  /\ nResolved = Cardinality(DOMAIN tree)
  /\ UNCHANGED <<unvisited, resolveVars>>

-----------------------------------------------------------------------------
\* Any system call may fail, and a file may not be the one that was opened.
FailToResolve ==
  /\ stage \in Resolving
  /\ stage' = "failed"
  /\ UNCHANGED <<tree, walkVars, hostMountCount, resolveVars, replaced>>

\* A process of the host puts another file under the name, or moves it back.
HostRenames(p) ==
  /\ replaced' = IF p \in replaced THEN replaced \ {p} ELSE replaced \cup {p}
  /\ UNCHANGED <<treeVars, resolveVars>>

ResolveStep ==
  \/ Start
  \/ \E d \in unvisited : CollectBind(d) \/ CollectOverlay(d) \/ CollectNothing(d)
  \/ Unshare
  \/ Capture \/ Verify \/ Captured
  \/ Convert \/ Converted
  \/ FinishOverlay \/ OverlaysFinished
  \/ \E d \in unvisited : MakeFresh(d) \/ SkipResolved(d)
  \/ SetLen
  \/ FailToResolve

ResolutionNext ==
  \/ TreeNext /\ UNCHANGED <<resolveVars, replaced>>
  \/ ResolveStep
  \/ \E p \in Paths : HostRenames(p)

ResolutionSpec == ResolutionInit /\ [][ResolutionNext]_resolutionVars

-----------------------------------------------------------------------------
\* Properties.

\* After set_len every slot has been written, and in the order that the
\* attachment relies on: slot i holds the entry of rank i, and no other.  The
\* count is right when the last loop ends: MappingsLengthMismatch never occurs.
SlotsComplete ==
  /\ stage = "ready" =>
       /\ DOMAIN slots = 0 .. Cardinality(DOMAIN tree) - 1
       /\ \A p \in DOMAIN tree : slots[Rank(p)].path = p
  /\ stage = "fresh" /\ unvisited = {} => nResolved = Cardinality(DOMAIN tree)

\* No vector grows beyond what the host thread has allocated: push and
\* get_unchecked in the guest rely on the count that the validator has left.
WithinCapacity ==
  stage \in Resolving =>
    /\ Len(namespaces) + Len(overlays) <= Cardinality(DOMAIN tree)
    /\ Len(layers) <= hostMountCount

\* mount_i and the pushes agree: an overlay is made of its own layers, all of
\* them captured, in their order, whatever overlays come before it.
OverlaysGetTheirLayers ==
  \A i \in DOMAIN slots : LET p == slots[i].path IN
    IsOverlay(tree[p]) => slots[i].layers = LayersOf(p, "mount")

\* A file that is bound into the guest is the file that the caller opened,
\* whenever it was replaced on the host.
FilesAreGenuine == \A i \in DOMAIN slots : slots[i].genuine

=============================================================================
