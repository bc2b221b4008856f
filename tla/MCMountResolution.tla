------------------------- MODULE MCMountResolution -------------------------
\* Instances of MountResolution.
EXTENDS MountResolution

MCPaths == {<<1>>, <<1, 1>>, <<2>>}

MC(kind, lower, data, upper) ==
  [kind |-> kind, lower |-> lower, data |-> data, upper |-> upper]

\* Overlays with different numbers of layers, and every kind of upper layer.
MCMounts ==
  {MC(kind, 0, 0, "none") : kind \in {"bindFile", "bindDirectory", "tmpfs"}}
    \cup {MC("overlay", 1, 0, "none"), MC("overlay", 2, 0, "tmpfs"), MC("overlay", 1, 1, "fd")}

=============================================================================
