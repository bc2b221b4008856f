--------------------------- MODULE MCMountAttach ---------------------------
\* Instances of MountAttach.
EXTENDS MountAttach

\* A path with a sibling, beneath one of them another level, and a neighbour.
MCPaths == {<<1>>, <<1, 1>>, <<1, 2>>, <<1, 2, 1>>, <<2>>}

Plain(kind) == [kind |-> kind, lower |-> 0, data |-> 0, upper |-> "none"]

Overlay(upper) == [kind |-> "overlay", lower |-> 1, data |-> 1, upper |-> upper]

MCMounts ==
  {Plain(kind) : kind \in {"bindFile", "bindDirectory", "tmpfs", "symlink", "directory"}}
    \cup {Overlay(upper) : upper \in {"fd", "tmpfs"}}

=============================================================================
