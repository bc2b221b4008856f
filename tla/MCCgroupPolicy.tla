---------------------------- MODULE MCCgroupPolicy ----------------------------
(***************************************************************************)
(* CgroupPolicy for TLC: every attribute, with two values where one write  *)
(* bears on another, in hierarchies with all, three and one of the         *)
(* controllers.                                                            *)
(***************************************************************************)
EXTENDS CgroupPolicy

Flags == {SubtreeOf[c] : c \in Controllers} \cup {"cgroup.type"}
Switches == {"cgroup.pressure", "cpu.idle", "memory.zswap.writeback"}

AttributeValues ==
  [a \in Attributes |->
     CASE a \in Flags -> {TRUE}
       [] a \in Switches -> BOOLEAN
       [] a = "cpu.max" -> {2, Max}
       [] a = "cpu.max.burst" -> {1, 3}
       [] a = "pids.max" -> {0, Max}
       [] OTHER -> {5}]

Hierarchies == {Controllers, {"cpu", "io", "pids"}, {"cpu"}}

=============================================================================
