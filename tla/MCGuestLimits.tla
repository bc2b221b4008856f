---------------------------- MODULE MCGuestLimits ----------------------------
(***************************************************************************)
(* GuestLimits for TLC: five of the fifteen limits, the three the kernel   *)
(* consults in the guest's own steps among them, and five calling          *)
(* processes, with less and less of them: an ordinary one that is nice; a  *)
(* real-time and a favoured one with a reset-on-fork flag and a            *)
(* request_key authority; a real-time one without the flag; an idle one.   *)
(***************************************************************************)
EXTENDS GuestLimits

GuestResources == <<"core", "nice", "nofile", "rtprio", "stack">>
GuestNices == {-1, 3, 30}

Process(limit, kind, nice, priority, flag) ==
  [limits |-> [r \in Limits |-> limit],
   sched |-> [kind |-> kind, nice |-> nice, priority |-> priority, reset |-> flag,
              min |-> 0, max |-> 2],
   oom |-> 1, oom_floor |-> 1, cookie |-> "caller", smt |-> ~flag,
   authority |-> flag, session_keyring |-> "caller", requested_keys |-> "caller"]

GuestCallers ==
  {Process([soft |-> Infinity, hard |-> Infinity], "normal", 2, 0, FALSE),
   Process([soft |-> 21, hard |-> Infinity], "fifo", 0, 9, TRUE),
   Process([soft |-> 21, hard |-> 21], "batch", -3, 0, TRUE),
   Process([soft |-> 0, hard |-> 21], "fifo", 0, 9, FALSE),
   Process([soft |-> 4, hard |-> 21], "idle", 0, 0, FALSE)}

=============================================================================
