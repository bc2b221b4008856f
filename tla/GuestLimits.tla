------------------------------ MODULE GuestLimits ------------------------------
(***************************************************************************)
(* The resource limits, scheduling and keyrings of a guest: the builders   *)
(* of the Scheduler, Attributes, Rlimits, Rlimit and Keyring types, and    *)
(* their application between capset and execveat, with the descriptor      *)
(* policy between them because it needs descriptors.  The guest has given  *)
(* up its capabilities by then, so the kernel holds every request against  *)
(* the limits the guest has at that moment.                                *)
(***************************************************************************)
EXTENDS Integers, Sequences

CONSTANTS
  Resources,     \* the limits a policy can set, in the order they are applied
  LimitValues,   \* values a caller gives a soft or hard limit
  Infinity,      \* RLIM_INFINITY, greater than every value
  Nices,         \* nice values a caller asks for
  Priorities,    \* real-time priorities a caller asks for
  Utilizations,  \* utilization hints a caller asks for
  OomScores,     \* OOM score adjustments a caller asks for
  Descriptors,   \* descriptors a caller maps something to
  Callers,       \* what a calling process may hand on to its guest
  None,          \* what an option holds that is not set
  MaxCalls       \* how often a caller calls a builder

Limits == {Resources[i] : i \in 1 .. Len(Resources)}

ASSUME GuestLimitsAssumption ==
  /\ {"nice", "nofile", "rtprio"} \subseteq Limits
  /\ Len(Resources) \in Nat
  /\ \A i, j \in 1 .. Len(Resources) : Resources[i] = Resources[j] => i = j
  /\ Infinity \in Nat /\ LimitValues \subseteq 0 .. Infinity - 1
  /\ Nices \cup Priorities \cup Utilizations \cup OomScores \subseteq Int
  /\ MaxCalls \in Nat

Rlimit == [soft : 0 .. Infinity, hard : 0 .. Infinity]

\* Processes whose keyring and core scheduling cookie are one of owners.
ProcessesWith(owners) ==
  [limits : [Limits -> Rlimit],
   sched : [kind : {"normal", "batch", "idle", "fifo", "round_robin", "deadline"},
            nice : Int, priority : Int, reset : BOOLEAN, min : Int, max : Int],
   oom : Int, oom_floor : Int, cookie : owners, smt : BOOLEAN,
   authority : BOOLEAN, session_keyring : owners, requested_keys : {"caller", "session"}]

ASSUME CallersAssumption == Callers \subseteq ProcessesWith({"caller"})

VARIABLES
  pc,      \* "policy" while the policy is built, then the guest's next step
  calls,   \* calls of a builder so far
  policy,  \* the caller's policy
  caller,  \* the attributes of the calling process
  guest,   \* those of the guest, once it is cloned
  applied  \* how many of Resources the guest has been through

vars == <<pc, calls, policy, caller, guest, applied>>

(***************************************************************************)
(* The builders.                                                           *)
(***************************************************************************)
DefaultRlimit == [soft |-> 0, hard |-> 0]

DefaultAttributes ==
  [reset |-> FALSE, kind |-> "normal", value |-> 0, min |-> None, max |-> None]

DefaultPolicy ==
  [limits |-> [r \in Limits |-> None], attributes |-> None, oom |-> None,
   cookie |-> FALSE, keyring |-> "reset", descriptor |-> None]

OrDefault(option, default) == IF option = None THEN default ELSE option

Build(p) ==
  /\ pc = "policy" /\ calls < MaxCalls
  /\ calls' = calls + 1 /\ policy' = p
  /\ UNCHANGED <<pc, caller, guest, applied>>

\* Rlimits::core, nofile and so on with what their closure does to a limit
Limit(r, configured) == Build([policy EXCEPT !.limits[r] = configured])

ConfigureLimit ==
  \E r \in Limits : LET limit == OrDefault(policy.limits[r], DefaultRlimit) IN
    \/ \E v \in LimitValues \cup {Infinity} :
         \/ Limit(r, [limit EXCEPT !.soft = v])
         \/ Limit(r, [limit EXCEPT !.hard = v])
    \/ Limit(r, None)

Attributes(configured) == Build([policy EXCEPT !.attributes = configured])

ConfigureAttributes ==
  LET attributes == OrDefault(policy.attributes, DefaultAttributes) IN
    \/ \E b \in BOOLEAN : Attributes([attributes EXCEPT !.reset = b])
    \/ \E k \in {"normal", "batch"}, n \in Nices :
         Attributes([attributes EXCEPT !.kind = k, !.value = n])
    \/ \E k \in {"fifo", "round_robin"}, p \in Priorities :
         Attributes([attributes EXCEPT !.kind = k, !.value = p])
    \/ \E k \in {"idle", "deadline"} :
         Attributes([attributes EXCEPT !.kind = k, !.value = 0])
    \/ \E u \in Utilizations \cup {None} :
         \/ Attributes([attributes EXCEPT !.min = u])
         \/ Attributes([attributes EXCEPT !.max = u])
    \/ Attributes(None)

ConfigureScheduler ==
  \/ \E s \in OomScores \cup {None} : Build([policy EXCEPT !.oom = s])
  \/ \E b \in BOOLEAN : Build([policy EXCEPT !.cookie = b])

ConfigureKeyring ==
  \E k \in {"inherit_authority", "inherit", "reset"} : Build([policy EXCEPT !.keyring = k])

\* FdPolicy has the whole of the descriptor policy.
MapDescriptor == \E d \in Descriptors : Build([policy EXCEPT !.descriptor = d])

(***************************************************************************)
(* The kernel: what fork does to the attributes of a process, and its      *)
(* conditions for a process with the attributes p.                         *)
(***************************************************************************)
IsFair(kind) == kind \in {"normal", "batch"}
IsRealTime(kind) == kind \in {"fifo", "round_robin"}

\* SCHED_CAPACITY_SCALE, the largest utilization.
Capacity == 1024

\* A reset-on-fork flag takes what needs privileges from the child, the hints
\* with it, and the flag itself.
Forked(sched) ==
  IF ~sched.reset THEN sched
  ELSE LET privileged == IsRealTime(sched.kind) \/ sched.kind = "deadline" IN
       [kind |-> IF privileged THEN "normal" ELSE sched.kind,
        nice |-> IF privileged \/ sched.nice < 0 THEN 0 ELSE sched.nice,
        priority |-> 0, reset |-> FALSE, min |-> 0, max |-> Capacity]

Cloned(p) == [p EXCEPT !.sched = Forked(@)]

\* sched_setattr takes a nice value to the nearest there is.
Nearest(nice) == IF nice < -20 THEN -20 ELSE IF nice > 19 THEN 19 ELSE nice

Reaches(p, nice) == 20 - nice <= p.limits.nice.soft

MayBeFair(p, a) == Nearest(a.value) >= p.sched.nice \/ Reaches(p, Nearest(a.value))

MayBeRealTime(p, a) ==
  /\ a.value \in 1 .. 99
  /\ a.kind = p.sched.kind \/ p.limits.rtprio.soft > 0
  /\ a.value <= p.sched.priority \/ a.value <= p.limits.rtprio.soft

\* The hint in effect: the new one, or the one the process has.
Hint(asked, had) == IF asked = None THEN had ELSE asked

MayHint(p, a) ==
  /\ Hint(a.min, p.sched.min) <= Hint(a.max, p.sched.max)
  /\ Hint(a.min, 0) <= Capacity /\ Hint(a.max, 0) <= Capacity

\* A guest has no reset-on-fork flag that it would need privileges to clear.
RefusesAttributes(p, a) ==
  \/ a.kind = "deadline"
  \/ IsFair(a.kind) /\ ~MayBeFair(p, a)
  \/ IsRealTime(a.kind) /\ ~MayBeRealTime(p, a)
  \/ p.sched.kind = "idle" /\ a.kind # "idle" /\ ~Reaches(p, p.sched.nice)
  \/ ~MayHint(p, a)

RefusesLimit(p, r, limit) ==
  limit.soft > limit.hard \/ limit.hard > p.limits[r].hard

\* Whether the kernel refuses step s to a process with the attributes p.
Refuses(p, s) ==
  \/ s = "attributes" /\ policy.attributes # None /\ RefusesAttributes(p, policy.attributes)
  \/ s = "oom" /\ policy.oom # None /\ policy.oom < p.oom_floor
  \/ s = "descriptors" /\ policy.descriptor # None
       /\ policy.descriptor >= p.limits.nofile.soft
  \/ /\ s = "limits" /\ applied < Len(Resources)
     /\ LET r == Resources[applied + 1]
        IN policy.limits[r] # None /\ RefusesLimit(p, r, policy.limits[r])

(***************************************************************************)
(* The guest, from apply_scheduler_policy to execveat.                     *)
(***************************************************************************)
\* Limits applied with the other attributes.
OrderLimitsFirst ==
  <<"limits", "attributes", "oom", "cookie", "keyring", "callback", "descriptors", "program">>

\* The steps of guest_post_clone and clone_into in the order they are made.
Order ==
  <<"attributes", "oom", "cookie", "keyring", "callback", "descriptors", "limits", "program">>

After(s) == Order[1 + CHOOSE i \in 1 .. Len(Order) : Order[i] = s]

\* clone3 refuses to copy a deadline, but for a reset-on-fork flag.
Clone ==
  /\ pc = "policy" /\ Forked(caller.sched).kind # "deadline"
  /\ pc' = Order[1] /\ guest' = Cloned(caller)
  /\ UNCHANGED <<calls, policy, caller, applied>>

Go(s) == pc = s /\ ~Refuses(guest, s) /\ pc' = After(s)

\* sched_setattr sets policy and flag, nice for the fair policies only, and
\* the hints for which it has a flag.
WithAttributes(sched, a) ==
  [kind |-> a.kind, nice |-> IF IsFair(a.kind) THEN Nearest(a.value) ELSE sched.nice,
   priority |-> IF IsRealTime(a.kind) THEN a.value ELSE 0, reset |-> a.reset,
   min |-> Hint(a.min, sched.min), max |-> Hint(a.max, sched.max)]

SetAttributes ==
  /\ Go("attributes")
  /\ guest' = IF policy.attributes = None THEN guest
              ELSE [guest EXCEPT !.sched = WithAttributes(@, policy.attributes)]
  /\ UNCHANGED <<calls, policy, caller, applied>>

SetOomScore ==
  /\ Go("oom")
  /\ guest' = [guest EXCEPT !.oom = OrDefault(policy.oom, @)]
  /\ UNCHANGED <<calls, policy, caller, applied>>

\* ENODEV, without simultaneous multithreading, is no error.
CreateCookie ==
  /\ Go("cookie")
  /\ guest' = [guest EXCEPT !.cookie = IF policy.cookie /\ caller.smt THEN "own" ELSE @]
  /\ UNCHANGED <<calls, policy, caller, applied>>

SetKeyring ==
  /\ Go("keyring")
  /\ guest' = [guest EXCEPT
       !.authority = IF policy.keyring = "inherit_authority" THEN @ ELSE FALSE,
       !.session_keyring = IF policy.keyring = "reset" THEN "own" ELSE @,
       !.requested_keys = IF policy.keyring = "reset" THEN "session" ELSE @]
  /\ UNCHANGED <<calls, policy, caller, applied>>

Callback == Go("callback") /\ UNCHANGED <<calls, policy, caller, guest, applied>>

ApplyDescriptors ==
  Go("descriptors") /\ UNCHANGED <<calls, policy, caller, guest, applied>>

\* One prlimit64 for each limit the policy sets.
SetLimit ==
  /\ pc = "limits" /\ ~Refuses(guest, "limits") /\ applied < Len(Resources)
  /\ applied' = applied + 1
  /\ LET r == Resources[applied + 1]
     IN guest' = [guest EXCEPT !.limits[r] = OrDefault(policy.limits[r], @)]
  /\ UNCHANGED <<pc, calls, policy, caller>>

\* A list of limits without the last one.
EndLimitsShort ==
  /\ Go("limits") /\ applied >= Len(Resources) - 1
  /\ UNCHANGED <<calls, policy, caller, guest, applied>>

EndLimits ==
  /\ Go("limits") /\ applied = Len(Resources)
  /\ UNCHANGED <<calls, policy, caller, guest, applied>>

\* The first step refused ends the guest.
Refused ==
  /\ pc # "policy" /\ Refuses(guest, pc)
  /\ pc' = "failed"
  /\ UNCHANGED <<calls, policy, caller, guest, applied>>

Init ==
  /\ pc = "policy" /\ calls = 0 /\ policy = DefaultPolicy
  /\ caller \in Callers /\ guest = caller /\ applied = 0

Next ==
  \/ ConfigureLimit \/ ConfigureAttributes \/ ConfigureScheduler
  \/ ConfigureKeyring \/ MapDescriptor
  \/ Clone \/ SetAttributes \/ SetOomScore \/ CreateCookie \/ SetKeyring
  \/ Callback \/ ApplyDescriptors \/ SetLimit \/ EndLimits \/ Refused

Spec == Init /\ [][Next]_vars

-----------------------------------------------------------------------------
\* What the policy sets never stands in the way of the guest's own set-up:
\* whatever the guest has changed by then, the kernel answers every step as it
\* would answer a guest fresh from the clone.  clone_into applies the limits
\* late "because limits may affect our setup".
NeverInItsOwnWay == pc # "policy" => Refuses(guest, pc) = Refuses(Cloned(caller), pc)

\* Without attributes in the policy the caller's pass unaltered, barring a
\* reset-on-fork flag, which leaves the program nothing privileged.
PassesScheduling ==
  IF caller.sched.reset
    THEN /\ guest.sched.kind \in {"normal", "batch", "idle"} /\ guest.sched.nice >= 0
         /\ guest.sched.priority = 0 /\ ~guest.sched.reset
    ELSE guest.sched = caller.sched

\* With attributes, the program has those.
HasScheduling(a) ==
  /\ guest.sched.kind = a.kind /\ guest.sched.reset = a.reset
  /\ IsFair(a.kind) => guest.sched.nice = Nearest(a.value)
  /\ IsRealTime(a.kind) => guest.sched.priority = a.value
  /\ a.min # None => guest.sched.min = a.min
  /\ a.max # None => guest.sched.max = a.max

\* A program that runs has every limit, attribute and key the policy names at
\* the last value it was given, a cleared one as the caller had it, and none
\* half applied: a refusal of the last limit leaves no program with the others.
LimitsAsAsked ==
  pc = "program" =>
    /\ \A r \in Limits :
         guest.limits[r] = IF policy.limits[r] = None THEN caller.limits[r]
                           ELSE policy.limits[r]
    /\ \A r \in Limits : guest.limits[r].hard <= caller.limits[r].hard
    /\ IF policy.attributes = None THEN PassesScheduling
       ELSE HasScheduling(policy.attributes)
    /\ guest.oom = OrDefault(policy.oom, caller.oom)
    /\ policy.keyring # "inherit_authority" => ~guest.authority
    /\ (policy.keyring = "reset") = (guest.session_keyring = "own")
    /\ guest.requested_keys =
         IF policy.keyring = "reset" THEN "session" ELSE caller.requested_keys
    /\ (policy.cookie /\ caller.smt) = (guest.cookie = "own")

=============================================================================
