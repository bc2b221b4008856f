--------------------------- MODULE GuestLimitsProofs ---------------------------
(***************************************************************************)
(* That a policy's limits do not stand in the way of the guest's set-up,   *)
(* and that a program runs under what was asked: for every list of limits, *)
(* all values of them, every calling process, and any number of calls of   *)
(* the builders.                                                           *)
(***************************************************************************)
EXTENDS GuestLimits, TLAPS

(***************************************************************************)
(* The guest's steps from the last to the first.                           *)
(***************************************************************************)
FromLimits == {"limits", "program"}
FromCallback == {"callback", "descriptors"} \cup FromLimits
FromKeyring == {"keyring"} \cup FromCallback
FromCookie == {"cookie"} \cup FromKeyring
FromOom == {"oom"} \cup FromCookie
FromAttributes == {"attributes"} \cup FromOom

AttributeSets ==
  [reset : BOOLEAN, kind : {"normal", "batch", "idle", "fifo", "round_robin", "deadline"},
   value : Int, min : Utilizations \cup {None}, max : Utilizations \cup {None}]

Policies ==
  [limits : [Limits -> Rlimit \cup {None}], attributes : AttributeSets \cup {None},
   oom : OomScores \cup {None}, cookie : BOOLEAN,
   keyring : {"inherit_authority", "inherit", "reset"},
   descriptor : Descriptors \cup {None}]

TypeOK ==
  /\ pc \in FromAttributes \cup {"policy", "failed"}
  /\ calls \in Nat /\ applied \in 0 .. Len(Resources)
  /\ policy \in Policies
  /\ caller \in ProcessesWith({"caller"}) /\ guest \in ProcessesWith({"caller", "own"})

\* The limit r as the policy has it.
Asked(r) == IF policy.limits[r] = None THEN caller.limits[r] ELSE policy.limits[r]

\* The limits are the caller's until the limits are set, and then those to come are.
LimitsOK ==
  /\ guest.oom_floor = caller.oom_floor
  /\ pc = "policy" => guest = caller
  /\ pc = "attributes" => guest = Cloned(caller)
  /\ pc \in {"policy"} \cup (FromAttributes \ FromLimits) =>
       guest.limits = caller.limits /\ applied = 0
  /\ pc = "limits" =>
       \A i \in 1 .. Len(Resources) :
         /\ i > applied => guest.limits[Resources[i]] = caller.limits[Resources[i]]
         /\ i <= applied =>
              /\ guest.limits[Resources[i]] = Asked(Resources[i])
              /\ guest.limits[Resources[i]].hard <= caller.limits[Resources[i]].hard
  /\ pc = "program" =>
       \A r \in Limits : /\ guest.limits[r] = Asked(r)
                         /\ guest.limits[r].hard <= caller.limits[r].hard

SchedulerOK ==
  /\ pc \in FromOom =>
       IF policy.attributes = None THEN guest.sched = Forked(caller.sched)
       ELSE HasScheduling(policy.attributes)
  /\ pc \in FromAttributes => Forked(caller.sched).kind # "deadline"
  /\ pc = "oom" => guest.oom = caller.oom
  /\ pc \in FromCookie => guest.oom = OrDefault(policy.oom, caller.oom)
  /\ pc \in {"oom", "cookie"} => guest.cookie = "caller"
  /\ pc \in FromKeyring => (policy.cookie /\ caller.smt) = (guest.cookie = "own")

KeyringOK ==
  /\ pc \in FromAttributes \ FromCallback =>
       guest.session_keyring = "caller" /\ guest.requested_keys = caller.requested_keys
  /\ pc \in FromCallback =>
       /\ policy.keyring # "inherit_authority" => ~guest.authority
       /\ (policy.keyring = "reset") = (guest.session_keyring = "own")
       /\ guest.requested_keys =
            IF policy.keyring = "reset" THEN "session" ELSE caller.requested_keys

IInv == TypeOK /\ LimitsOK /\ SchedulerOK /\ KeyringOK

USE DEF FromLimits, FromCallback, FromKeyring, FromCookie, FromOom, FromAttributes

\* Where each step leads.
LEMMA Steps ==
  /\ Order[1] = "attributes"
  /\ After("attributes") = "oom" /\ After("oom") = "cookie"
  /\ After("cookie") = "keyring" /\ After("keyring") = "callback"
  /\ After("callback") = "descriptors" /\ After("descriptors") = "limits"
  /\ After("limits") = "program"
<1>1. \A s : \A i \in 1 .. Len(Order) :
        (Order[i] = s /\ \A j \in 1 .. Len(Order) : Order[j] = s => j = i)
          => After(s) = Order[1 + i]
  <2> SUFFICES ASSUME NEW s, NEW i \in 1 .. Len(Order), Order[i] = s,
                      \A j \in 1 .. Len(Order) : Order[j] = s => j = i
               PROVE  After(s) = Order[1 + i]
    OBVIOUS
  <2>1. (CHOOSE k \in 1 .. Len(Order) : Order[k] = s) = i
    OBVIOUS
  <2> QED
    BY <2>1 DEF After
<1>2. /\ Len(Order) = 8 /\ 1 .. 8 = {1, 2, 3, 4, 5, 6, 7, 8}
      /\ Order[1] = "attributes" /\ Order[2] = "oom" /\ Order[3] = "cookie"
      /\ Order[4] = "keyring" /\ Order[5] = "callback" /\ Order[6] = "descriptors"
      /\ Order[7] = "limits" /\ Order[8] = "program"
  BY DEF Order
<1> HIDE DEF Order
<1>3. /\ After(Order[1]) = Order[2] /\ After(Order[2]) = Order[3]
      /\ After(Order[3]) = Order[4] /\ After(Order[4]) = Order[5]
  BY <1>1, <1>2
<1>4. /\ After(Order[5]) = Order[6] /\ After(Order[6]) = Order[7]
      /\ After(Order[7]) = Order[8]
  BY <1>1, <1>2
<1> QED
  BY <1>2, <1>3, <1>4

LEMMA InitInv == Init => IInv
<1> SUFFICES ASSUME Init PROVE IInv
  OBVIOUS
<1> USE DEF Init
<1>1. policy \in Policies
  BY DEF DefaultPolicy, Policies
<1>2. caller \in ProcessesWith({"caller"}) /\ guest = caller
  BY CallersAssumption
<1>3. guest \in ProcessesWith({"caller", "own"})
  BY <1>2 DEF ProcessesWith
<1>4. TypeOK
  BY <1>1, <1>2, <1>3, GuestLimitsAssumption DEF TypeOK
<1> QED
  BY <1>2, <1>4 DEF IInv, LimitsOK, SchedulerOK, KeyringOK

\* A builder changes the policy, and there is no guest yet.
LEMMA BuildInv ==
  ASSUME IInv, NEW p \in Policies, Build(p)
  PROVE  IInv'
<1> USE DEF IInv
<1>1. /\ pc = "policy" /\ pc' = pc /\ calls' = calls + 1 /\ policy' = p
      /\ caller' = caller /\ guest' = guest /\ applied' = applied
  BY DEF Build
<1>2. TypeOK'
  BY <1>1 DEF TypeOK
<1> QED
  BY <1>1, <1>2 DEF LimitsOK, SchedulerOK, KeyringOK

\* What a builder makes of a policy is a policy.
LEMMA ConfigureInv ==
  ASSUME IInv,
         \/ ConfigureLimit \/ ConfigureAttributes \/ ConfigureScheduler
         \/ ConfigureKeyring \/ MapDescriptor
  PROVE  IInv'
<1>1. policy \in Policies
  BY DEF IInv, TypeOK
<1>2. CASE ConfigureLimit
  <2>1. PICK r \in Limits, l \in Rlimit \cup {None} : Limit(r, l)
    <3>1. PICK r \in Limits :
            LET limit == OrDefault(policy.limits[r], DefaultRlimit) IN
              \/ \E v \in LimitValues \cup {Infinity} :
                   \/ Limit(r, [limit EXCEPT !.soft = v])
                   \/ Limit(r, [limit EXCEPT !.hard = v])
              \/ Limit(r, None)
      BY <1>2 DEF ConfigureLimit
    <3> DEFINE limit == OrDefault(policy.limits[r], DefaultRlimit)
    <3>2. limit \in Rlimit
      BY <1>1, GuestLimitsAssumption DEF OrDefault, DefaultRlimit, Rlimit, Policies
    <3>3. \A v \in LimitValues \cup {Infinity} :
            [limit EXCEPT !.soft = v] \in Rlimit /\ [limit EXCEPT !.hard = v] \in Rlimit
      <4> HIDE DEF limit
      <4>1. LimitValues \cup {Infinity} \subseteq 0 .. Infinity
        BY GuestLimitsAssumption
      <4> QED
        BY <3>2, <4>1 DEF Rlimit
    <3> QED
      BY <3>1, <3>3
  <2>2. [policy EXCEPT !.limits[r] = l] \in Policies
    BY <1>1 DEF Policies
  <2> QED
    BY <2>1, <2>2, BuildInv DEF Limit
<1>3. CASE ConfigureAttributes
  <2> DEFINE attributes == OrDefault(policy.attributes, DefaultAttributes)
  <2>1. attributes \in AttributeSets
    BY <1>1 DEF OrDefault, DefaultAttributes, AttributeSets, Policies
  <2>2. PICK a \in AttributeSets \cup {None} : Attributes(a)
    <3>1. /\ \A b \in BOOLEAN : [attributes EXCEPT !.reset = b] \in AttributeSets
          /\ \A u \in Utilizations \cup {None} :
               /\ [attributes EXCEPT !.min = u] \in AttributeSets
               /\ [attributes EXCEPT !.max = u] \in AttributeSets
      <4> HIDE DEF attributes
      <4> QED
        BY <2>1 DEF AttributeSets
    <3>2. \A k \in {"normal", "batch", "fifo", "round_robin", "idle", "deadline"}, n \in Int :
            [attributes EXCEPT !.kind = k, !.value = n] \in AttributeSets
      <4> HIDE DEF attributes
      <4> QED
        BY <2>1 DEF AttributeSets
    <3>3. Nices \subseteq Int /\ Priorities \subseteq Int /\ 0 \in Int
      BY GuestLimitsAssumption
    <3> QED
      BY <1>3, <3>1, <3>2, <3>3 DEF ConfigureAttributes
  <2>3. [policy EXCEPT !.attributes = a] \in Policies
    BY <1>1 DEF Policies
  <2> QED
    BY <2>2, <2>3, BuildInv DEF Attributes
<1>4. CASE ConfigureScheduler
  <2>1. /\ \A s \in OomScores \cup {None} : [policy EXCEPT !.oom = s] \in Policies
        /\ \A b \in BOOLEAN : [policy EXCEPT !.cookie = b] \in Policies
    BY <1>1 DEF Policies
  <2> QED
    BY <1>4, <2>1, BuildInv DEF ConfigureScheduler
<1>5. CASE ConfigureKeyring
  <2>1. \A k \in {"inherit_authority", "inherit", "reset"} :
          [policy EXCEPT !.keyring = k] \in Policies
    BY <1>1 DEF Policies
  <2> QED
    BY <1>5, <2>1, BuildInv DEF ConfigureKeyring
<1>6. CASE MapDescriptor
  <2>1. \A d \in Descriptors : [policy EXCEPT !.descriptor = d] \in Policies
    BY <1>1 DEF Policies
  <2> QED
    BY <1>6, <2>1, BuildInv DEF MapDescriptor
<1> QED
  BY <1>2, <1>3, <1>4, <1>5, <1>6

Schedulings ==
  [kind : {"normal", "batch", "idle", "fifo", "round_robin", "deadline"},
   nice : Int, priority : Int, reset : BOOLEAN, min : Int, max : Int]

\* What fork leaves of the caller's scheduling, and of the rest of the caller.
LEMMA ClonedFields ==
  ASSUME NEW p \in ProcessesWith({"caller"})
  PROVE  /\ Cloned(p) \in ProcessesWith({"caller", "own"})
         /\ Cloned(p).sched = Forked(p.sched) /\ Cloned(p).limits = p.limits
         /\ Cloned(p).oom = p.oom /\ Cloned(p).oom_floor = p.oom_floor
         /\ Cloned(p).cookie = "caller" /\ Cloned(p).session_keyring = "caller"
         /\ Cloned(p).requested_keys = p.requested_keys
<1>1. p.sched \in Schedulings
  BY DEF ProcessesWith, Schedulings
<1>2. Forked(p.sched) \in Schedulings
  <2>1. CASE ~p.sched.reset
    BY <1>1, <2>1 DEF Forked
  <2>2. CASE p.sched.reset
    <3> DEFINE privileged == IsRealTime(p.sched.kind) \/ p.sched.kind = "deadline"
               k == IF privileged THEN "normal" ELSE p.sched.kind
               n == IF privileged \/ p.sched.nice < 0 THEN 0 ELSE p.sched.nice
    <3>1. k \in {"normal", "batch", "idle", "fifo", "round_robin", "deadline"} /\ n \in Int
      BY <1>1 DEF Schedulings
    <3>2. Forked(p.sched) = [kind |-> k, nice |-> n, priority |-> 0, reset |-> FALSE,
                             min |-> 0, max |-> Capacity]
      BY <2>2 DEF Forked
    <3> HIDE DEF k, n
    <3> QED
      BY <3>1, <3>2 DEF Schedulings, Capacity
  <2> QED
    BY <2>1, <2>2
<1>3. \A s \in Schedulings : [p EXCEPT !.sched = s] \in ProcessesWith({"caller", "own"})
  BY DEF ProcessesWith, Schedulings
<1>4. Cloned(p) = [p EXCEPT !.sched = Forked(p.sched)]
  BY DEF Cloned, ProcessesWith
<1> QED
  BY <1>2, <1>3, <1>4 DEF ProcessesWith

\* Scheduling that fork has been at gives the program nothing privileged.
LEMMA ForkedFields ==
  ASSUME NEW s \in Schedulings, s.reset, Forked(s).kind # "deadline"
  PROVE  /\ Forked(s).kind \in {"normal", "batch", "idle"} /\ Forked(s).nice >= 0
         /\ Forked(s).priority = 0 /\ ~Forked(s).reset
  BY DEF Forked, Schedulings, IsRealTime

\* What sched_setattr leaves of a process's scheduling.
LEMMA WithAttributesFields ==
  ASSUME NEW s \in Schedulings, NEW a \in AttributeSets
  PROVE  /\ WithAttributes(s, a) \in Schedulings
         /\ WithAttributes(s, a).kind = a.kind
         /\ WithAttributes(s, a).reset = a.reset
         /\ IsFair(a.kind) => WithAttributes(s, a).nice = Nearest(a.value)
         /\ IsRealTime(a.kind) => WithAttributes(s, a).priority = a.value
         /\ a.min # None => WithAttributes(s, a).min = a.min
         /\ a.max # None => WithAttributes(s, a).max = a.max
<1>1. Nearest(a.value) \in Int
  BY DEF Nearest, AttributeSets
<1>2. /\ (IF IsFair(a.kind) THEN Nearest(a.value) ELSE s.nice) \in Int
      /\ (IF IsRealTime(a.kind) THEN a.value ELSE 0) \in Int
      /\ a.kind \in {"normal", "batch", "idle", "fifo", "round_robin", "deadline"}
      /\ a.reset \in BOOLEAN
  BY <1>1 DEF AttributeSets, Schedulings
<1>3. /\ Hint(a.min, s.min) \in Int /\ Hint(a.max, s.max) \in Int
      /\ a.min # None => Hint(a.min, s.min) = a.min
      /\ a.max # None => Hint(a.max, s.max) = a.max
  BY GuestLimitsAssumption DEF Hint, AttributeSets, Schedulings
<1> QED
  BY <1>2, <1>3 DEF WithAttributes, Schedulings

LEMMA AttributesInv == IInv /\ SetAttributes => IInv'
<1> SUFFICES ASSUME IInv, SetAttributes PROVE IInv'
  OBVIOUS
<1> USE DEF IInv
<1>1. /\ pc = "attributes" /\ pc' = "oom" /\ ~Refuses(guest, "attributes")
      /\ calls' = calls /\ policy' = policy /\ caller' = caller /\ applied' = applied
      /\ guest' = IF policy.attributes = None THEN guest
                  ELSE [guest EXCEPT !.sched = WithAttributes(@, policy.attributes)]
  BY Steps DEF SetAttributes, Go
<1>2. guest = Cloned(caller)
  BY <1>1 DEF LimitsOK
<1>3. /\ guest.sched = Forked(caller.sched) /\ guest.oom = caller.oom
      /\ guest.cookie = "caller" /\ guest.session_keyring = "caller"
      /\ guest.requested_keys = caller.requested_keys
  BY <1>2, ClonedFields DEF TypeOK
<1>4. CASE policy.attributes = None
  <2>1. guest' = guest
    BY <1>1, <1>4
  <2> QED
    BY <1>1, <1>3, <1>4, <2>1 DEF TypeOK, LimitsOK, SchedulerOK, KeyringOK
<1>5. CASE policy.attributes # None
  <2> DEFINE a == policy.attributes
             w == WithAttributes(guest.sched, a)
  <2>1. a \in AttributeSets /\ guest.sched \in Schedulings
    BY <1>5 DEF TypeOK, Policies, ProcessesWith, Schedulings
  <2>2. guest' = [guest EXCEPT !.sched = w]
    BY <1>1, <1>5
  <2>3. TypeOK'
    <3>1. w \in Schedulings
      BY <2>1, WithAttributesFields
    <3> HIDE DEF w
    <3>2. \A s \in Schedulings :
            [guest EXCEPT !.sched = s] \in ProcessesWith({"caller", "own"})
      BY DEF TypeOK, ProcessesWith, Schedulings
    <3> QED
      BY <1>1, <2>2, <3>1, <3>2 DEF TypeOK
  <2>4. /\ guest'.sched = w /\ guest'.limits = guest.limits
        /\ guest'.oom = guest.oom /\ guest'.oom_floor = guest.oom_floor
        /\ guest'.cookie = guest.cookie /\ guest'.session_keyring = guest.session_keyring
        /\ guest'.requested_keys = guest.requested_keys
    <3> HIDE DEF w
    <3> QED
      BY <2>2 DEF TypeOK, ProcessesWith
  <2>5. LimitsOK' /\ KeyringOK'
    <3> HIDE DEF w
    <3> QED
      BY <1>1, <1>3, <2>4 DEF LimitsOK, KeyringOK
  <2>6. HasScheduling(a)'
    <3>1. a' = a
      BY <1>1
    <3> QED
      BY <2>1, <2>4, <3>1, WithAttributesFields DEF HasScheduling
  <2>7. SchedulerOK'
    <3> HIDE DEF w
    <3> QED
      BY <1>1, <1>3, <1>5, <2>4, <2>6 DEF SchedulerOK
  <2> QED
    BY <2>3, <2>5, <2>7
<1> QED
  BY <1>4, <1>5

\* The steps between the attributes and the limits.
LEMMA MiddleInv ==
  ASSUME IInv, Clone \/ SetOomScore \/ CreateCookie \/ SetKeyring \/ Callback \/ ApplyDescriptors
  PROVE  IInv'
<1> USE DEF IInv
<1>1. CASE Clone
  <2>1. /\ pc = "policy" /\ pc' = "attributes" /\ guest' = Cloned(caller)
        /\ Forked(caller.sched).kind # "deadline" /\ applied = 0
        /\ UNCHANGED <<calls, policy, caller, applied>>
    BY <1>1, Steps DEF Clone, LimitsOK
  <2>2. /\ Cloned(caller) \in ProcessesWith({"caller", "own"})
        /\ Cloned(caller).limits = caller.limits
        /\ Cloned(caller).oom_floor = caller.oom_floor
        /\ Cloned(caller).session_keyring = "caller"
        /\ Cloned(caller).requested_keys = caller.requested_keys
    BY ClonedFields DEF TypeOK
  <2>3. TypeOK'
    BY <2>1, <2>2 DEF TypeOK
  <2>4. LimitsOK' /\ SchedulerOK' /\ KeyringOK'
    BY <2>1, <2>2 DEF LimitsOK, SchedulerOK, KeyringOK
  <2> QED
    BY <2>3, <2>4
<1>2. CASE SetOomScore
  <2>1. /\ pc = "oom" /\ pc' = "cookie"
        /\ guest' = [guest EXCEPT !.oom = OrDefault(policy.oom, @)]
        /\ UNCHANGED <<calls, policy, caller, applied>>
    BY <1>2, Steps DEF SetOomScore, Go
  <2>2. OrDefault(policy.oom, guest.oom) \in Int
    BY GuestLimitsAssumption DEF OrDefault, TypeOK, Policies, ProcessesWith
  <2>3. TypeOK'
    BY <2>1, <2>2 DEF TypeOK, ProcessesWith
  <2>4. LimitsOK' /\ KeyringOK'
    BY <2>1 DEF TypeOK, LimitsOK, KeyringOK, ProcessesWith
  <2>5. SchedulerOK'
    BY <2>1 DEF TypeOK, SchedulerOK, HasScheduling, ProcessesWith, OrDefault
  <2> QED
    BY <2>3, <2>4, <2>5
<1>3. CASE CreateCookie
  <2>1. /\ pc = "cookie" /\ pc' = "keyring"
        /\ guest' = [guest EXCEPT !.cookie =
                       IF policy.cookie /\ caller.smt THEN "own" ELSE @]
        /\ UNCHANGED <<calls, policy, caller, applied>>
    BY <1>3, Steps DEF CreateCookie, Go
  <2>2. TypeOK'
    <3>1. (IF policy.cookie /\ caller.smt THEN "own" ELSE guest.cookie) \in {"caller", "own"}
      BY DEF TypeOK, ProcessesWith
    <3> QED
      BY <2>1, <3>1, SMTT(60) DEF TypeOK, ProcessesWith
  <2>3. LimitsOK' /\ KeyringOK'
    BY <2>1 DEF TypeOK, LimitsOK, KeyringOK, ProcessesWith
  <2>4. SchedulerOK'
    BY <2>1 DEF TypeOK, SchedulerOK, HasScheduling, ProcessesWith
  <2> QED
    BY <2>2, <2>3, <2>4
<1>4. CASE SetKeyring
  <2>1. /\ pc = "keyring" /\ pc' = "callback"
        /\ guest' = [guest EXCEPT
             !.authority = IF policy.keyring = "inherit_authority" THEN @ ELSE FALSE,
             !.session_keyring = IF policy.keyring = "reset" THEN "own" ELSE @,
             !.requested_keys = IF policy.keyring = "reset" THEN "session" ELSE @]
        /\ UNCHANGED <<calls, policy, caller, applied>>
    BY <1>4, Steps DEF SetKeyring, Go
  <2>2. TypeOK'
    <3>1. \A b \in BOOLEAN, k \in {"caller", "own"}, q \in {"caller", "session"} :
            [guest EXCEPT !.authority = b, !.session_keyring = k, !.requested_keys = q]
              \in ProcessesWith({"caller", "own"})
      BY DEF TypeOK, ProcessesWith
    <3>2. /\ (IF policy.keyring = "inherit_authority" THEN guest.authority ELSE FALSE) \in BOOLEAN
          /\ (IF policy.keyring = "reset" THEN "own" ELSE guest.session_keyring)
               \in {"caller", "own"}
          /\ (IF policy.keyring = "reset" THEN "session" ELSE guest.requested_keys)
               \in {"caller", "session"}
      BY DEF TypeOK, ProcessesWith
    <3>3. guest' \in ProcessesWith({"caller", "own"})
      BY <2>1, <3>1, <3>2
    <3> QED
      BY <2>1, <3>3 DEF TypeOK
  <2>3. LimitsOK' /\ SchedulerOK'
    BY <2>1 DEF TypeOK, LimitsOK, SchedulerOK, HasScheduling, ProcessesWith
  <2>4. KeyringOK'
    BY <2>1 DEF TypeOK, KeyringOK, ProcessesWith
  <2> QED
    BY <2>2, <2>3, <2>4
<1>5. CASE Callback \/ ApplyDescriptors
  <2>1. /\ \/ pc = "callback" /\ pc' = "descriptors"
           \/ pc = "descriptors" /\ pc' = "limits"
        /\ UNCHANGED <<calls, policy, caller, guest, applied>>
    BY <1>5, Steps DEF Callback, ApplyDescriptors, Go
  <2> QED
    BY <2>1, GuestLimitsAssumption DEF TypeOK, LimitsOK, SchedulerOK, HasScheduling, KeyringOK, Limits
<1> QED
  BY <1>1, <1>2, <1>3, <1>4, <1>5

\* Each limit is set once, and the kernel holds it against the caller's.
LEMMA SetLimitInv == IInv /\ SetLimit => IInv'
<1> SUFFICES ASSUME IInv, SetLimit PROVE IInv'
  OBVIOUS
<1> USE DEF IInv
<1> DEFINE r == Resources[applied + 1]
           v == OrDefault(policy.limits[r], guest.limits[r])
<1>1. /\ pc = "limits" /\ ~Refuses(guest, "limits") /\ applied < Len(Resources)
      /\ applied' = applied + 1 /\ guest' = [guest EXCEPT !.limits[r] = v]
      /\ UNCHANGED <<pc, calls, policy, caller>>
  BY DEF SetLimit
<1>2. applied + 1 \in 1 .. Len(Resources) /\ r \in Limits
  BY <1>1, GuestLimitsAssumption DEF TypeOK, Limits
<1>3. guest.limits[r] = caller.limits[r] /\ guest.limits[r] \in Rlimit
  BY <1>1, <1>2, SMTT(60) DEF LimitsOK, TypeOK, ProcessesWith
<1>4. v \in Rlimit /\ v = Asked(r)
  BY <1>2, <1>3 DEF OrDefault, Asked, TypeOK, Policies
<1>5. v.hard <= caller.limits[r].hard
  <2>1. v.hard \in Int /\ caller.limits[r].hard \in Int
    BY <1>3, <1>4, GuestLimitsAssumption DEF Rlimit
  <2>2. CASE policy.limits[r] = None
    BY <1>3, <2>1, <2>2 DEF OrDefault
  <2>3. CASE policy.limits[r] # None
    <3>1. ~(policy.limits[r].hard > guest.limits[r].hard)
      BY <1>1, <2>3 DEF Refuses, RefusesLimit
    <3> QED
      BY <1>3, <2>1, <2>3, <3>1 DEF OrDefault
  <2> QED
    BY <2>2, <2>3
<1> HIDE DEF v
<1>6. /\ guest'.limits = [guest.limits EXCEPT ![r] = v]
      /\ guest'.oom_floor = guest.oom_floor /\ guest'.sched = guest.sched
      /\ guest'.oom = guest.oom /\ guest'.cookie = guest.cookie
      /\ guest'.authority = guest.authority
      /\ guest'.session_keyring = guest.session_keyring
  BY <1>1 DEF TypeOK, ProcessesWith
<1>7. TypeOK'
  <2>1. guest.limits \in [Limits -> Rlimit]
    BY DEF TypeOK, ProcessesWith
  <2>2. [guest.limits EXCEPT ![r] = v] \in [Limits -> Rlimit]
    BY <1>2, <1>4, <2>1
  <2>3. guest' \in ProcessesWith({"caller", "own"})
    BY <1>1, <2>2 DEF TypeOK, ProcessesWith
  <2>4. applied' \in 0 .. Len(Resources)
    BY <1>1, <1>2, GuestLimitsAssumption
  <2> QED
    BY <1>1, <2>3, <2>4 DEF TypeOK
<1>8. LimitsOK'
  <2>1. SUFFICES ASSUME NEW i \in 1 .. Len(Resources)
                 PROVE  /\ i > applied' =>
                             guest'.limits[Resources[i]] = caller.limits[Resources[i]]
                        /\ i <= applied' =>
                             /\ guest'.limits[Resources[i]] = Asked(Resources[i])
                             /\ guest'.limits[Resources[i]].hard
                                  <= caller.limits[Resources[i]].hard
    BY <1>1, <1>6 DEF LimitsOK, Asked
  <2>2. Resources[i] \in Limits
    BY DEF Limits
  <2>3. guest.limits \in [Limits -> Rlimit]
    BY DEF TypeOK, ProcessesWith
  <2>4. CASE i = applied + 1
    <3>1. guest'.limits[Resources[i]] = v
      BY <1>2, <1>6, <2>3, <2>4
    <3> QED
      BY <1>1, <1>4, <1>5, <2>4, <3>1 DEF TypeOK
  <2>5. CASE i # applied + 1
    <3>1. Resources[i] # r
      BY <1>2, <2>5, GuestLimitsAssumption
    <3>2. guest'.limits[Resources[i]] = guest.limits[Resources[i]]
      BY <1>6, <2>2, <2>3, <3>1
    <3>3. (i > applied' => i > applied) /\ (i <= applied' => i <= applied)
      BY <1>1, <2>5 DEF TypeOK
    <3> QED
      BY <1>1, <3>2, <3>3 DEF LimitsOK
  <2> QED
    BY <2>4, <2>5
<1>9. SchedulerOK' /\ KeyringOK'
  BY <1>1, <1>6 DEF SchedulerOK, HasScheduling, KeyringOK
<1> QED
  BY <1>7, <1>8, <1>9

LEMMA NextInv == IInv /\ [Next]_vars => IInv'
<1> SUFFICES ASSUME IInv, [Next]_vars PROVE IInv'
  OBVIOUS
<1>1. CASE EndLimits
  <2>1. /\ pc = "limits" /\ pc' = "program" /\ applied = Len(Resources)
        /\ UNCHANGED <<calls, policy, caller, guest, applied>>
    BY <1>1, Steps DEF EndLimits, Go
  <2>2. \A r \in Limits : \E i \in 1 .. Len(Resources) : i <= applied /\ r = Resources[i]
    BY <2>1, GuestLimitsAssumption DEF Limits
  <2>3. \A r \in Limits : /\ guest.limits[r] = Asked(r)
                          /\ guest.limits[r].hard <= caller.limits[r].hard
    BY <2>1, <2>2 DEF IInv, LimitsOK
  <2>4. LimitsOK'
    BY <2>1, <2>3 DEF IInv, LimitsOK, Asked
  <2> QED
    BY <2>1, <2>4 DEF IInv, TypeOK, SchedulerOK, HasScheduling, KeyringOK
<1>2. CASE Refused
  BY <1>2 DEF Refused, IInv, TypeOK, LimitsOK, SchedulerOK, KeyringOK
<1>3. CASE UNCHANGED vars
  BY <1>3 DEF vars, IInv, TypeOK, LimitsOK, SchedulerOK, HasScheduling, KeyringOK, Asked
<1> QED
  BY <1>1, <1>2, <1>3, ConfigureInv, AttributesInv, MiddleInv, SetLimitInv DEF Next

\* A step is held against limits that are still the caller's.
LEMMA InvInTheWay == IInv => NeverInItsOwnWay
<1> SUFFICES ASSUME IInv, pc # "policy" PROVE Refuses(guest, pc) = Refuses(Cloned(caller), pc)
  BY DEF NeverInItsOwnWay
<1> USE DEF IInv
<1> DEFINE fresh == Cloned(caller)
<1>0. fresh.limits = caller.limits /\ fresh.oom_floor = caller.oom_floor
  BY ClonedFields DEF TypeOK
<1>1. CASE pc = "attributes"
  BY <1>1 DEF LimitsOK
<1> HIDE DEF fresh
<1>2. CASE pc = "oom"
  BY <1>0, <1>2 DEF LimitsOK, Refuses, fresh
<1>3. CASE pc = "descriptors"
  BY <1>0, <1>3 DEF LimitsOK, Refuses, fresh
<1>4. CASE pc = "limits"
  <2>1. CASE applied < Len(Resources)
    <3>1. /\ applied + 1 \in 1 .. Len(Resources) /\ applied + 1 > applied
      BY <2>1, GuestLimitsAssumption DEF TypeOK
    <3>2. guest.limits[Resources[applied + 1]] = caller.limits[Resources[applied + 1]]
      BY <1>4, <3>1 DEF LimitsOK
    <3> QED
      BY <1>0, <1>4, <3>2 DEF Refuses, RefusesLimit, fresh
  <2>2. CASE ~(applied < Len(Resources))
    BY <1>4, <2>2 DEF Refuses
  <2> QED
    BY <2>1, <2>2
<1>5. CASE pc \notin {"attributes", "oom", "descriptors", "limits"}
  BY <1>5 DEF Refuses
<1> QED
  BY <1>1, <1>2, <1>3, <1>4, <1>5

LEMMA InvAsked == IInv => LimitsAsAsked
<1> SUFFICES ASSUME IInv, pc = "program" PROVE LimitsAsAsked
  BY DEF LimitsAsAsked
<1>1. policy.attributes = None => PassesScheduling
  <2> SUFFICES ASSUME policy.attributes = None PROVE PassesScheduling
    OBVIOUS
  <2>1. caller.sched \in Schedulings
    BY DEF IInv, TypeOK, ProcessesWith, Schedulings
  <2>2. guest.sched = Forked(caller.sched) /\ Forked(caller.sched).kind # "deadline"
    BY DEF IInv, SchedulerOK
  <2>3. CASE caller.sched.reset
    BY <2>1, <2>2, <2>3, ForkedFields DEF PassesScheduling
  <2>4. CASE ~caller.sched.reset
    BY <2>2, <2>4 DEF PassesScheduling, Forked
  <2> QED
    BY <2>3, <2>4
<1> QED
  BY <1>1 DEF IInv, LimitsAsAsked, LimitsOK, SchedulerOK, KeyringOK, Asked

\* What clone_into and guest_post_clone ask of the kernel is answered as a guest
\* fresh from the clone would be answered: the policy's limits come after all
\* that they bear on.
THEOREM LimitsComeLast == Spec => []NeverInItsOwnWay
BY InitInv, NextInv, InvInTheWay, PTL DEF Spec

\* A program has the limits, the scheduling attributes and the keys of its
\* policy, what is passed on where the policy is silent, and hard limits that
\* are never above the caller's.
THEOREM LimitsAreExact == Spec => []LimitsAsAsked
BY InitInv, NextInv, InvAsked, PTL DEF Spec

=============================================================================
