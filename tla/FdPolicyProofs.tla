--------------------------- MODULE FdPolicyProofs ---------------------------
(***************************************************************************)
(* Proofs about FdPolicy, for every policy, every table and every number   *)
(* of descriptors.                                                         *)
(***************************************************************************)
EXTENDS FdPolicy, TLAPS

Cloned == Applying \cup {"done", "failed", "program"}
InLoop == {"entry", "mark"}

\* The loop has not begun before the clone.
BuildSound == stage = "build" => rangeStart = 0 /\ delayed = Free

\* What Clone establishes, and nothing changes.
GivenSound ==
  stage \in Cloned =>
    /\ IsValid
    /\ given.pipe \in given.cloexec /\ given.cloexec \subseteq given.open
    /\ Sources \subseteq given.open \ {given.pipe}

\* The pipe stays where it was until it is moved.
PipeInPlace == stage \in InLoop \cup {"move"} => pipe = given.pipe

Original(fd) == IF fd \in given.open THEN fd ELSE Free

Untouched(fd) ==
  table[fd] = Original(fd) /\ (fd \in cloexec <=> fd \in given.cloexec)

Treated(fd) ==
  /\ policy[fd] >= 0 => table[fd] = policy[fd] /\ fd \notin cloexec
  /\ policy[fd] = Ignore => Untouched(fd)
  /\ policy[fd] = Default => fd \in cloexec \/ table[fd] = Free

\* The loop has dealt with fd.
Behind(fd) == fd < rangeStart \/ (stage = "mark" /\ IsEntry(fd))

\* Every descriptor but the pipe's is treated once the loop is past it.
LoopSound ==
  stage \in InLoop \cup {"move"} =>
    \A fd \in Fd \ {given.pipe} : IF Behind(fd) THEN Treated(fd) ELSE Untouched(fd)

\* A mapping over the pipe is remembered.
DelayedSound ==
  /\ stage \in InLoop =>
       /\ delayed \in {Free, policy[given.pipe]}
       /\ Behind(given.pipe) /\ policy[given.pipe] >= 0 => delayed = policy[given.pipe]
  /\ stage = "move" => rangeStart = MaxFd + 1
  /\ stage \in {"move", "remap"} => delayed = policy[given.pipe] /\ delayed \in Fd

\* The descriptor of the pipe is free for its mapping, and the pipe took one
\* that the program sees closed.
MovedSound ==
  stage = "remap" =>
    /\ target = given.pipe /\ pipe # target
    /\ Meaning(pipe) = Free
    /\ \A fd \in Fd \ {target, pipe} : Treated(fd)

\* What execveat(2) would leave of the table.
Kept(fd) == IF fd \in cloexec THEN Free ELSE table[fd]

DoneSound == stage = "done" => \A fd \in Fd : Kept(fd) = Meaning(fd)

IInv ==
  /\ TypeOK
  /\ BuildSound
  /\ GivenSound
  /\ PipeInPlace
  /\ PipeUsable
  /\ SourcesIntact
  /\ LoopSound
  /\ DelayedSound
  /\ MovedSound
  /\ DoneSound
  /\ ProgramSeesPolicy

-----------------------------------------------------------------------------
\* A treated descriptor is what the policy means.
LEMMA TreatedMeans ==
  ASSUME NEW fd \in Fd, TypeOK, given.cloexec \subseteq given.open, Treated(fd)
  PROVE  Kept(fd) = Meaning(fd)
  BY DEF TypeOK, Treated, Untouched, Original, Kept, Meaning, Action, Key, Fd,
         Default, Ignore, Free

LEMMA InitSound == Init => IInv
  BY FdPolicyAssumption
     DEF Init, IInv, TypeOK, BuildSound, GivenSound, PipeInPlace, PipeUsable, SourcesIntact,
         LoopSound, DelayedSound, MovedSound, DoneSound, ProgramSeesPolicy, Cloned,
         InLoop, Applying, Stage, NoTable, Fd, Key, Action, Default, Ignore, Free

\* Marking only adds descriptors that are open.
LEMMA MarkedBetween ==
  ASSUME TypeOK, NEW first \in 0 .. MaxFd + 1, NEW last \in Int, last <= MaxFd
  PROVE  /\ Marked(first, last) \in SUBSET Fd
         /\ \A fd \in Fd :
              fd \in Marked(first, last) <=>
                fd \in cloexec \/ (first <= fd /\ fd <= last /\ table[fd] # Free)
<1>1. Marked(first, last) = cloexec \cup {fd \in first .. last : table[fd] # Free}
  BY DEF Marked
<1>2. {fd \in first .. last : table[fd] # Free} \in SUBSET Fd
  BY FdPolicyAssumption DEF Fd
<1>3. \A fd \in Fd : fd \in {f \in first .. last : table[f] # Free} <=>
                     (first <= fd /\ fd <= last /\ table[fd] # Free)
  BY FdPolicyAssumption DEF Fd
<1>4. cloexec \in SUBSET Fd
  BY DEF TypeOK
<1> QED
  BY <1>1, <1>2, <1>3, <1>4

LEMMA TypeStep == IInv /\ [Next]_vars => TypeOK'
<1> SUFFICES ASSUME IInv, [Next]_vars PROVE TypeOK'
  OBVIOUS
<1> USE FdPolicyAssumption
    DEF IInv, TypeOK, Stage, Applying, Action, Key, Fd, Default, Ignore, Free,
        tableVars, cursorVars, Step
<1>0. CASE UNCHANGED vars
  BY <1>0 DEF vars
<1>1. ASSUME NEW fd \in Key, NEW action \in Action, SetAction(fd, action) PROVE TypeOK'
  BY <1>1 DEF SetAction
<1>2. CASE Clear
  BY <1>2 DEF Clear
<1>3. CASE Reject
  BY <1>3 DEF Reject
<1>4. ASSUME NEW open \in SUBSET Fd, NEW closing \in SUBSET Fd, NEW p \in Fd,
             Clone(open, closing, p)
      PROVE  TypeOK'
  BY <1>4 DEF Clone
<1>5. ASSUME NEW fd \in Fd, Map(fd) PROVE TypeOK'
  BY <1>5 DEF Map
<1>6. ASSUME NEW fd \in Fd, Delay(fd) PROVE TypeOK'
  BY <1>6 DEF Delay
<1>7. ASSUME NEW fd \in Fd, Leave(fd) PROVE TypeOK'
  BY <1>7 DEF Leave
<1>8. ASSUME NEW fd \in Fd, MarkBefore(fd) PROVE TypeOK'
  BY <1>8, MarkedBetween DEF MarkBefore, IsEntry
<1>9. CASE MarkRest
  <2>1. stage' \in Stage
    BY <1>9 DEF MarkRest
  <2>2. cloexec' \in SUBSET Fd
    BY <1>9, MarkedBetween DEF MarkRest
  <2> QED
    BY <1>9, <2>1, <2>2 DEF MarkRest
<1>10. CASE MovePipe
  <2>1. PICK fd \in Fd : table' = [table EXCEPT ![fd] = table[pipe], ![pipe] = Free]
                        /\ cloexec' = (cloexec \cup {fd}) \ {pipe} /\ pipe' = fd
    BY <1>10 DEF MovePipe
  <2>2. pipe \in Fd
    BY <1>10 DEF MovePipe, PipeUsable
  <2> QED
    BY <1>10, <2>1, <2>2 DEF MovePipe
<1>11. CASE Remap
  <2>1. delayed \in Fd
    BY <1>11 DEF Remap, DelayedSound
  <2> QED
    BY <1>11, <2>1 DEF Remap
<1>12. CASE Fail
  BY <1>12 DEF Fail
<1>13. CASE Exec
  BY <1>13 DEF Exec
<1> QED
  BY <1>0, <1>1, <1>2, <1>3, <1>4, <1>5, <1>6, <1>7, <1>8, <1>9, <1>10, <1>11, <1>12,
     <1>13 DEF Next, Build, Apply

LEMMA SoundStep == IInv /\ [Next]_vars => IInv'
<1> SUFFICES ASSUME IInv, [Next]_vars PROVE IInv'
  OBVIOUS
<1>t. TypeOK'
  BY TypeStep
<1> USE FdPolicyAssumption
    DEF IInv, TypeOK, BuildSound, GivenSound, PipeInPlace, PipeUsable, SourcesIntact, LoopSound,
        DelayedSound, MovedSound, DoneSound, ProgramSeesPolicy, Cloned, InLoop, Applying,
        Stage, Action, Key, Fd, Default, Ignore, Free, tableVars, cursorVars, Step,
        Sources, IsValid, Behind, IsEntry, Treated, Untouched, Original, Kept, Meaning
<1>0. CASE UNCHANGED vars
  BY <1>t, <1>0 DEF vars
<1>1. ASSUME NEW fd \in Key, NEW action \in Action, SetAction(fd, action) PROVE IInv'
  BY <1>t, <1>1 DEF SetAction
<1>2. CASE Clear
  BY <1>t, <1>2 DEF Clear
<1>3. CASE Reject
  BY <1>t, <1>3 DEF Reject
<1>4. ASSUME NEW open \in SUBSET Fd, NEW closing \in SUBSET Fd, NEW p \in Fd,
             Clone(open, closing, p)
      PROVE  IInv'
  <2>1. /\ stage' = "entry" /\ policy' = policy /\ rangeStart' = rangeStart
        /\ given'.open = open /\ given'.cloexec = closing /\ given'.pipe = p
        /\ pipe' = p /\ cloexec' = closing /\ delayed' = delayed
        /\ \A fd \in Fd : table'[fd] = IF fd \in open THEN fd ELSE Free
    BY <1>4 DEF Clone
  <2>2. stage = "build" /\ rangeStart = 0 /\ delayed = Free
    BY <1>4 DEF Clone
  <2>3. GivenSound'
    BY <1>4, <2>1 DEF Clone
  <2>4. PipeInPlace' /\ PipeUsable'
    BY <1>4, <2>1 DEF Clone
  <2>6. SourcesIntact'
    <3>1. Sources' = Sources
      BY <2>1
    <3> HIDE DEF Sources
    <3>2. Sources \subseteq open
      BY <1>4 DEF Clone
    <3>3. \A f \in Sources' : table'[f] = f
      BY <2>1, <3>1, <3>2
    <3> QED
      BY <3>3
  <2>5. LoopSound' /\ DelayedSound'
    BY <1>4, <2>1, <2>2 DEF Clone
  <2> QED
    BY <1>t, <2>1, <2>3, <2>4, <2>5, <2>6
<1>5. ASSUME NEW fd \in Fd, Map(fd) PROVE IInv'
  <2>1. /\ stage = "entry" /\ stage' = "mark" /\ UNCHANGED <<policy, given, pipe>>
        /\ UNCHANGED <<rangeStart, delayed, target>>
        /\ IsEntry(fd) /\ policy[fd] \in Sources /\ fd # pipe
        /\ table' = [table EXCEPT ![fd] = table[policy[fd]]]
        /\ cloexec' = cloexec \ {fd}
    BY <1>5 DEF Map
  <2>2. fd \notin Sources
    <3>1. IsValid /\ fd \in Key
      BY <2>1
    <3>2. policy[fd] # Default /\ policy[fd] # Ignore
      BY <2>1
    <3> HIDE DEF Sources
    <3> QED
      BY <3>1, <3>2
  <2>3. table[policy[fd]] = policy[fd]
    BY <2>1
  <2>4. GivenSound' /\ PipeInPlace' /\ PipeUsable'
    BY <2>1
  <2>5. SourcesIntact'
    BY <2>1, <2>2
  <2>6. LoopSound'
    <3> SUFFICES ASSUME NEW f \in Fd \ {given.pipe}
                 PROVE  IF f < rangeStart \/ IsEntry(f) THEN Treated(f)' ELSE Untouched(f)'
      <4>1. \A f \in Fd : IsEntry(f)' <=> IsEntry(f)
        BY <2>1
      <4>2. \A f \in Fd : Behind(f)' <=> f < rangeStart \/ IsEntry(f)
        <5> HIDE DEF IsEntry
        <5> QED
          BY <2>1, <4>1
      <4> HIDE DEF Behind, IsEntry, Treated, Untouched
      <4> QED
        BY <2>1, <4>2
    <3>1. CASE f = fd
      BY <2>1, <2>3, <3>1
    <3>2. CASE f # fd
      <4>1. ~IsEntry(f)
        BY <2>1, <3>2
      <4> QED
        BY <2>1, <3>2, <4>1
    <3> QED
      BY <3>1, <3>2
  <2>7. DelayedSound'
    BY <2>1
  <2> QED
    BY <1>t, <2>1, <2>4, <2>5, <2>6, <2>7
<1>6. ASSUME NEW fd \in Fd, Delay(fd) PROVE IInv'
  BY <1>t, <1>6 DEF Delay
<1>7. ASSUME NEW fd \in Fd, Leave(fd) PROVE IInv'
  BY <1>t, <1>7 DEF Leave
<1>8. ASSUME NEW fd \in Fd, MarkBefore(fd) PROVE IInv'
  <2>1. /\ stage = "mark" /\ stage' = "entry" /\ rangeStart' = fd + 1
        /\ UNCHANGED <<policy, given, table, pipe, delayed, target>> /\ IsEntry(fd)
    BY <1>8 DEF MarkBefore
  <2>2. \A f \in Fd : f \in cloexec' <=>
          f \in cloexec \/ (rangeStart <= f /\ f <= fd - 1 /\ table[f] # Free)
    <3>1. rangeStart \in 0 .. MaxFd + 1 /\ fd - 1 \in Int /\ fd - 1 <= MaxFd
      OBVIOUS
    <3>2. cloexec' = Marked(rangeStart, fd - 1)
      BY <1>8 DEF MarkBefore
    <3> QED
      BY <3>1, <3>2, MarkedBetween
  <2>3. GivenSound' /\ PipeInPlace' /\ PipeUsable' /\ SourcesIntact'
    BY <2>1, <2>2
  <2>4. DelayedSound'
    BY <2>1
  <2>5. LoopSound'
    <3> SUFFICES ASSUME NEW f \in Fd \ {given.pipe}
                 PROVE  IF f < fd + 1 THEN Treated(f)' ELSE Untouched(f)'
      BY <2>1
    <3>1. CASE f < rangeStart \/ f >= fd
      BY <2>1, <2>2, <3>1
    <3>2. CASE rangeStart <= f /\ f < fd
      <4>1. policy[f] = Default
        BY <2>1, <3>2
      <4> QED
        BY <2>1, <2>2, <3>2, <4>1
    <3> QED
      BY <3>1, <3>2
  <2> QED
    BY <1>t, <2>1, <2>3, <2>4, <2>5
<1>9. CASE MarkRest
  <2>1. /\ stage = "entry" /\ stage' = IF delayed = Free THEN "done" ELSE "move"
        /\ rangeStart' = MaxFd + 1
        /\ UNCHANGED <<policy, given, table, pipe, delayed, target>>
        /\ \A fd \in rangeStart .. MaxFd : policy[fd] = Default
    BY <1>9 DEF MarkRest
  <2>2. \A f \in Fd : f \in cloexec' <=>
          f \in cloexec \/ (rangeStart <= f /\ table[f] # Free)
    BY <1>9, MarkedBetween DEF MarkRest
  <2>3. GivenSound' /\ PipeInPlace' /\ PipeUsable' /\ SourcesIntact'
    BY <2>1, <2>2
  <2>4. \A f \in Fd \ {given.pipe} : Treated(f)'
    <3> SUFFICES ASSUME NEW f \in Fd \ {given.pipe} PROVE Treated(f)'
      OBVIOUS
    <3>1. CASE f < rangeStart
      BY <2>1, <2>2, <3>1
    <3>2. CASE rangeStart <= f
      <4>1. policy[f] = Default
        BY <2>1, <3>2
      <4> QED
        BY <2>1, <2>2, <3>2, <4>1
    <3> QED
      BY <3>1, <3>2
  <2>5. LoopSound'
    BY <2>1, <2>4
  <2>6. DelayedSound'
    BY <2>1
  <2>7. DoneSound'
    <3> SUFFICES ASSUME stage' = "done", NEW f \in Fd PROVE Kept(f)' = Meaning(f)'
      OBVIOUS
    <3>1. delayed = Free
      BY <2>1
    <3>2. CASE f = given.pipe
      <4>1. policy[f] < 0
        BY <2>1, <3>1, <3>2
      <4> QED
        BY <2>1, <2>3, <3>2, <4>1
    <3>3. CASE f # given.pipe
      <4>1. Treated(f)'
        BY <2>4, <3>3
      <4> QED
        BY <1>t, <2>1, <4>1, <3>3
    <3> QED
      BY <3>2, <3>3
  <2> QED
    BY <1>t, <2>1, <2>3, <2>5, <2>6, <2>7
<1>10. CASE MovePipe
  <2>1. PICK fd \in Fd :
          /\ table[fd] = Free
          /\ table' = [table EXCEPT ![fd] = table[pipe], ![pipe] = Free]
          /\ cloexec' = (cloexec \cup {fd}) \ {pipe} /\ pipe' = fd
    BY <1>10 DEF MovePipe
  <2>2. /\ stage = "move" /\ stage' = "remap" /\ target' = pipe
        /\ UNCHANGED <<policy, given, rangeStart, delayed>>
    BY <1>10, <2>1 DEF MovePipe
  <2>3. pipe = given.pipe /\ pipe # fd /\ table[pipe] = given.pipe
    BY <2>1, <2>2
  <2>4. GivenSound' /\ PipeInPlace' /\ DelayedSound'
    BY <2>1, <2>2
  <2>5. PipeUsable'
    BY <1>t, <2>1, <2>2, <2>3
  <2>6. SourcesIntact'
    BY <2>1, <2>2, <2>3
  <2>7. Meaning(fd) = Free
    <3>1. Treated(fd)
      BY <2>2, <2>3
    <3> QED
      BY <2>1, <2>2, <3>1
  <2>8. \A f \in Fd \ {pipe, fd} : Treated(f)'
    <3> SUFFICES ASSUME NEW f \in Fd \ {pipe, fd} PROVE Treated(f)'
      OBVIOUS
    <3>1. Treated(f) /\ table'[f] = table[f] /\ (f \in cloexec' <=> f \in cloexec)
      BY <2>1, <2>2, <2>3
    <3> QED
      BY <2>2, <3>1
  <2>9. MovedSound'
    BY <2>1, <2>2, <2>3, <2>7, <2>8
  <2> QED
    BY <1>t, <2>2, <2>4, <2>5, <2>6, <2>9
<1>11. CASE Remap
  BY <1>t, <1>11, SMTT(60) DEF Remap
<1>12. CASE Fail
  BY <1>t, <1>12 DEF Fail
<1>13. CASE Exec
  BY <1>t, <1>13 DEF Exec
<1> QED
  BY <1>0, <1>1, <1>2, <1>3, <1>4, <1>5, <1>6, <1>7, <1>8, <1>9, <1>10, <1>11, <1>12,
     <1>13 DEF Next, Build, Apply

-----------------------------------------------------------------------------
LEMMA Invariance == Spec => []IInv
  BY InitSound, SoundStep, PTL DEF Spec

\* Every descriptor, flag and cursor stays within its range, for any number of
\* descriptors: the loop never looks past the table.
THEOREM TypeCorrect == Spec => []TypeOK
  BY Invariance, PTL DEF IInv

\* The program sees the policy, whatever table the guest was cloned with,
\* wherever the pipe was in it and however the entries follow each other.
THEOREM ProgramSeesPolicyAlways == Spec => []ProgramSeesPolicy
  BY Invariance, PTL DEF IInv

\* The status pipe is valid and close-on-exec through the whole application, and
\* after its errors.
THEOREM PipeIsUsable == Spec => []PipeUsable
  BY Invariance, PTL DEF IInv

\* No source is replaced before it is duplicated: the validator's rule is enough
\* for the ascending order to be as good as any.
THEOREM SourcesStayIntact == Spec => []SourcesIntact
  BY Invariance, PTL DEF IInv
=============================================================================
