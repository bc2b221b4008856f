---------------------------- MODULE ContentStore ----------------------------
(***************************************************************************)
(* What the store crate promises of concurrent insertions, with no files:  *)
(* a set of blobs that only grows, in which a blob appears whole and at    *)
(* once, and is found by everyone whose insertion has succeeded.           *)
(* Store.tla implements this specification.                                *)
(***************************************************************************)
CONSTANTS
  Writers,   \* the insertions, each by some thread of some process
  Blob,      \* the contents that may be inserted
  NoBlob     \* no blob: the content of an insertion that has not asked yet

VARIABLES
  stored,   \* the blobs in the store
  asked,    \* asked[w]: the blob w wants inserted
  answer    \* answer[w]: what w was told

vars == <<stored, asked, answer>>

TypeOK ==
  /\ stored \in SUBSET Blob
  /\ asked \in [Writers -> Blob \cup {NoBlob}]
  /\ answer \in [Writers -> {"none", "ok", "error", "dead"}]

Init ==
  /\ stored = {}
  /\ asked = [w \in Writers |-> NoBlob]
  /\ answer = [w \in Writers |-> "none"]

Ask(w, b) ==
  /\ asked[w] = NoBlob /\ answer[w] = "none"
  /\ asked' = [asked EXCEPT ![w] = b]
  /\ UNCHANGED <<stored, answer>>

\* Two insertions of one blob commit it once.
Commit(w) ==
  /\ asked[w] # NoBlob /\ answer[w] = "none"
  /\ stored' = stored \cup {asked[w]}
  /\ UNCHANGED <<asked, answer>>

Succeed(w) ==
  /\ asked[w] \in stored /\ answer[w] = "none"
  /\ answer' = [answer EXCEPT ![w] = "ok"]
  /\ UNCHANGED <<stored, asked>>

Fail(w) ==
  /\ answer[w] = "none"
  /\ answer' = [answer EXCEPT ![w] = "error"]
  /\ UNCHANGED <<stored, asked>>

\* The writer's process dies, before or after its blob is committed.
Die(w) ==
  /\ answer' = [answer EXCEPT ![w] = "dead"]
  /\ UNCHANGED <<stored, asked>>

Next ==
  \E w \in Writers :
    \/ \E b \in Blob : Ask(w, b)
    \/ Commit(w) \/ Succeed(w) \/ Fail(w) \/ Die(w)

Spec == Init /\ [][Next]_vars
=============================================================================
