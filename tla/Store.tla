------------------------------- MODULE Store -------------------------------
(***************************************************************************)
(* The directory backend of the store crate on Linux: opening and creating *)
(* a store, and inserting blobs through write handles.                     *)
(*                                                                         *)
(* One element of Writers is one thread of one process, from its opening   *)
(* of the store to the end of one insertion; it also names the O_TMPFILE   *)
(* that the insertion writes.  Writers meet in the directory alone: the    *)
(* shared lock of finish excludes nobody, since no operation takes the     *)
(* exclusive one.                                                          *)
(***************************************************************************)
EXTENDS Naturals, Sequences

CONSTANTS
  Writers,    \* the threads that open the store and insert a blob
  Chunk,      \* what one write(2) appends
  MaxWrites,  \* the most writes to a blob: a bound on the model
  Hash(_),    \* BLAKE3, of the contents of a file
  NoDigest,   \* the hash of a blob that is not hashed yet
  NoBlob,     \* the blob of an insertion that is not hashed yet
  Faults      \* may system calls fail and processes die

Blob == UNION {[1 .. n -> Chunk] : n \in 0 .. MaxWrites}

Digest == {Hash(b) : b \in Blob}

\* No two contents collide.
ASSUME StoreAssumption ==
  /\ MaxWrites \in Nat
  /\ Faults \in BOOLEAN
  /\ NoBlob \notin Blob
  /\ \A b \in Blob : Hash(b) # NoDigest
  /\ \A b, c \in Blob : Hash(b) = Hash(c) => b = c

VARIABLES
  directory,   \* the store directory exists
  generation,  \* what .generation is: "absent", "empty" or "0"
  links,       \* the names in the directory, each with the file it is for
  pc,          \* pc[w]: where writer w is
  content,     \* content[w]: the contents of w's file
  offset,      \* offset[w]: the offset of w's descriptor of it
  digest,      \* digest[w]: the hash that finish has computed
  attributes   \* attributes[w]: the metadata set on w's file

storeVars == <<directory, generation, links>>
blobVars == <<content, offset, digest, attributes>>
vars == <<storeVars, pc, blobVars>>

Creating == {"made", "counted"}
Finishing == {"rewound", "hashed", "dated", "labelled", "typed", "sealed", "linked"}

\* How a writer ends: "broken" is an error or death while it was creating the
\* store.
Ended == {"done", "failed", "broken", "abandoned", "dead"}
Stage == {"start", "missing", "open", "writing"} \cup Creating \cup Finishing \cup Ended

Attribute == {"generation", "store_type", "read_only"}

TypeOK ==
  /\ directory \in BOOLEAN
  /\ generation \in {"absent", "empty", "0"}
  /\ links \in SUBSET [name : Digest, file : Writers]
  /\ pc \in [Writers -> Stage]
  /\ content \in [Writers -> Blob]
  /\ offset \in [Writers -> 0 .. MaxWrites]
  /\ digest \in [Writers -> Digest \cup {NoDigest}]
  /\ attributes \in [Writers -> SUBSET Attribute]

Init ==
  /\ directory = FALSE
  /\ generation = "absent"
  /\ links = {}
  /\ pc = [w \in Writers |-> "start"]
  /\ content = [w \in Writers |-> <<>>]
  /\ offset = [w \in Writers |-> 0]
  /\ digest = [w \in Writers |-> NoDigest]
  /\ attributes = [w \in Writers |-> {}]

Goto(w, from, to) == pc[w] = from /\ pc' = [pc EXCEPT ![w] = to]

-----------------------------------------------------------------------------
\* open_at_internal.

\* The first openat2(2).
Open(w) ==
  /\ Goto(w, "start", IF directory THEN "open" ELSE "missing")
  /\ UNCHANGED <<storeVars, blobVars>>

\* mkdirat(2): EEXIST, when another writer was faster, is an error.
MakeDirectory(w) ==
  /\ Goto(w, "missing", IF directory THEN "failed" ELSE "made")
  /\ directory' = TRUE
  /\ UNCHANGED <<generation, links, blobVars>>

\* Mutant: the generation is written to a file that is in the directory already.
CountInPlace(w) ==
  /\ Goto(w, "made", "counted")
  /\ generation' = "empty"
  /\ UNCHANGED <<directory, links, blobVars>>

\* The directory is opened, and "0" written to an O_TMPFILE in it.
CountGeneration(w) ==
  /\ Goto(w, "made", "counted")
  /\ UNCHANGED <<storeVars, blobVars>>

\* linkat(2) of that file as .generation.
LinkGeneration(w) ==
  /\ Goto(w, "counted", "open")
  /\ generation' = "0"
  /\ UNCHANGED <<directory, links, blobVars>>

-----------------------------------------------------------------------------
\* insert_blob and the write handle.

InsertBlob(w) ==
  /\ Goto(w, "open", "writing")
  /\ UNCHANGED <<storeVars, blobVars>>

\* Mutant: the handle is still there once the blob is linked.
WriteAnytime(w) ==
  /\ pc[w] \in {"writing", "linked"}
  /\ Len(content[w]) < MaxWrites
  /\ \E c \in Chunk : content' = [content EXCEPT ![w] = Append(@, c)]
  /\ offset' = [offset EXCEPT ![w] = @ + 1]
  /\ UNCHANGED <<storeVars, pc, digest, attributes>>

Write(w) ==
  /\ pc[w] = "writing"
  /\ Len(content[w]) < MaxWrites
  /\ \E c \in Chunk : content' = [content EXCEPT ![w] = Append(@, c)]
  /\ offset' = [offset EXCEPT ![w] = @ + 1]
  /\ UNCHANGED <<storeVars, pc, digest, attributes>>

\* The handle is dropped: the file has no name and goes with it.
Abandon(w) ==
  /\ Goto(w, "writing", "abandoned")
  /\ UNCHANGED <<storeVars, blobVars>>

-----------------------------------------------------------------------------
\* finish, which takes the handle.

\* Mutant: the file is hashed from where the last write has left it.
RewindForgotten(w) ==
  /\ Goto(w, "writing", "rewound")
  /\ UNCHANGED <<storeVars, blobVars>>

\* lseek(2).
Rewind(w) ==
  /\ Goto(w, "writing", "rewound")
  /\ offset' = [offset EXCEPT ![w] = 0]
  /\ UNCHANGED <<storeVars, content, digest, attributes>>

\* update_reader, from the offset to the end of the file.
HashFile(w) ==
  /\ Goto(w, "rewound", "hashed")
  /\ digest' = [digest EXCEPT
                  ![w] = Hash(SubSeq(content[w], offset[w] + 1, Len(content[w])))]
  /\ offset' = [offset EXCEPT ![w] = Len(content[w])]
  /\ UNCHANGED <<storeVars, content, attributes>>

\* acquire_shared_store_lock and current_generation: ENOENT, or what is no
\* number, is an error.
ReadGeneration(w) ==
  /\ Goto(w, "hashed", IF generation = "0" THEN "dated" ELSE "failed")
  /\ UNCHANGED <<storeVars, blobVars>>

SetAttribute(w, attribute) ==
  /\ attributes' = [attributes EXCEPT ![w] = @ \cup {attribute}]
  /\ UNCHANGED <<storeVars, content, offset, digest>>

\* fsetxattr(2), twice.
SetGeneration(w) == Goto(w, "dated", "labelled") /\ SetAttribute(w, "generation")

\* Mutant: the attribute's name and its value are swapped.
SetTypeSwapped(w) == Goto(w, "labelled", "typed") /\ SetAttribute(w, "blob")

SetType(w) == Goto(w, "labelled", "typed") /\ SetAttribute(w, "store_type")

\* fchmod(2).
Seal(w) == Goto(w, "typed", "sealed") /\ SetAttribute(w, "read_only")

\* Mutant: every error of linkat(2) is taken for EEXIST.
LinkCareless(w) ==
  /\ Goto(w, "sealed", "linked")
  /\ \/ Faults /\ UNCHANGED links
     \/ links' = IF \E l \in links : l.name = digest[w] THEN links
                 ELSE links \cup {[name |-> digest[w], file |-> w]}
  /\ UNCHANGED <<directory, generation, blobVars>>

\* linkat(2), where EEXIST is success: the blob is there.
Link(w) ==
  /\ Goto(w, "sealed", "linked")
  /\ links' = IF \E l \in links : l.name = digest[w] THEN links
              ELSE links \cup {[name |-> digest[w], file |-> w]}
  /\ UNCHANGED <<directory, generation, blobVars>>

Return(w) ==
  /\ Goto(w, "linked", "done")
  /\ UNCHANGED <<storeVars, blobVars>>

-----------------------------------------------------------------------------
\* A system call fails: the writer's call returns an error.
Fail(w) ==
  /\ Faults
  /\ \/ \E from \in Creating : Goto(w, from, "broken")
     \/ \E from \in {"start", "missing", "open"} \cup (Finishing \ {"linked"}) :
          Goto(w, from, "failed")
  /\ UNCHANGED <<storeVars, blobVars>>

\* The writer's process dies.
Die(w) ==
  /\ Faults
  /\ \/ \E from \in Creating : Goto(w, from, "broken")
     \/ \E from \in Stage \ (Creating \cup Ended) : Goto(w, from, "dead")
  /\ UNCHANGED <<storeVars, blobVars>>

Next ==
  \E w \in Writers :
    \/ Open(w) \/ MakeDirectory(w) \/ CountGeneration(w) \/ LinkGeneration(w)
    \/ InsertBlob(w) \/ Write(w) \/ Abandon(w)
    \/ Rewind(w) \/ HashFile(w) \/ ReadGeneration(w)
    \/ SetGeneration(w) \/ SetType(w) \/ Seal(w) \/ Link(w) \/ Return(w)
    \/ Fail(w) \/ Die(w)

Spec == Init /\ [][Next]_vars

-----------------------------------------------------------------------------
\* Properties.

\* Whatever is in the directory is named by the hash of all that was written to
\* it and carries its metadata, and no hash is there twice: no interleaving,
\* error or crash shows anyone half a blob.
LinkedWhole ==
  /\ \A l \in links :
       l.name = Hash(content[l.file]) /\ attributes[l.file] = Attribute
  /\ \A k, l \in links : k.name = l.name => k = l

\* A file stays as it is from the moment it has a name, and keeps its name.
LinkedForGood ==
  [][\A l \in links : /\ l \in links'
                      /\ content'[l.file] = content[l.file]
                      /\ attributes'[l.file] = attributes[l.file]]_vars

\* The generation is never seen half written, and a store is without one only
\* while its one creator is at work, or after it has failed or died there.
CreationAccounted ==
  /\ generation # "empty"
  /\ directory /\ generation = "absent" => \E w \in Writers : pc[w] \in Creating \cup {"broken"}
  /\ \A v, w \in Writers :
       pc[v] \in Creating \cup {"broken"} /\ pc[w] \in Creating \cup {"broken"} => v = w

-----------------------------------------------------------------------------
\* Implementation of the abstract specification.

storedOf == {content[l.file] : l \in links}

askedOf == [w \in Writers |-> IF digest[w] = NoDigest THEN NoBlob ELSE content[w]]

answerOf ==
  [w \in Writers |-> CASE pc[w] = "done" -> "ok"
                       [] pc[w] \in {"failed", "broken"} -> "error"
                       [] pc[w] = "dead" -> "dead"
                       [] OTHER -> "none"]

Abstract == INSTANCE ContentStore
            WITH stored <- storedOf, asked <- askedOf, answer <- answerOf

\* The directory is a set of blobs that only grows, and every insertion that
\* succeeds has its blob in it.
ImplementsContentStore == Abstract!Spec
=============================================================================
