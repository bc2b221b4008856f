----------------------------- MODULE StoreProofs -----------------------------
(***************************************************************************)
(* Proofs about Store, for any set of writers and chunks: what is linked   *)
(* is whole and stays, a store without a generation is accounted for, and  *)
(* the directory implements ContentStore.                                  *)
(***************************************************************************)
EXTENDS Store, SequenceTheorems, TLAPS

USE StoreAssumption

-----------------------------------------------------------------------------
\* The inductive invariant.

Unwritten == {"start", "missing", "open", "writing"} \cup Creating
Unhashed == Unwritten \cup {"rewound"}

\* What finish has set on the file when it is at a stage.
Labels(stage) ==
  CASE stage = "labelled" -> {"generation"}
    [] stage = "typed" -> {"generation", "store_type"}
    [] stage \in {"sealed", "linked", "done"} -> Attribute
    [] OTHER -> {}

\* A file is written at its end, hashed from its start, and labelled in order.
InOrder ==
  \A w \in Writers :
    /\ pc[w] \in Unwritten => offset[w] = Len(content[w])
    /\ pc[w] = "rewound" => offset[w] = 0
    /\ pc[w] \in Unhashed => digest[w] = NoDigest
    /\ pc[w] \in (Finishing \ {"rewound"}) \cup {"done"} => digest[w] # NoDigest
    /\ digest[w] # NoDigest => digest[w] = Hash(content[w])
    /\ Labels(pc[w]) \subseteq attributes[w]

\* A link is made by a writer that has passed linkat(2).
LinkedLast ==
  \A l \in links : pc[l.file] \in {"linked", "done", "dead"} /\ digest[l.file] # NoDigest

\* And a writer that has passed it finds its hash in the directory.
Present ==
  \A w \in Writers : pc[w] \in {"linked", "done"} =>
    \E l \in links : l.name = digest[w]

\* A creator has made the directory.
Made == \A w \in Writers : pc[w] \in Creating \cup {"broken"} => directory

IInv ==
  TypeOK /\ InOrder /\ LinkedLast /\ Present /\ Made /\ LinkedWhole /\ CreationAccounted

-----------------------------------------------------------------------------
\* Contents.

\* One direction by name, which the provers need of <<>> and of Append.
LEMMA SeqIsBlob ==
  ASSUME NEW b \in Seq(Chunk), Len(b) <= MaxWrites
  PROVE  b \in Blob
<1>1. Len(b) \in Nat /\ b \in [1 .. Len(b) -> Chunk]
  BY LenProperties
<1>2. Len(b) \in 0 .. MaxWrites
  BY <1>1
<1> QED
  BY <1>1, <1>2 DEF Blob

LEMMA BlobIsSeq == \A b : b \in Blob <=> b \in Seq(Chunk) /\ Len(b) <= MaxWrites
<1>1. ASSUME NEW b \in Blob PROVE b \in Seq(Chunk) /\ Len(b) <= MaxWrites
  <2>1. PICK n \in 0 .. MaxWrites : b \in [1 .. n -> Chunk]
    BY DEF Blob
  <2>2. b \in Seq(Chunk)
    BY <2>1, SeqDef
  <2> QED
    BY <2>1, <2>2, LenProperties
<1>2. ASSUME NEW b \in Seq(Chunk), Len(b) <= MaxWrites PROVE b \in Blob
  BY <1>2, SeqIsBlob
<1> QED
  BY <1>1, <1>2

LEMMA EmptyBlob == <<>> \in Blob
<1>1. <<>> \in Seq(Chunk) /\ Len(<<>>) <= MaxWrites
  BY EmptySeq
<1> QED
  BY <1>1, SeqIsBlob

LEMMA AppendBlob ==
  ASSUME NEW b \in Blob, NEW c \in Chunk, Len(b) < MaxWrites
  PROVE  Append(b, c) \in Blob /\ Len(Append(b, c)) = Len(b) + 1 /\ Len(b) \in Nat
<1>1. b \in Seq(Chunk) /\ Len(b) \in Nat
  BY BlobIsSeq, LenProperties
<1>2. Append(b, c) \in Seq(Chunk) /\ Len(Append(b, c)) = Len(b) + 1
  BY <1>1, AppendProperties
<1>3. Len(Append(b, c)) <= MaxWrites
  BY <1>1, <1>2
<1> QED
  BY <1>1, <1>2, <1>3, SeqIsBlob

\* A file read from its start is read whole.
LEMMA WholeBlob ==
  ASSUME NEW b \in Blob
  PROVE  SubSeq(b, 0 + 1, Len(b)) = b /\ Len(b) \in 0 .. MaxWrites
<1>1. b \in Seq(Chunk) /\ Len(b) <= MaxWrites
  BY BlobIsSeq
<1>2. Len(b) \in Nat /\ 0 + 1 = 1
  BY <1>1, LenProperties
<1> QED
  BY <1>1, <1>2, SubSeqFull

-----------------------------------------------------------------------------
LEMMA InitSound == Init => IInv
<1> SUFFICES ASSUME Init PROVE IInv
  OBVIOUS
<1>1. content \in [Writers -> Blob]
  BY EmptyBlob DEF Init
<1>2. TypeOK
  <2>1. /\ offset \in [Writers -> 0 .. MaxWrites]
        /\ digest \in [Writers -> Digest \cup {NoDigest}]
        /\ attributes \in [Writers -> SUBSET Attribute]
        /\ pc \in [Writers -> Stage]
    BY DEF Init, Stage
  <2> QED
    BY <1>1, <2>1 DEF Init, TypeOK
<1>3. InOrder
  BY DEF Init, InOrder, Finishing, Labels
<1> QED
  BY <1>2, <1>3 DEF Init, IInv, LinkedLast, Present, Made, LinkedWhole,
     CreationAccounted, Creating

LEMMA StepSound == IInv /\ [Next]_vars => IInv'
<1> SUFFICES ASSUME IInv, [Next]_vars PROVE IInv'
  OBVIOUS
<1> USE DEF Goto, storeVars, blobVars
<1>t. TypeOK
  BY DEF IInv
<1>1. CASE UNCHANGED vars
  BY <1>1 DEF vars, IInv, TypeOK, InOrder, LinkedLast, Present, Made, LinkedWhole,
     CreationAccounted
<1>2. ASSUME NEW w \in Writers, Open(w) PROVE IInv'
  <2>1. TypeOK'
    BY <1>t, <1>2 DEF Open, TypeOK, Stage, Creating, Finishing, Ended
  <2>2. InOrder'
    BY <1>t, <1>2 DEF Open, TypeOK, IInv, InOrder, Unwritten, Unhashed, Finishing, Creating,
       Labels, Ended
  <2>3. LinkedLast' /\ Present' /\ LinkedWhole'
    BY <1>t, <1>2 DEF Open, TypeOK, IInv, LinkedLast, Present, LinkedWhole,
       Creating, Finishing, Ended, InOrder, Labels
  <2>4. Made' /\ CreationAccounted'
    BY <1>t, <1>2 DEF Open, TypeOK, IInv, Made, CreationAccounted, Creating,
       Finishing, Ended
  <2> QED
    BY <2>1, <2>2, <2>3, <2>4 DEF IInv
<1>3. ASSUME NEW w \in Writers, MakeDirectory(w) PROVE IInv'
  <2>1. TypeOK'
    BY <1>t, <1>3 DEF MakeDirectory, TypeOK, Stage, Creating, Finishing, Ended
  <2>2. InOrder'
    BY <1>t, <1>3 DEF MakeDirectory, TypeOK, IInv, InOrder, Unwritten, Unhashed, Finishing, Creating,
       Labels, Ended
  <2>3. LinkedLast' /\ Present' /\ LinkedWhole'
    BY <1>t, <1>3 DEF MakeDirectory, TypeOK, IInv, LinkedLast, Present, LinkedWhole,
       Creating, Finishing, Ended, InOrder, Labels
  <2>4. Made' /\ CreationAccounted'
    BY <1>t, <1>3 DEF MakeDirectory, TypeOK, IInv, Made, CreationAccounted, Creating,
       Finishing, Ended
  <2> QED
    BY <2>1, <2>2, <2>3, <2>4 DEF IInv
<1>4. ASSUME NEW w \in Writers, CountGeneration(w) PROVE IInv'
  <2>1. TypeOK'
    BY <1>t, <1>4 DEF CountGeneration, TypeOK, Stage, Creating, Finishing, Ended
  <2>2. InOrder'
    BY <1>t, <1>4 DEF CountGeneration, TypeOK, IInv, InOrder, Unwritten, Unhashed, Finishing, Creating,
       Labels, Ended
  <2>3. LinkedLast' /\ Present' /\ LinkedWhole'
    BY <1>t, <1>4 DEF CountGeneration, TypeOK, IInv, LinkedLast, Present, LinkedWhole,
       Creating, Finishing, Ended, InOrder, Labels
  <2>4. Made' /\ CreationAccounted'
    BY <1>t, <1>4 DEF CountGeneration, TypeOK, IInv, Made, CreationAccounted, Creating,
       Finishing, Ended
  <2> QED
    BY <2>1, <2>2, <2>3, <2>4 DEF IInv
<1>5. ASSUME NEW w \in Writers, LinkGeneration(w) PROVE IInv'
  <2>1. TypeOK'
    BY <1>t, <1>5 DEF LinkGeneration, TypeOK, Stage, Creating, Finishing, Ended
  <2>2. InOrder'
    BY <1>t, <1>5 DEF LinkGeneration, TypeOK, IInv, InOrder, Unwritten, Unhashed, Finishing, Creating,
       Labels, Ended
  <2>3. LinkedLast' /\ Present' /\ LinkedWhole'
    BY <1>t, <1>5 DEF LinkGeneration, TypeOK, IInv, LinkedLast, Present, LinkedWhole,
       Creating, Finishing, Ended, InOrder, Labels
  <2>4. Made' /\ CreationAccounted'
    BY <1>t, <1>5 DEF LinkGeneration, TypeOK, IInv, Made, CreationAccounted, Creating,
       Finishing, Ended
  <2> QED
    BY <2>1, <2>2, <2>3, <2>4 DEF IInv
<1>6. ASSUME NEW w \in Writers, InsertBlob(w) PROVE IInv'
  <2>1. TypeOK'
    BY <1>t, <1>6 DEF InsertBlob, TypeOK, Stage, Creating, Finishing, Ended
  <2>2. InOrder'
    BY <1>t, <1>6 DEF InsertBlob, TypeOK, IInv, InOrder, Unwritten, Unhashed, Finishing, Creating,
       Labels, Ended
  <2>3. LinkedLast' /\ Present' /\ LinkedWhole'
    BY <1>t, <1>6 DEF InsertBlob, TypeOK, IInv, LinkedLast, Present, LinkedWhole,
       Creating, Finishing, Ended, InOrder, Labels
  <2>4. Made' /\ CreationAccounted'
    BY <1>t, <1>6 DEF InsertBlob, TypeOK, IInv, Made, CreationAccounted, Creating,
       Finishing, Ended
  <2> QED
    BY <2>1, <2>2, <2>3, <2>4 DEF IInv
<1>7. ASSUME NEW w \in Writers, Write(w) PROVE IInv'
  <2>1. TypeOK'
    <3>1. PICK c \in Chunk : content' = [content EXCEPT ![w] = Append(@, c)]
      BY <1>7 DEF Write
    <3>2. /\ Append(content[w], c) \in Blob 
        /\ Len(Append(content[w], c)) = Len(content[w]) + 1
        /\ Len(content[w]) \in Nat /\ Len(content[w]) < MaxWrites
      BY <1>t, <1>7, AppendBlob DEF Write, TypeOK
    <3>3. content' \in [Writers -> Blob]
      BY <1>t, <3>1, <3>2 DEF TypeOK
    <3>4. offset[w] = Len(content[w]) /\ offset[w] + 1 \in 0 .. MaxWrites
      BY <1>t, <1>7, <3>2 DEF Write, IInv, InOrder, Unwritten
    <3> QED
      BY <1>t, <1>7, <3>3, <3>4 DEF Write, TypeOK
  <2>2. InOrder'
    <3>1. PICK c \in Chunk : content' = [content EXCEPT ![w] = Append(@, c)]
      BY <1>7 DEF Write
    <3>2. Len(Append(content[w], c)) = Len(content[w]) + 1
      BY <1>t, <1>7, AppendBlob DEF Write, TypeOK
    <3> QED
      BY <1>t, <1>7, <3>1, <3>2 DEF Write, TypeOK, IInv, InOrder, Unwritten, Unhashed,
         Finishing, Creating, Labels
  <2>3. LinkedLast' /\ Present' /\ LinkedWhole'
    <3>1. LinkedLast'
      BY <1>t, <1>7 DEF Write, TypeOK, IInv, LinkedLast, Creating, Finishing, Ended, InOrder,
         Labels
    <3>2. Present'
      BY <1>t, <1>7 DEF Write, TypeOK, IInv, Present, Creating, Finishing, Ended, InOrder,
         Labels
    <3>3. LinkedWhole'
      <4>1. \A l \in links : l.file # w
        BY <1>7 DEF Write, IInv, LinkedLast
      <4>2. links' = links /\ attributes' = attributes
        BY <1>7 DEF Write, storeVars
      <4>3. \A v : v # w => content'[v] = content[v]
        BY <1>7 DEF Write, TypeOK
      <4> QED
        BY <4>1, <4>2, <4>3 DEF IInv, LinkedWhole
    <3> QED
      BY <3>1, <3>2, <3>3
  <2>4. Made' /\ CreationAccounted'
    BY <1>t, <1>7 DEF Write, TypeOK, IInv, Made, CreationAccounted, Creating,
       Finishing, Ended
  <2> QED
    BY <2>1, <2>2, <2>3, <2>4 DEF IInv
<1>8. ASSUME NEW w \in Writers, Abandon(w) PROVE IInv'
  <2>1. TypeOK'
    BY <1>t, <1>8 DEF Abandon, TypeOK, Stage, Creating, Finishing, Ended
  <2>2. InOrder'
    BY <1>t, <1>8 DEF Abandon, TypeOK, IInv, InOrder, Unwritten, Unhashed, Finishing, Creating,
       Labels, Ended
  <2>3. LinkedLast' /\ Present' /\ LinkedWhole'
    BY <1>t, <1>8 DEF Abandon, TypeOK, IInv, LinkedLast, Present, LinkedWhole,
       Creating, Finishing, Ended, InOrder, Labels
  <2>4. Made' /\ CreationAccounted'
    BY <1>t, <1>8 DEF Abandon, TypeOK, IInv, Made, CreationAccounted, Creating,
       Finishing, Ended
  <2> QED
    BY <2>1, <2>2, <2>3, <2>4 DEF IInv
<1>9. ASSUME NEW w \in Writers, Rewind(w) PROVE IInv'
  <2>1. TypeOK'
    BY <1>t, <1>9 DEF Rewind, TypeOK, Stage, Creating, Finishing, Ended
  <2>2. InOrder'
    BY <1>t, <1>9 DEF Rewind, TypeOK, IInv, InOrder, Unwritten, Unhashed, Finishing, Creating,
       Labels, Ended
  <2>3. LinkedLast' /\ Present' /\ LinkedWhole'
    BY <1>t, <1>9 DEF Rewind, TypeOK, IInv, LinkedLast, Present, LinkedWhole,
       Creating, Finishing, Ended, InOrder, Labels
  <2>4. Made' /\ CreationAccounted'
    BY <1>t, <1>9 DEF Rewind, TypeOK, IInv, Made, CreationAccounted, Creating,
       Finishing, Ended
  <2> QED
    BY <2>1, <2>2, <2>3, <2>4 DEF IInv
<1>10. ASSUME NEW w \in Writers, HashFile(w) PROVE IInv'
  <2>1. TypeOK'
    <3>1. /\ digest'[w] = Hash(content[w])
          /\ digest' = [digest EXCEPT ![w] = digest'[w]]
          /\ Len(content[w]) \in 0 .. MaxWrites
      <4>1. offset[w] = 0 /\ content[w] \in Blob
        BY <1>t, <1>10 DEF HashFile, TypeOK, IInv, InOrder
      <4> QED
        BY <1>t, <1>10, <4>1, WholeBlob DEF HashFile, TypeOK
    <3>2. digest'[w] \in Digest
      BY <1>t, <3>1 DEF TypeOK, Digest
    <3> QED
      BY <1>t, <1>10, <3>1, <3>2 DEF HashFile, TypeOK, Stage, Finishing
  <2>2. InOrder'
    <3>1. digest'[w] = Hash(content[w]) /\ Hash(content[w]) # NoDigest
      <4>1. offset[w] = 0 /\ content[w] \in Blob
        BY <1>t, <1>10 DEF HashFile, TypeOK, IInv, InOrder
      <4> QED
        BY <1>t, <1>10, <4>1, WholeBlob DEF HashFile, TypeOK
    <3> QED
      BY <1>t, <1>10, <3>1 DEF HashFile, TypeOK, IInv, InOrder, Unwritten, Unhashed,
         Finishing, Creating, Labels
  <2>3. LinkedLast' /\ Present' /\ LinkedWhole'
    BY <1>t, <1>10 DEF HashFile, TypeOK, IInv, LinkedLast, Present, LinkedWhole,
       Creating, Finishing, Ended, InOrder, Labels
  <2>4. Made' /\ CreationAccounted'
    BY <1>t, <1>10 DEF HashFile, TypeOK, IInv, Made, CreationAccounted, Creating,
       Finishing, Ended
  <2> QED
    BY <2>1, <2>2, <2>3, <2>4 DEF IInv
<1>11. ASSUME NEW w \in Writers, ReadGeneration(w) PROVE IInv'
  <2>1. TypeOK'
    BY <1>t, <1>11 DEF ReadGeneration, TypeOK, Stage, Creating, Finishing, Ended
  <2>2. InOrder'
    BY <1>t, <1>11 DEF ReadGeneration, TypeOK, IInv, InOrder, Unwritten, Unhashed, Finishing, Creating,
       Labels, Ended
  <2>3. LinkedLast' /\ Present' /\ LinkedWhole'
    BY <1>t, <1>11 DEF ReadGeneration, TypeOK, IInv, LinkedLast, Present, LinkedWhole,
       Creating, Finishing, Ended, InOrder, Labels
  <2>4. Made' /\ CreationAccounted'
    BY <1>t, <1>11 DEF ReadGeneration, TypeOK, IInv, Made, CreationAccounted, Creating,
       Finishing, Ended
  <2> QED
    BY <2>1, <2>2, <2>3, <2>4 DEF IInv
<1>12. ASSUME NEW w \in Writers, SetGeneration(w) PROVE IInv'
  <2>1. TypeOK'
    BY <1>t, <1>12 DEF SetGeneration, TypeOK, Stage, Creating, Finishing, Ended, SetAttribute, Attribute
  <2>2. InOrder'
    BY <1>t, <1>12 DEF SetGeneration, TypeOK, IInv, InOrder, Unwritten, Unhashed, Finishing, Creating,
       Labels, Ended, SetAttribute, Attribute
  <2>3. LinkedLast' /\ Present' /\ LinkedWhole'
    BY <1>t, <1>12 DEF SetGeneration, TypeOK, IInv, LinkedLast, Present, LinkedWhole,
       Creating, Finishing, Ended, InOrder, Labels, SetAttribute, Attribute
  <2>4. Made' /\ CreationAccounted'
    BY <1>t, <1>12 DEF SetGeneration, TypeOK, IInv, Made, CreationAccounted, Creating,
       Finishing, Ended, SetAttribute, Attribute
  <2> QED
    BY <2>1, <2>2, <2>3, <2>4 DEF IInv
<1>13. ASSUME NEW w \in Writers, SetType(w) PROVE IInv'
  <2>1. TypeOK'
    BY <1>t, <1>13 DEF SetType, TypeOK, Stage, Creating, Finishing, Ended, SetAttribute, Attribute
  <2>2. InOrder'
    BY <1>t, <1>13 DEF SetType, TypeOK, IInv, InOrder, Unwritten, Unhashed, Finishing, Creating,
       Labels, Ended, SetAttribute, Attribute
  <2>3. LinkedLast' /\ Present' /\ LinkedWhole'
    BY <1>t, <1>13 DEF SetType, TypeOK, IInv, LinkedLast, Present, LinkedWhole,
       Creating, Finishing, Ended, InOrder, Labels, SetAttribute, Attribute
  <2>4. Made' /\ CreationAccounted'
    BY <1>t, <1>13 DEF SetType, TypeOK, IInv, Made, CreationAccounted, Creating,
       Finishing, Ended, SetAttribute, Attribute
  <2> QED
    BY <2>1, <2>2, <2>3, <2>4 DEF IInv
<1>14. ASSUME NEW w \in Writers, Seal(w) PROVE IInv'
  <2>1. TypeOK'
    BY <1>t, <1>14 DEF Seal, TypeOK, Stage, Creating, Finishing, Ended, SetAttribute, Attribute
  <2>2. InOrder'
    BY <1>t, <1>14 DEF Seal, TypeOK, IInv, InOrder, Unwritten, Unhashed, Finishing, Creating,
       Labels, Ended, SetAttribute, Attribute
  <2>3. LinkedLast' /\ Present' /\ LinkedWhole'
    BY <1>t, <1>14 DEF Seal, TypeOK, IInv, LinkedLast, Present, LinkedWhole,
       Creating, Finishing, Ended, InOrder, Labels, SetAttribute, Attribute
  <2>4. Made' /\ CreationAccounted'
    BY <1>t, <1>14 DEF Seal, TypeOK, IInv, Made, CreationAccounted, Creating,
       Finishing, Ended, SetAttribute, Attribute
  <2> QED
    BY <2>1, <2>2, <2>3, <2>4 DEF IInv
<1>15. ASSUME NEW w \in Writers, Link(w) PROVE IInv'
  <2>1. TypeOK'
    <3>1. digest[w] \in Digest
      BY <1>t, <1>15 DEF Link, TypeOK, IInv, InOrder, Finishing
    <3> QED
      BY <1>t, <1>15, <3>1 DEF Link, TypeOK, Stage, Finishing
  <2>2. InOrder'
    BY <1>t, <1>15 DEF Link, TypeOK, IInv, InOrder, Unwritten, Unhashed, Finishing, Creating,
       Labels, Ended
  <2>3. LinkedLast' /\ Present' /\ LinkedWhole'
    <3>1. /\ digest[w] = Hash(content[w]) /\ attributes[w] = Attribute
          /\ pc[w] = "sealed" /\ pc'[w] = "linked"
          /\ \A v \in Writers \ {w} : pc'[v] = pc[v]
      BY <1>t, <1>15 DEF Link, TypeOK, IInv, InOrder, Finishing, Labels
    <3>2. \E l \in links' : l.name = digest[w]
      <4>1. CASE \E l \in links : l.name = digest[w]
        BY <1>15, <4>1 DEF Link
      <4>2. CASE ~ \E l \in links : l.name = digest[w]
        <5>1. [name |-> digest[w], file |-> w] \in links'
          BY <1>15, <4>2 DEF Link
        <5> QED
          BY <5>1
      <4> QED
        BY <4>1, <4>2
    <3>3. \A l \in links' : \/ l \in links
                            \/ l.name = digest[w] /\ l.file = w
      BY <1>15 DEF Link
    <3>4. links \subseteq links'
      BY <1>15 DEF Link
    <3>5. UNCHANGED <<content, digest, attributes>>
      BY <1>15 DEF Link
    <3>6. LinkedLast'
      <4>1. digest[w] # NoDigest
        BY <3>1 DEF IInv, InOrder, Finishing
      <4>2. \A l \in links : l.file \in Writers \ {w}
        BY <1>t, <3>1 DEF TypeOK, IInv, LinkedLast
      <4> QED
        BY <3>1, <3>3, <3>5, <4>1, <4>2 DEF IInv, LinkedLast
    <3>7. Present'
      BY <1>t, <3>1, <3>2, <3>4, <3>5 DEF TypeOK, IInv, Present
    <3>8. \A k, l \in links' : k.name = l.name => k = l
      BY <1>15 DEF Link, IInv, LinkedWhole
    <3>9. LinkedWhole'
      BY <3>1, <3>3, <3>5, <3>8 DEF IInv, LinkedWhole
    <3> QED
      BY <3>6, <3>7, <3>9
  <2>4. Made' /\ CreationAccounted'
    BY <1>t, <1>15 DEF Link, TypeOK, IInv, Made, CreationAccounted, Creating,
       Finishing, Ended
  <2> QED
    BY <2>1, <2>2, <2>3, <2>4 DEF IInv
<1>16. ASSUME NEW w \in Writers, Return(w) PROVE IInv'
  <2>1. TypeOK'
    BY <1>t, <1>16 DEF Return, TypeOK, Stage, Creating, Finishing, Ended
  <2>2. InOrder'
    BY <1>t, <1>16 DEF Return, TypeOK, IInv, InOrder, Unwritten, Unhashed, Finishing, Creating,
       Labels, Ended
  <2>3. LinkedLast' /\ Present' /\ LinkedWhole'
    BY <1>t, <1>16 DEF Return, TypeOK, IInv, LinkedLast, Present, LinkedWhole,
       Creating, Finishing, Ended, InOrder, Labels
  <2>4. Made' /\ CreationAccounted'
    BY <1>t, <1>16 DEF Return, TypeOK, IInv, Made, CreationAccounted, Creating,
       Finishing, Ended
  <2> QED
    BY <2>1, <2>2, <2>3, <2>4 DEF IInv
<1>17. ASSUME NEW w \in Writers, Fail(w) PROVE IInv'
  <2>1. TypeOK'
    BY <1>t, <1>17 DEF Fail, TypeOK, Stage, Creating, Finishing, Ended
  <2>2. InOrder'
    BY <1>t, <1>17, SMTT(60) DEF Fail, TypeOK, IInv, InOrder, Unwritten, Unhashed, Finishing, Creating,
       Labels, Ended
  <2>3. LinkedLast' /\ Present' /\ LinkedWhole'
    <3>1. /\ pc[w] \notin {"linked", "done", "dead"}
          /\ pc'[w] \notin {"linked", "done", "dead"}
          /\ \A v \in Writers \ {w} : pc'[v] = pc[v]
          /\ UNCHANGED <<storeVars, blobVars>>
      BY <1>t, <1>17 DEF Fail, TypeOK, Creating, Finishing
    <3>2. LinkedLast'
      BY <1>t, <3>1 DEF TypeOK, IInv, LinkedLast
    <3>3. Present'
      BY <1>t, <3>1 DEF TypeOK, IInv, Present
    <3>4. LinkedWhole'
      BY <3>1 DEF IInv, LinkedWhole
    <3> QED
      BY <3>2, <3>3, <3>4
  <2>4. Made' /\ CreationAccounted'
    BY <1>t, <1>17 DEF Fail, TypeOK, IInv, Made, CreationAccounted, Creating,
       Finishing, Ended
  <2> QED
    BY <2>1, <2>2, <2>3, <2>4 DEF IInv
<1>18. ASSUME NEW w \in Writers, Die(w) PROVE IInv'
  <2>1. TypeOK'
    BY <1>t, <1>18 DEF Die, TypeOK, Stage, Creating, Finishing, Ended
  <2>2. InOrder'
    BY <1>t, <1>18 DEF Die, TypeOK, IInv, InOrder, Unwritten, Unhashed, Finishing, Creating,
       Labels, Ended
  <2>3. LinkedLast' /\ Present' /\ LinkedWhole'
    BY <1>t, <1>18 DEF Die, TypeOK, IInv, LinkedLast, Present, LinkedWhole,
       Creating, Finishing, Ended, InOrder, Labels
  <2>4. Made' /\ CreationAccounted'
    BY <1>t, <1>18 DEF Die, TypeOK, IInv, Made, CreationAccounted, Creating,
       Finishing, Ended
  <2> QED
    BY <2>1, <2>2, <2>3, <2>4 DEF IInv
<1> QED
  BY <1>1, <1>2, <1>3, <1>4, <1>5, <1>6, <1>7, <1>8, <1>9, <1>10, <1>11, <1>12, <1>13, <1>14, <1>15, <1>16, <1>17, <1>18 DEF Next

-----------------------------------------------------------------------------
LEMMA Invariance == Spec => []IInv
  BY InitSound, StepSound, PTL DEF Spec

\* Every writer stays within the stages and the bound of writes, and what is
\* linked has the hash of some blob for a name.
THEOREM TypeCorrect == Spec => []TypeOK
  BY Invariance, PTL DEF IInv

\* Nobody finds half a blob, or a blob without its metadata, under any name:
\* whatever fails or dies in finish, and whoever else inserts the same blob.
THEOREM WholeBlobs == Spec => []LinkedWhole
  BY Invariance, PTL DEF IInv

\* A store without a generation has one creator, at work or gone.
THEOREM CreationIsAccounted == Spec => []CreationAccounted
  BY Invariance, PTL DEF IInv

\* What is linked stays linked and is never written again.
THEOREM LinkedStays == Spec => LinkedForGood
<1>1. ASSUME IInv, [Next]_vars, NEW l \in links
      PROVE  /\ l \in links'
             /\ content'[l.file] = content[l.file]
             /\ attributes'[l.file] = attributes[l.file]
  <2> USE DEF Goto, storeVars, blobVars
  <2>1. l.file \in Writers /\ pc[l.file] \in {"linked", "done", "dead"}
    BY <1>1 DEF IInv, TypeOK, LinkedLast
  <2>2. CASE UNCHANGED vars
    BY <1>1, <2>2 DEF vars
  <2>3. ASSUME NEW w \in Writers, Link(w) PROVE l \in links'
    BY <1>1, <2>3 DEF Link
  <2>4. ASSUME NEW w \in Writers,
               \/ Write(w) \/ SetGeneration(w) \/ SetType(w) \/ Seal(w)
        PROVE  w # l.file
    BY <2>1, <2>4 DEF Write, SetGeneration, SetType, Seal
  <2>5. CASE \E w \in Writers :
               \/ Write(w) \/ SetGeneration(w) \/ SetType(w) \/ Seal(w)
    BY <1>1, <2>1, <2>4, <2>5
       DEF Write, SetGeneration, SetType, Seal, SetAttribute, IInv, TypeOK
  <2>6. CASE \E w \in Writers : Link(w)
    BY <1>1, <2>3, <2>6 DEF Link
  <2>7. CASE \E w \in Writers :
               \/ Open(w) \/ MakeDirectory(w) \/ CountGeneration(w) \/ LinkGeneration(w)
               \/ InsertBlob(w) \/ Abandon(w) \/ Rewind(w) \/ HashFile(w)
               \/ ReadGeneration(w) \/ Return(w) \/ Fail(w) \/ Die(w)
    BY <1>1, <2>7 DEF Open, MakeDirectory, CountGeneration, LinkGeneration, InsertBlob,
       Abandon, Rewind, HashFile, ReadGeneration, Return, Fail, Die
  <2> QED
    BY <1>1, <2>2, <2>5, <2>6, <2>7 DEF Next
<1>2. IInv /\ [Next]_vars =>
        [\A l \in links : /\ l \in links'
                          /\ content'[l.file] = content[l.file]
                          /\ attributes'[l.file] = attributes[l.file]]_vars
  BY <1>1
<1> QED
  BY <1>2, Invariance, PTL DEF Spec, LinkedForGood

-----------------------------------------------------------------------------
\* Implementation of ContentStore.

\* What the mapping says of one writer.
LEMMA Mapped ==
  /\ askedOf = [w \in Writers |-> askedOf[w]]
  /\ answerOf = [w \in Writers |-> answerOf[w]]
  /\ \A w \in Writers :
       /\ askedOf[w] = IF digest[w] = NoDigest THEN NoBlob ELSE content[w]
       /\ pc[w] = "done" => answerOf[w] = "ok"
       /\ pc[w] \in {"failed", "broken"} => answerOf[w] = "error"
       /\ pc[w] = "dead" => answerOf[w] = "dead"
       /\ pc[w] \in Stage \ {"done", "failed", "broken", "dead"} => answerOf[w] = "none"
  BY DEF askedOf, answerOf

\* The same of the next state.
LEMMA NextMapped ==
  /\ askedOf' = [w \in Writers |-> askedOf'[w]]
  /\ answerOf' = [w \in Writers |-> answerOf'[w]]
  /\ \A w \in Writers :
       /\ askedOf'[w] = IF digest'[w] = NoDigest THEN NoBlob ELSE content'[w]
       /\ pc'[w] = "done" => answerOf'[w] = "ok"
       /\ pc'[w] \in {"failed", "broken"} => answerOf'[w] = "error"
       /\ pc'[w] = "dead" => answerOf'[w] = "dead"
       /\ pc'[w] \in Stage \ {"done", "failed", "broken", "dead"} => answerOf'[w] = "none"
  BY DEF askedOf, answerOf

\* A writer that only moves on in the middle of its work is not seen.
LEMMA Hidden ==
  ASSUME IInv, IInv', NEW w \in Writers, NEW from, NEW to, Goto(w, from, to),
         {from, to} \cap {"done", "failed", "broken", "dead"} = {},
         UNCHANGED <<links, digest>>,
         \A v \in Writers : digest[v] # NoDigest => content'[v] = content[v]
  PROVE  UNCHANGED Abstract!vars
<1>1. \A v \in Writers : pc'[v] = IF v = w THEN to ELSE pc[v]
  BY DEF Goto, IInv, TypeOK
<1>2. \A v \in Writers : askedOf'[v] = askedOf[v]
  <2> SUFFICES ASSUME NEW v \in Writers PROVE askedOf'[v] = askedOf[v]
    OBVIOUS
  <2>1. digest'[v] = digest[v] /\ (digest[v] # NoDigest => content'[v] = content[v])
    OBVIOUS
  <2> QED
    BY <2>1, Mapped, NextMapped
<1>3. \A v \in Writers : answerOf'[v] = answerOf[v]
  <2>1. pc[w] \in Stage /\ pc'[w] \in Stage /\ pc[w] = from /\ pc'[w] = to
    BY <1>1 DEF IInv, TypeOK, Goto
  <2>2. answerOf[w] = "none" /\ answerOf'[w] = "none"
    BY <2>1, Mapped, NextMapped
  <2>3. \A v \in Writers \ {w} : answerOf'[v] = answerOf[v]
    BY <1>1 DEF answerOf
  <2> QED
    BY <2>2, <2>3
<1>4. askedOf' = askedOf /\ answerOf' = answerOf
  BY <1>2, <1>3, Mapped, NextMapped
<1>5. \A l \in links : content'[l.file] = content[l.file]
  BY DEF IInv, TypeOK, LinkedLast
<1>6. storedOf' = storedOf
  BY <1>5 DEF storedOf
<1> QED
  BY <1>4, <1>6 DEF Abstract!vars

Stopped == {"done", "failed", "broken", "dead"}

\* A writer that ends is seen to.
LEMMA Ends ==
  ASSUME IInv, NEW w \in Writers, NEW from \in Stage \ Stopped,
         NEW to \in Stopped, Goto(w, from, to),
         UNCHANGED <<links, digest, content>>
  PROVE  /\ answerOf[w] = "none"
         /\ answerOf' = [answerOf EXCEPT ![w] = answerOf'[w]]
         /\ UNCHANGED <<storedOf, askedOf>>
<1>1. answerOf[w] = "none"
  BY Mapped DEF Goto, Stopped
<1>2. \A v \in Writers \ {w} : pc'[v] = pc[v]
  BY DEF Goto, IInv, TypeOK
<1>3. \A v \in Writers \ {w} : answerOf'[v] = answerOf[v]
  BY <1>2 DEF answerOf
<1>4. answerOf' = [answerOf EXCEPT ![w] = answerOf'[w]]
  BY <1>3, Mapped, NextMapped
<1> QED
  BY <1>1, <1>4 DEF storedOf, askedOf

LEMMA FailRefines ==
  ASSUME IInv, NEW w \in Writers, NEW from \in Stage \ Stopped,
         NEW to \in {"failed", "broken"}, Goto(w, from, to),
         UNCHANGED <<links, digest, content>>
  PROVE  Abstract!Fail(w)
<1>1. answerOf'[w] = "error"
  BY NextMapped DEF Goto, IInv, TypeOK
<1> QED
  BY <1>1, Ends DEF Abstract!Fail, Stopped

LEMMA HashRefines ==
  ASSUME IInv, IInv', NEW w \in Writers, HashFile(w)
  PROVE  Abstract!Next
<1>1. pc[w] = "rewound" /\ pc'[w] = "hashed" /\ digest[w] = NoDigest
      /\ \A v \in Writers \ {w} : pc'[v] = pc[v] /\ digest'[v] = digest[v]
  BY DEF HashFile, Goto, IInv, TypeOK, InOrder, Unhashed
<1>2. UNCHANGED <<links, content>> /\ digest'[w] # NoDigest
  BY <1>1 DEF HashFile, storeVars, IInv, InOrder, Finishing
<1>3. askedOf[w] = NoBlob /\ askedOf'[w] = content[w] /\ content[w] \in Blob
  BY <1>1, <1>2, Mapped, NextMapped DEF IInv, TypeOK
<1>4. \A v \in Writers \ {w} : askedOf'[v] = askedOf[v]
  BY <1>1, <1>2, Mapped, NextMapped
<1>5. askedOf' = [askedOf EXCEPT ![w] = content[w]]
  BY <1>3, <1>4, Mapped, NextMapped
<1>6. answerOf[w] = "none" /\ answerOf'[w] = "none"
  BY <1>1, Mapped, NextMapped DEF Stage, Finishing
<1>7. \A v \in Writers \ {w} : answerOf'[v] = answerOf[v]
  BY <1>1 DEF answerOf
<1>8. answerOf' = answerOf /\ storedOf' = storedOf
  BY <1>2, <1>6, <1>7, Mapped, NextMapped DEF storedOf
<1>9. Abstract!Ask(w, content[w])
  BY <1>3, <1>5, <1>6, <1>8 DEF Abstract!Ask
<1> QED
  BY <1>3, <1>9 DEF Abstract!Next

LEMMA LinkRefines ==
  ASSUME IInv, IInv', NEW w \in Writers, Link(w)
  PROVE  Abstract!Next
<1>1. /\ pc[w] = "sealed" /\ pc'[w] = "linked"
      /\ \A v \in Writers \ {w} : pc'[v] = pc[v]
      /\ UNCHANGED <<content, digest>>
  BY DEF Link, Goto, IInv, TypeOK, blobVars
<1>2. digest[w] = Hash(content[w]) /\ digest[w] # NoDigest /\ content[w] \in Blob
  BY <1>1 DEF IInv, TypeOK, InOrder, Finishing
<1>3. askedOf[w] = content[w] /\ askedOf[w] # NoBlob /\ askedOf' = askedOf
  BY <1>1, <1>2, Mapped DEF askedOf
<1>4. answerOf[w] = "none" /\ answerOf'[w] = "none"
  BY <1>1, Mapped, NextMapped DEF Stage, Finishing
<1>5. \A v \in Writers \ {w} : answerOf'[v] = answerOf[v]
  BY <1>1 DEF answerOf
<1>6. answerOf' = answerOf
  BY <1>4, <1>5, Mapped, NextMapped
<1>7. storedOf' = storedOf \cup {content[w]}
  <2>1. CASE \E l \in links : l.name = digest[w]
    <3>1. links' = links
      BY <2>1 DEF Link
    <3>2. PICK l \in links : l.name = digest[w]
      BY <2>1
    <3>3. content[l.file] \in Blob /\ Hash(content[l.file]) = Hash(content[w])
      BY <1>2, <3>2 DEF IInv, TypeOK, LinkedWhole
    <3>4. content[l.file] = content[w]
      BY <1>2, <3>3
    <3> QED
      BY <1>1, <3>1, <3>4 DEF storedOf
  <2>2. CASE ~ \E l \in links : l.name = digest[w]
    <3>1. links' = links \cup {[name |-> digest[w], file |-> w]}
      BY <2>2 DEF Link
    <3>2. \A l \in links' : content'[l.file] \in storedOf \cup {content[w]}
      BY <1>1, <3>1 DEF storedOf
    <3>3. storedOf' \subseteq storedOf \cup {content[w]}
      BY <3>2 DEF storedOf
    <3>4. \A l \in links : content'[l.file] \in storedOf'
      BY <3>1 DEF storedOf
    <3>5. content'[w] \in storedOf'
      <4>1. [name |-> digest[w], file |-> w] \in links'
        BY <3>1
      <4> QED
        BY <4>1 DEF storedOf
    <3>6. storedOf \subseteq storedOf'
      BY <1>1, <3>4 DEF storedOf
    <3> QED
      BY <1>1, <3>3, <3>5, <3>6
  <2> QED
    BY <2>1, <2>2
<1>8. Abstract!Commit(w)
  BY <1>3, <1>4, <1>6, <1>7 DEF Abstract!Commit
<1> QED
  BY <1>8 DEF Abstract!Next

LEMMA ReturnRefines ==
  ASSUME IInv, NEW w \in Writers, Return(w)
  PROVE  Abstract!Next
<1>1. Goto(w, "linked", "done") /\ UNCHANGED <<links, digest, content>>
  BY DEF Return, storeVars, blobVars
<1>2. /\ answerOf[w] = "none"
      /\ answerOf' = [answerOf EXCEPT ![w] = "ok"]
      /\ UNCHANGED <<storedOf, askedOf>>
  <2>1. answerOf'[w] = "ok"
    BY <1>1, NextMapped DEF Goto, IInv, TypeOK
  <2> QED
    BY <1>1, <2>1, Ends DEF Stage, Finishing, Stopped
<1>3. askedOf[w] \in storedOf
  <2>1. PICK l \in links : l.name = digest[w]
    BY <1>1 DEF Goto, IInv, Present
  <2>2. /\ digest[w] = Hash(content[w]) /\ digest[w] # NoDigest
        /\ content[w] \in Blob /\ content[l.file] \in Blob
        /\ l.name = Hash(content[l.file])
    BY <1>1, <2>1 DEF Goto, IInv, TypeOK, InOrder, LinkedWhole, Finishing
  <2>3. content[l.file] = content[w]
    BY <2>1, <2>2
  <2> QED
    BY <2>2, <2>3, Mapped DEF storedOf
<1>4. Abstract!Succeed(w)
  BY <1>2, <1>3 DEF Abstract!Succeed
<1> QED
  BY <1>4 DEF Abstract!Next

LEMMA DieRefines ==
  ASSUME IInv, NEW w \in Writers, Die(w)
  PROVE  Abstract!Next
<1>1. UNCHANGED <<links, digest, content>>
  BY DEF Die, storeVars, blobVars
<1>2. CASE \E from \in Creating : Goto(w, from, "broken")
  BY <1>1, <1>2, FailRefines DEF Creating, Stage, Stopped, Abstract!Next
<1>3. CASE \E from \in Stage \ (Creating \cup Ended) : Goto(w, from, "dead")
  <2>1. PICK from \in Stage \ (Creating \cup Ended) : Goto(w, from, "dead")
    BY <1>3
  <2>2. answerOf'[w] = "dead"
    BY <2>1, NextMapped DEF Goto, IInv, TypeOK
  <2>3. Abstract!Die(w)
    BY <1>1, <2>1, <2>2, Ends DEF Abstract!Die, Stopped, Ended
  <2> QED
    BY <2>3 DEF Abstract!Next
<1> QED
  BY <1>2, <1>3 DEF Die

LEMMA RefinesInit == Init => Abstract!Init
  BY DEF Init, Abstract!Init, storedOf, askedOf, answerOf

LEMMA RefinesStep == IInv /\ IInv' /\ [Next]_vars => [Abstract!Next]_(Abstract!vars)
<1> SUFFICES ASSUME IInv, IInv', [Next]_vars PROVE [Abstract!Next]_(Abstract!vars)
  OBVIOUS
<1> USE DEF storeVars, blobVars
<1>1. CASE UNCHANGED vars
  BY <1>1 DEF vars, Abstract!vars, storedOf, askedOf, answerOf
<1>2. ASSUME NEW w \in Writers, NEW from, NEW to, Goto(w, from, to),
             {from, to} \cap {"done", "failed", "broken", "dead"} = {},
             UNCHANGED <<links, digest, content>>
      PROVE  UNCHANGED Abstract!vars
  BY <1>2, Hidden
<1>3. ASSUME NEW w \in Writers, Open(w) PROVE UNCHANGED Abstract!vars
  BY <1>2, <1>3 DEF Open
<1>4. ASSUME NEW w \in Writers, MakeDirectory(w) PROVE [Abstract!Next]_(Abstract!vars)
  <2>1. CASE directory
    <3>1. Goto(w, "missing", "failed")
      BY <1>4, <2>1 DEF MakeDirectory
    <3> QED
      BY <1>4, <3>1, FailRefines DEF MakeDirectory, Stage, Stopped, Abstract!Next
  <2>2. CASE ~directory
    BY <1>2, <1>4, <2>2 DEF MakeDirectory
  <2> QED
    BY <2>1, <2>2
<1>5. ASSUME NEW w \in Writers, CountGeneration(w) \/ LinkGeneration(w)
      PROVE  UNCHANGED Abstract!vars
  BY <1>2, <1>5 DEF CountGeneration, LinkGeneration
<1>6. ASSUME NEW w \in Writers, InsertBlob(w) \/ Abandon(w) PROVE UNCHANGED Abstract!vars
  BY <1>2, <1>6 DEF InsertBlob, Abandon
<1>7. ASSUME NEW w \in Writers, Write(w) PROVE UNCHANGED Abstract!vars
  <2>1. Goto(w, "writing", "writing") /\ UNCHANGED <<links, digest>>
    BY <1>7 DEF Write, Goto, IInv, TypeOK
  <2>2. digest[w] = NoDigest /\ \A v \in Writers \ {w} : content'[v] = content[v]
    BY <1>7 DEF Write, IInv, TypeOK, InOrder, Unhashed, Unwritten
  <2> QED
    BY <2>1, <2>2, Hidden
<1>8. ASSUME NEW w \in Writers, Rewind(w) PROVE UNCHANGED Abstract!vars
  BY <1>2, <1>8 DEF Rewind
<1>9. ASSUME NEW w \in Writers, HashFile(w) \/ Link(w) \/ Return(w) \/ Die(w)
      PROVE  Abstract!Next
  BY <1>9, HashRefines, LinkRefines, ReturnRefines, DieRefines
<1>10. ASSUME NEW w \in Writers, ReadGeneration(w) PROVE [Abstract!Next]_(Abstract!vars)
  <2>1. CASE generation = "0"
    BY <1>2, <1>10, <2>1 DEF ReadGeneration
  <2>2. CASE generation # "0"
    <3>1. Goto(w, "hashed", "failed")
      BY <1>10, <2>2 DEF ReadGeneration
    <3> QED
      BY <1>10, <3>1, FailRefines
         DEF ReadGeneration, Stage, Finishing, Stopped, Abstract!Next
  <2> QED
    BY <2>1, <2>2
<1>11. ASSUME NEW w \in Writers, SetGeneration(w) \/ SetType(w) \/ Seal(w)
       PROVE  UNCHANGED Abstract!vars
  BY <1>2, <1>11 DEF SetGeneration, SetType, Seal, SetAttribute
<1>12. ASSUME NEW w \in Writers, Fail(w) PROVE Abstract!Next
  <2>1. PICK from \in Stage \ Stopped, to \in {"failed", "broken"} : Goto(w, from, to)
    BY <1>12 DEF Fail, Stage, Creating, Finishing, Stopped
  <2> QED
    BY <1>12, <2>1, FailRefines DEF Fail, Abstract!Next
<1> QED
  BY <1>1, <1>3, <1>4, <1>5, <1>6, <1>7, <1>8, <1>9, <1>10, <1>11, <1>12 DEF Next

\* The directory is what the callers of the store may take it for: a set of
\* blobs that only grows, with every blob in it whose insertion succeeded.
THEOREM ImplementsStore == Spec => ImplementsContentStore
<1>1. Init => Abstract!Init
  BY RefinesInit
<1>2. IInv /\ IInv' /\ [Next]_vars => [Abstract!Next]_(Abstract!vars)
  BY RefinesStep
<1> QED
  BY <1>1, <1>2, Invariance, PTL DEF Spec, ImplementsContentStore, Abstract!Spec
=============================================================================
