------------------------- MODULE ExperienceStoreProofs -------------------------
(***************************************************************************)
(* Proofs about ExperienceStore, for any processes and any artifacts: the  *)
(* lock excludes, nothing is overwritten, only what a writer stopped at    *)
(* the append is missing from the index, and the index is an append-only   *)
(* list that names no id twice.                                            *)
(***************************************************************************)
EXTENDS ExperienceStore, TLAPS

(* One writer at a time is between its duplicate check and its append. *)
Exclusive ==
    /\ \A p, q \in lock : p = q
    /\ \A p \in Process : pc[p] \in {"admitted", "published"} <=> p \in lock

(* What it was admitted with is new, and when its file is in place it is    *)
(* still new to the index.                                                  *)
WriterFresh ==
    \A p \in lock :
        /\ pc[p] = "admitted" => ~Stored(writing[p])
        /\ pc[p] = "published" =>
               /\ writing[p] \in files
               /\ \A i \in Lines : ~SameId(index[i], writing[p])

(* No two lines of the index name one id. *)
LinesDistinct == \A i, j \in Lines : SameId(index[i], index[j]) => i = j

(* A line that was never ended does not parse. *)
RaggedCorrupt == ragged => corruptAt # 0

StoreInv ==
    /\ StoreTypeOK
    /\ Exclusive
    /\ WriterFresh
    /\ LinesDistinct
    /\ OnlyCutOffIsHidden
    /\ RaggedCorrupt

----------------------------------------------------------------------------
(* Types                                                                    *)

(* The store as an earlier session left it has its type.                    *)
LEMMA StoreInitType == StoreInit => StoreTypeOK
<1> SUFFICES ASSUME StoreInit PROVE StoreTypeOK
  OBVIOUS
<1>1. History \in Seq(Artifact) /\ Len(History) \in Nat
  BY StoreConstants
<1>2. files \subseteq Artifact
  BY <1>1 DEF StoreInit
<1>3. corruptAt \in 0..Len(index) + 1
  BY <1>1 DEF StoreInit
<1> QED BY <1>1, <1>2, <1>3 DEF StoreInit, StoreTypeOK, Labels

(* No step of write_artifact changes the type of a variable.                *)
LEMMA StoreTypeStep == StoreTypeOK /\ [StoreNext]_storeVars => StoreTypeOK'
<1> SUFFICES ASSUME StoreTypeOK, [StoreNext]_storeVars PROVE StoreTypeOK'
  OBVIOUS
<1> USE DEF StoreTypeOK, Goto, Unlock, Labels
<1>1. ASSUME NEW p \in Process, NEW a \in Artifact, CallWrite(p, a)
      PROVE  StoreTypeOK'
  BY <1>1, StoreConstants DEF CallWrite
<1>2. ASSUME NEW p \in Process, Acquire(p) PROVE StoreTypeOK'
  BY <1>2 DEF Acquire, Admit, RefuseStored
<1>3. ASSUME NEW p \in Process, LockTimeout(p) PROVE StoreTypeOK'
  BY <1>3 DEF LockTimeout
<1>4. ASSUME NEW p \in Process, ReplaceFile(p) PROVE StoreTypeOK'
  BY <1>4 DEF ReplaceFile
<1>5. ASSUME NEW p \in Process, AppendLine(p) PROVE StoreTypeOK'
  <2>1. writing[p] \in Artifact
    BY <1>5 DEF AppendLine
  <2>2. index' \in Seq(Artifact) /\ Len(index') \in {Len(index), Len(index) + 1}
    <3>1. /\ Append(index, writing[p]) \in Seq(Artifact)
          /\ Len(Append(index, writing[p])) = Len(index) + 1
      BY <2>1
    <3>2. index' = index \/ index' = Append(index, writing[p])
      BY <1>5 DEF AppendLine
    <3> QED BY <3>1, <3>2
  <2>3. corruptAt' \in 0..Len(index') + 1
    BY <1>5, <2>2 DEF AppendLine
  <2>4. cutOff' \subseteq Artifact
    BY <1>5, <2>1 DEF AppendLine
  <2> QED BY <1>5, <2>2, <2>3, <2>4 DEF AppendLine
<1>6. ASSUME NEW p \in Process, AppendTorn(p) PROVE StoreTypeOK'
  <2>1. writing[p] \in Artifact
    BY <1>6 DEF AppendTorn
  <2>2. corruptAt' \in 0..Len(index') + 1
    BY <1>6 DEF AppendTorn
  <2> QED BY <1>6, <2>1, <2>2 DEF AppendTorn
<1>7. ASSUME NEW p \in Process, Die(p) PROVE StoreTypeOK'
  <2>1. cutOff' \subseteq Artifact
    BY <1>7 DEF Die, DieUnpublished, DiePublished
  <2> QED BY <1>7, <2>1 DEF Die, DieUnpublished, DiePublished
<1>8. ASSUME NEW p \in Process, Leave(p) PROVE StoreTypeOK'
  BY <1>8 DEF Leave
<1>9. CASE UNCHANGED storeVars
  BY <1>9 DEF storeVars
<1> QED
  BY <1>1, <1>2, <1>3, <1>4, <1>5, <1>6, <1>7, <1>8, <1>9 DEF StoreNext, Work

----------------------------------------------------------------------------
(* The lock and the writer that holds it                                    *)

(* No step lets a second writer in: a writer holds the lock from its        *)
(* duplicate check to its append, and gives it up when it dies.             *)
LEMMA ExclusiveStep ==
    ASSUME StoreTypeOK, Exclusive, [StoreNext]_storeVars PROVE Exclusive'
<1> USE DEF StoreTypeOK, Exclusive, Goto, Unlock
<1>1. ASSUME NEW p \in Process, NEW a \in Artifact, CallWrite(p, a)
      PROVE  Exclusive'
  BY <1>1 DEF CallWrite
<1>2. ASSUME NEW p \in Process, Acquire(p) PROVE Exclusive'
  BY <1>2 DEF Acquire, Admit, RefuseStored
<1>3. ASSUME NEW p \in Process, LockTimeout(p) \/ ReplaceFile(p) PROVE Exclusive'
  BY <1>3 DEF LockTimeout, ReplaceFile
<1>4. ASSUME NEW p \in Process, AppendLine(p) \/ AppendTorn(p) \/ Die(p)
      PROVE  Exclusive'
  BY <1>4 DEF AppendLine, AppendTorn, Die
<1>5. ASSUME NEW p \in Process, Leave(p) PROVE Exclusive'
  BY <1>5 DEF Leave
<1>6. CASE UNCHANGED storeVars
  BY <1>6 DEF storeVars
<1> QED BY <1>1, <1>2, <1>3, <1>4, <1>5, <1>6 DEF StoreNext, Work

(* os.replace never replaces: what is admitted is in no file.               *)
LEMMA FilesGrow ==
    ASSUME StoreTypeOK, Exclusive, WriterFresh, [StoreNext]_storeVars
    PROVE  files \subseteq files'
<1>1. ASSUME NEW p \in Process, ReplaceFile(p) PROVE files \subseteq files'
  <2>1. ~Stored(writing[p])
    BY <1>1 DEF ReplaceFile, Exclusive, WriterFresh
  <2> QED BY <1>1, <2>1 DEF ReplaceFile, Stored
<1>2. CASE UNCHANGED files
  BY <1>2
<1> QED
  BY <1>1, <1>2 DEF StoreNext, storeVars, Work, CallWrite, Acquire, Admit,
     RefuseStored, LockTimeout, AppendLine, AppendTorn, Die, Leave

(* A line is only ever added, at the end, by the writer with the lock.      *)
LEMMA IndexStep ==
    ASSUME StoreTypeOK, [StoreNext]_storeVars
    PROVE  \/ UNCHANGED index
           \/ \E p \in Process :
                  /\ AppendLine(p)
                  /\ writing[p] \in Artifact
                  /\ index' = Append(index, writing[p])
<1>1. ASSUME NEW p \in Process, AppendLine(p)
      PROVE  /\ writing[p] \in Artifact
             /\ index' = Append(index, writing[p]) \/ UNCHANGED index
  BY <1>1 DEF AppendLine, StoreTypeOK
<1> QED
  BY <1>1 DEF StoreNext, storeVars, Work, CallWrite, Acquire, Admit,
     RefuseStored, LockTimeout, ReplaceFile, AppendTorn, Die, Leave

(* What the lines of a longer index are. *)
LEMMA AppendedLines ==
    ASSUME NEW s \in Seq(Artifact), NEW a \in Artifact
    PROVE  /\ 1..Len(Append(s, a)) = 1..Len(s) \cup {Len(s) + 1}
           /\ \A i \in 1..Len(s) : Append(s, a)[i] = s[i]
           /\ Append(s, a)[Len(s) + 1] = a
  OBVIOUS

(* What a writer was admitted with stays new, because nobody else changes   *)
(* files or index while it holds the lock.                                  *)
LEMMA WriterFreshStep ==
    ASSUME StoreTypeOK, Exclusive, WriterFresh, OnlyCutOffIsHidden,
           [StoreNext]_storeVars
    PROVE  WriterFresh'
<1> USE DEF StoreTypeOK, Exclusive, WriterFresh, Goto, Unlock
<1>1. ASSUME NEW p \in Process, NEW a \in Artifact, CallWrite(p, a)
      PROVE  WriterFresh'
  BY <1>1 DEF CallWrite, Stored, Lines
<1>2. ASSUME NEW p \in Process, Acquire(p) PROVE WriterFresh'
  BY <1>2 DEF Acquire, Admit, RefuseStored, Stored, Lines
<1>3. ASSUME NEW p \in Process, LockTimeout(p) PROVE WriterFresh'
  BY <1>3 DEF LockTimeout, Stored, Lines
<1>4. ASSUME NEW p \in Process, ReplaceFile(p) PROVE WriterFresh'
  <2>1. p \in lock /\ ~Stored(writing[p])
    BY <1>4 DEF ReplaceFile
  <2>2. \A i \in Lines : ~SameId(index[i], writing[p])
    BY <2>1 DEF Stored, OnlyCutOffIsHidden
  <2>3. lock' = lock /\ \A q \in lock : q = p
    BY <1>4, <2>1 DEF ReplaceFile
  <2>4. pc'[p] = "published" /\ writing[p] \in files'
    BY <1>4 DEF ReplaceFile
  <2> QED BY <1>4, <2>2, <2>3, <2>4 DEF ReplaceFile, Lines
<1>5. ASSUME NEW p \in Process, AppendLine(p) \/ AppendTorn(p) \/ Die(p)
      PROVE  WriterFresh'
  <2>1. p \in lock /\ lock' = lock \ {p}
    BY <1>5 DEF AppendLine, AppendTorn, Die, DieUnpublished, DiePublished
  <2>2. lock' = {}
    BY <2>1
  <2> QED BY <2>2
<1>6. ASSUME NEW p \in Process, Leave(p) PROVE WriterFresh'
  BY <1>6 DEF Leave, Stored, Lines
<1>7. CASE UNCHANGED storeVars
  BY <1>7 DEF storeVars, Stored, Lines
<1> QED
  BY <1>1, <1>2, <1>3, <1>4, <1>5, <1>6, <1>7 DEF StoreNext, Work

(* A line is appended only for an id no line names.                         *)
LEMMA LinesDistinctStep ==
    ASSUME StoreTypeOK, Exclusive, WriterFresh, LinesDistinct,
           [StoreNext]_storeVars
    PROVE  LinesDistinct'
<1>1. CASE UNCHANGED index
  BY <1>1 DEF LinesDistinct, Lines
<1>2. ASSUME NEW p \in Process, AppendLine(p), writing[p] \in Artifact,
             index' = Append(index, writing[p])
      PROVE  LinesDistinct'
  <2>1. \A i \in Lines : ~SameId(index[i], writing[p])
    BY <1>2 DEF AppendLine, WriterFresh, Exclusive
  <2>2. index \in Seq(Artifact)
    BY DEF StoreTypeOK
  <2> QED
    BY <1>2, <2>1, <2>2, AppendedLines DEF LinesDistinct, Lines, SameId
<1> QED BY <1>1, <1>2, IndexStep

(* A file whose writer leaves without a line is one that was cut off.       *)
LEMMA OnlyCutOffStep ==
    ASSUME StoreTypeOK, Exclusive, WriterFresh, OnlyCutOffIsHidden,
           [StoreNext]_storeVars
    PROVE  OnlyCutOffIsHidden'
<1> USE DEF OnlyCutOffIsHidden
<1>1. \A i \in Lines' : index'[i] \in files'
  <2>1. files \subseteq files'
    BY FilesGrow
  <2>2. CASE UNCHANGED index
    BY <2>1, <2>2 DEF Lines
  <2>3. ASSUME NEW p \in Process, AppendLine(p), writing[p] \in Artifact,
               index' = Append(index, writing[p])
        PROVE  \A i \in Lines' : index'[i] \in files'
    <3>1. writing[p] \in files /\ index \in Seq(Artifact)
      BY <2>3 DEF AppendLine, WriterFresh, Exclusive, StoreTypeOK
    <3> QED BY <2>1, <2>3, <3>1, AppendedLines DEF Lines
  <2> QED BY <2>2, <2>3, IndexStep
<1>2. SUFFICES ASSUME NEW a \in files'
               PROVE  \/ Indexed(a)'
                      \/ a \in cutOff'
                      \/ \E p \in lock' : pc'[p] = "published" /\ writing'[p] = a
  BY <1>1
<1>3. ASSUME Indexed(a) PROVE Indexed(a)'
  <2>1. CASE UNCHANGED index
    BY <1>3, <2>1 DEF Indexed, Lines
  <2>2. ASSUME NEW p \in Process, writing[p] \in Artifact,
               index' = Append(index, writing[p])
        PROVE  Indexed(a)'
    <3>1. index \in Seq(Artifact)
      BY DEF StoreTypeOK
    <3> QED BY <1>3, <2>2, <3>1, AppendedLines DEF Indexed, Lines
  <2> QED BY <2>1, <2>2, IndexStep
<1>4. cutOff \subseteq cutOff'
  BY DEF StoreNext, storeVars, Work, CallWrite, Acquire, Admit, RefuseStored,
     LockTimeout, ReplaceFile, AppendLine, AppendTorn, Die, DieUnpublished,
     DiePublished, Leave
<1>5. ASSUME NEW p \in Process, ReplaceFile(p), a \notin files
      PROVE  \E q \in lock' : pc'[q] = "published" /\ writing'[q] = a
  BY <1>5 DEF ReplaceFile, Exclusive, StoreTypeOK, Goto
<1>6. CASE a \notin files
  <2>1. \E p \in Process : ReplaceFile(p)
    BY <1>6 DEF StoreNext, storeVars, Work, CallWrite, Acquire, Admit,
       RefuseStored, LockTimeout, AppendLine, AppendTorn, Die, Leave
  <2> QED BY <1>5, <1>6, <2>1
<1>7. ASSUME NEW q \in lock, pc[q] = "published", writing[q] = a
      PROVE  \/ Indexed(a)'
             \/ a \in cutOff'
             \/ \E p \in lock' : pc'[p] = "published" /\ writing'[p] = a
  <2> USE <1>7 DEF StoreTypeOK, Exclusive, Goto, Unlock
  <2>1. CASE AppendLine(q)
    <3>1. CASE ragged
      BY <2>1, <3>1 DEF AppendLine
    <3>2. CASE ~ragged
      <4>1. index' = Append(index, a) /\ a \in Artifact /\ index \in Seq(Artifact)
        BY <2>1, <3>2 DEF AppendLine
      <4> QED BY <4>1, AppendedLines DEF Indexed, Lines
    <3> QED BY <3>1, <3>2
  <2>2. CASE AppendTorn(q) \/ Die(q)
    BY <2>2 DEF AppendTorn, Die, DieUnpublished, DiePublished
  <2>3. CASE \E p \in Process : ReplaceFile(p) \/ AppendLine(p) \/ AppendTorn(p)
                                 \/ Die(p)
    <3>1. PICK p \in Process : ReplaceFile(p) \/ AppendLine(p) \/ AppendTorn(p)
                                 \/ Die(p)
      BY <2>3
    <3>2. p \in lock
      BY <3>1 DEF ReplaceFile, AppendLine, AppendTorn, Die, DieUnpublished,
         DiePublished
    <3>3. p = q /\ ~ReplaceFile(q)
      BY <3>2 DEF ReplaceFile
    <3> QED BY <2>1, <2>2, <3>1, <3>3
  <2>4. CASE \E p \in Process : \/ \E b \in Artifact : CallWrite(p, b)
                                 \/ Acquire(p) \/ LockTimeout(p) \/ Leave(p)
    BY <2>4 DEF CallWrite, Acquire, LockTimeout, Leave, Admit, RefuseStored
  <2>5. CASE UNCHANGED storeVars
    BY <2>5 DEF storeVars
  <2> QED BY <2>3, <2>4, <2>5 DEF StoreNext, Work
<1> QED BY <1>3, <1>4, <1>6, <1>7

(* A line left unfinished does not parse, and stays that way.               *)
LEMMA RaggedStep ==
    ASSUME StoreTypeOK, RaggedCorrupt, [StoreNext]_storeVars
    PROVE  RaggedCorrupt'
<1> USE DEF RaggedCorrupt
<1>1. ASSUME NEW p \in Process, AppendLine(p) PROVE RaggedCorrupt'
  BY <1>1 DEF AppendLine
<1>2. ASSUME NEW p \in Process, AppendTorn(p) PROVE RaggedCorrupt'
  <2>1. Len(index) + 1 # 0
    BY DEF StoreTypeOK
  <2> QED BY <1>2, <2>1 DEF AppendTorn
<1>3. CASE UNCHANGED <<ragged, corruptAt>>
  BY <1>3
<1> QED
  BY <1>1, <1>2, <1>3 DEF StoreNext, storeVars, Work, CallWrite, Acquire,
     Admit, RefuseStored, LockTimeout, ReplaceFile, Die, Leave

----------------------------------------------------------------------------
(* The theorems                                                             *)

(* The store an earlier session left satisfies the invariant.               *)
LEMMA StoreInvInit == StoreInit => StoreInv
<1> SUFFICES ASSUME StoreInit PROVE StoreInv
  OBVIOUS
<1>1. StoreTypeOK
  BY StoreInitType
<1>2. Exclusive /\ WriterFresh /\ RaggedCorrupt
  BY DEF StoreInit, Exclusive, WriterFresh, RaggedCorrupt
<1>3. LinesDistinct
  BY StoreConstants DEF StoreInit, LinesDistinct, Lines, SameId
<1>4. OnlyCutOffIsHidden
  BY DEF StoreInit, OnlyCutOffIsHidden, Lines, Indexed
<1> QED BY <1>1, <1>2, <1>3, <1>4 DEF StoreInv

(* Every step of write_artifact keeps the invariant.                        *)
LEMMA StoreInvStep == StoreInv /\ [StoreNext]_storeVars => StoreInv'
  BY StoreTypeStep, ExclusiveStep, WriterFreshStep, LinesDistinctStep,
     OnlyCutOffStep, RaggedStep DEF StoreInv

(* The inductive invariant of the store.                                    *)
THEOREM StoreInvariance == StoreSpec => []StoreInv
  BY StoreInvInit, StoreInvStep, PTL DEF StoreSpec

(* No stored artifact is ever replaced or removed (write_artifact), for any *)
(* number of writers that time out and die.                                 *)
THEOREM NeverOverwritten == StoreSpec => NothingOverwritten
<1>1. StoreInv /\ [StoreNext]_storeVars => [files \subseteq files']_storeVars
  BY FilesGrow DEF StoreInv
<1> QED BY <1>1, StoreInvariance, PTL DEF StoreSpec, NothingOverwritten

(* An artifact with a file is indexed, in hand, or was cut off.             *)
THEOREM HiddenWereCutOff == StoreSpec => []OnlyCutOffIsHidden
<1>1. StoreInv => OnlyCutOffIsHidden
  BY DEF StoreInv
<1> QED BY <1>1, StoreInvariance, PTL

(* The index implements the append-only list of distinct ids.               *)
THEOREM IndexIsAppendOnly == StoreSpec => ImplementsAppendOnlyIndex
<1>1. StoreInit => Recorded!Init
  BY DEF StoreInit, Recorded!Init
<1>2. StoreInv /\ [StoreNext]_storeVars => [Recorded!Next]_index
  <2> SUFFICES ASSUME StoreInv, [StoreNext]_storeVars
               PROVE  [Recorded!Next]_index
    OBVIOUS
  <2>1. ASSUME NEW p \in Process, AppendLine(p), writing[p] \in Artifact,
               index' = Append(index, writing[p])
        PROVE  Recorded!Next
    <3>1. \A i \in Lines : ~SameId(index[i], writing[p])
      BY <2>1 DEF StoreInv, AppendLine, WriterFresh, Exclusive
    <3>2. Recorded!Record(writing[p])
      BY <2>1, <3>1 DEF Recorded!Record, Recorded!Fresh, Lines, SameId
    <3> QED BY <2>1, <3>2 DEF Recorded!Next
  <2> QED BY <2>1, IndexStep DEF StoreInv
<1> QED
  BY <1>1, <1>2, StoreInvariance, PTL
  DEF StoreSpec, ImplementsAppendOnlyIndex, Recorded!Spec
===============================================================================
