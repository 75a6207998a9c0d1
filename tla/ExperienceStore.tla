---------------------------- MODULE ExperienceStore ----------------------------
(***************************************************************************)
(* The HOP experience store: artifact files and an append-only index,      *)
(* written by several processes under one exclusive file lock.             *)
(*                                                                         *)
(* write_artifact takes the lock and looks for a file of the same id (one  *)
(* step: nobody else changes files under the lock), swaps the new file in  *)
(* (temporary file, then os.replace) and appends one line to index.jsonl.  *)
(* A process may die between these steps (the kernel then drops its lock), *)
(* and the append may be cut short, which leaves a line without its end:   *)
(* the next append continues that line.                                    *)
(*                                                                         *)
(* Abstracted: payloads are values with an id, already validated; reads of *)
(* the index take no lock and see a prefix of it, here the whole of it at  *)
(* one moment; temporary files nobody reads are left out.                  *)
(***************************************************************************)
EXTENDS Integers, Sequences, FiniteSets

CONSTANTS
    Process,        \* processes with the store open
    Artifact,       \* valid payloads
    ArtifactId,     \* ArtifactId[a]: artifact type and artifact_id of a
    History,        \* artifacts an earlier session stored, oldest first
    NoArtifact,     \* what a process that is not in write_artifact writes
    MaxCutOff       \* bound: artifacts whose writer stops at the append

ASSUME StoreConstants ==
    /\ DOMAIN ArtifactId = Artifact
    /\ NoArtifact \notin Artifact
    /\ History \in Seq(Artifact)
    /\ \A i, j \in 1..Len(History) :
           ArtifactId[History[i]] = ArtifactId[History[j]] => i = j
    /\ MaxCutOff \in Nat

VARIABLES
    files,          \* payloads of the artifact files
    index,          \* whole lines of index.jsonl, oldest first
    corruptAt,      \* line that does not parse, 0 if there is none
    ragged,         \* does index.jsonl end in an unfinished line?
    lock,           \* processes that hold index.jsonl.lock
    pc,             \* pc[p]: where p is in write_artifact
    writing,        \* writing[p]: the payload p called it with
    cutOff          \* history: payloads whose writer stopped at the append

storeVars == <<files, index, corruptAt, ragged, lock, pc, writing, cutOff>>

Goto(p, label) == pc' = [pc EXCEPT ![p] = label]
Unlock(p) == lock' = lock \ {p}

SameId(a, b) == ArtifactId[a] = ArtifactId[b]
Stored(a) == \E f \in files : SameId(f, a)

Lines == 1..Len(index)
Indexed(a) == \E i \in Lines : index[i] = a

----------------------------------------------------------------------------
(* Reading: iter_index raises at a line that does not parse, so a search    *)
(* finds what it looks for before that line or not at all.                  *)

ReadableLines == {i \in Lines : corruptAt = 0 \/ i < corruptAt}
ScanRaises == corruptAt # 0

----------------------------------------------------------------------------
StoreInit ==
    /\ files = {History[i] : i \in 1..Len(History)}
    /\ index = History
    /\ corruptAt = 0
    /\ ragged = FALSE
    /\ lock = {}
    /\ pc = [p \in Process |-> "idle"]
    /\ writing = [p \in Process |-> NoArtifact]
    /\ cutOff = {}

(* write_artifact is called; validation has passed. *)
CallWrite(p, a) ==
    /\ pc[p] = "idle"
    /\ writing' = [writing EXCEPT ![p] = a]
    /\ Goto(p, "waiting")
    /\ UNCHANGED <<files, index, corruptAt, ragged, lock, cutOff>>

(* Under the lock: no file of this id exists; an identical one makes the    *)
(* call a no-op that returns, any other one makes it raise.                 *)
Admit(p) ==
    /\ ~Stored(writing[p])
    /\ lock' = lock \cup {p}
    /\ Goto(p, "admitted")
    /\ UNCHANGED <<files, index, corruptAt, ragged, writing, cutOff>>

(* Mutant: a conflicting payload is tried again. *)
RefuseStoredRetried(p) ==
    /\ writing[p] \in files
    /\ Goto(p, "returned")
    /\ UNCHANGED <<files, index, corruptAt, ragged, lock, writing, cutOff>>

RefuseStored(p) ==
    /\ Stored(writing[p])
    /\ Goto(p, IF writing[p] \in files THEN "returned" ELSE "raised")
    /\ UNCHANGED <<files, index, corruptAt, ragged, lock, writing, cutOff>>

(* Mutant: the lock is not exclusive. *)
AcquireShared(p) ==
    /\ pc[p] = "waiting"
    /\ Admit(p) \/ RefuseStored(p)

(* Mutant: an artifact whose file exists is written again. *)
AcquireUnchecked(p) ==
    /\ pc[p] = "waiting"
    /\ lock = {}
    /\ lock' = lock \cup {p}
    /\ Goto(p, "admitted")
    /\ UNCHANGED <<files, index, corruptAt, ragged, writing, cutOff>>

(* flock(LOCK_EX | LOCK_NB) succeeds. *)
Acquire(p) ==
    /\ pc[p] = "waiting"
    /\ lock = {}
    /\ Admit(p) \/ RefuseStored(p)

(* Mutant: a writer that times out goes on without the lock. *)
LockTimeoutIgnored(p) ==
    /\ pc[p] = "waiting"
    /\ lock # {}
    /\ Goto(p, "admitted")
    /\ UNCHANGED <<files, index, corruptAt, ragged, lock, writing, cutOff>>

(* The lock is still held by another process at the deadline. *)
LockTimeout(p) ==
    /\ pc[p] = "waiting"
    /\ lock # {}
    /\ Goto(p, "raised")
    /\ UNCHANGED <<files, index, corruptAt, ragged, lock, writing, cutOff>>

(* _atomic_write_json: os.replace puts the file in the place of any other. *)
ReplaceFile(p) ==
    /\ pc[p] = "admitted"
    /\ files' = {f \in files : ~SameId(f, writing[p])} \cup {writing[p]}
    /\ Goto(p, "published")
    /\ UNCHANGED <<index, corruptAt, ragged, lock, writing, cutOff>>

(* _atomic_append_index: a line of its own, or the end of an unfinished     *)
(* line, which then still does not parse; then the call returns.            *)
AppendLine(p) ==
    /\ pc[p] = "published"
    /\ IF ragged
       THEN cutOff' = cutOff \cup {writing[p]} /\ UNCHANGED index
       ELSE index' = Append(index, writing[p]) /\ UNCHANGED cutOff
    /\ ragged' = FALSE
    /\ Unlock(p)
    /\ Goto(p, "returned")
    /\ UNCHANGED <<files, corruptAt, writing>>

(* The append is cut short (a full disk, a killed process): the bytes       *)
(* before the cut stay.                                                     *)
AppendTorn(p) ==
    /\ pc[p] = "published"
    /\ Cardinality(cutOff) < MaxCutOff
    /\ corruptAt' = IF corruptAt = 0 THEN Len(index) + 1 ELSE corruptAt
    /\ ragged' = TRUE
    /\ cutOff' = cutOff \cup {writing[p]}
    /\ Unlock(p)
    /\ Goto(p, "raised")
    /\ UNCHANGED <<files, index, writing>>

(* The process dies holding the lock, and the kernel releases it: before    *)
(* the file is in place, which leaves no trace, or between file and index.  *)
DieUnpublished(p) ==
    /\ pc[p] = "admitted"
    /\ UNCHANGED cutOff

DiePublished(p) ==
    /\ pc[p] = "published"
    /\ Cardinality(cutOff) < MaxCutOff
    /\ cutOff' = cutOff \cup {writing[p]}

Die(p) ==
    /\ DieUnpublished(p) \/ DiePublished(p)
    /\ Unlock(p)
    /\ Goto(p, "raised")
    /\ UNCHANGED <<files, index, corruptAt, ragged, writing>>

(* Mutant: what was written is not forgotten. *)
LeaveKeeping(p) ==
    /\ pc[p] \in {"returned", "raised"}
    /\ Goto(p, "idle")
    /\ UNCHANGED <<files, index, corruptAt, ragged, lock, writing, cutOff>>

(* The caller takes the result, or the exception. *)
Leave(p) ==
    /\ pc[p] \in {"returned", "raised"}
    /\ Goto(p, "idle")
    /\ writing' = [writing EXCEPT ![p] = NoArtifact]
    /\ UNCHANGED <<files, index, corruptAt, ragged, lock, cutOff>>

Work(p) == Acquire(p) \/ LockTimeout(p) \/ ReplaceFile(p) \/ AppendLine(p)

StoreNext ==
    \E p \in Process :
        \/ \E a \in Artifact : CallWrite(p, a)
        \/ Work(p) \/ AppendTorn(p) \/ Die(p) \/ Leave(p)

StoreSpec == StoreInit /\ [][StoreNext]_storeVars

----------------------------------------------------------------------------
(* Properties                                                               *)

Labels == {"idle", "waiting", "admitted", "published", "returned", "raised"}

(* Every variable keeps its type: index lines and files are artifacts, and  *)
(* the line that does not parse is one that was appended.                   *)
StoreTypeOK ==
    /\ files \subseteq Artifact
    /\ index \in Seq(Artifact)
    /\ corruptAt \in 0..Len(index) + 1
    /\ ragged \in BOOLEAN
    /\ lock \subseteq Process
    /\ pc \in [Process -> Labels]
    /\ writing \in [Process -> Artifact \cup {NoArtifact}]
    /\ \A p \in Process : writing[p] = NoArtifact <=> pc[p] = "idle"
    /\ cutOff \subseteq Artifact

(* "existing files are NEVER overwritten": whatever processes race for one  *)
(* id, time out or die, no stored artifact is ever replaced or removed,     *)
(* although os.replace itself would replace it (write_artifact).            *)
NothingOverwritten == [][files \subseteq files']_storeVars

(* Files and index tell one story: every indexed artifact has its file, and *)
(* an artifact whose file exists is indexed unless its writer is still at   *)
(* work on it, or stopped (or had its line torn) at the append.             *)
OnlyCutOffIsHidden ==
    /\ \A i \in Lines : index[i] \in files
    /\ \A a \in files :
           \/ Indexed(a)
           \/ a \in cutOff
           \/ \E p \in lock : pc[p] = "published" /\ writing[p] = a

(* However many processes write, die and time out, the index behaves as     *)
(* one list that only grows and names no id twice.                          *)
Recorded == INSTANCE AppendOnlyIndex WITH recorded <- index
ImplementsAppendOnlyIndex == Recorded!Spec
==============================================================================
