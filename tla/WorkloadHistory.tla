-------------------------- MODULE WorkloadHistory --------------------------
(***************************************************************************)
(* The history file of the workload store: what a broker writes of the     *)
(* finished workloads, and what it gets back after a restart.              *)
(*                                                                         *)
(* One goroutine (Store.Run) flushes a dirty store to the primary file     *)
(* and, less often, checkpoints: it shifts the numbered backups and writes *)
(* a fresh primary.  Both take their snapshot under the store's lock and   *)
(* touch the disk after releasing it, so events keep arriving meanwhile.   *)
(* The broker may crash between any two file operations, and a write may   *)
(* fail.  A damaged file is read like a missing one: Load moves on to the  *)
(* next candidate.                                                         *)
(***************************************************************************)
EXTENDS WorkloadStore

CONSTANTS Rotations,   \* backups kept beside the primary
          HistoryCap,  \* newest terminal records kept
          MaxAge,      \* retention of a terminal record, in clock ticks
          MaxShifts,   \* bound on checkpoints begun since a write succeeded
          Missing      \* a file that does not exist or does not parse

ASSUME HistoryAssumption ==
  /\ Rotations \in Nat
  /\ HistoryCap \in Nat
  /\ MaxAge \in Nat
  /\ MaxShifts \in Nat

VARIABLES
  files,     \* files[0] is the primary, files[i] its i-th backup
  writer,    \* what Store.Run is doing
  shifts,    \* ghost: checkpoints begun since a write last succeeded
  written    \* ghost: what the last successful write held

diskVars == <<files, writer, shifts, written>>
vars == <<storeVars, diskVars>>

Entry == Key \X Event
Idle == [pc |-> "idle", infos |-> {}, at |-> 0]

\* Mutant: guesses are written to disk with the rest.
HistoryOfAllTerminals(rs) ==
  {<<k, EventOf(rs[k])>> : k \in {l \in Key : rs[l] # Absent /\ IsTerminal(rs[l].state)}}

\* Mutant: the store's bookkeeping is written with the payload.
HistoryOfRecords(rs) == {<<k, rs[k]>> : k \in {l \in Key : Historic(rs[l])}}

\* historyInfosLocked: only what the origin itself concluded is durable.
historyInfosLocked(rs) ==
  {<<k, EventOf(rs[k])>> : k \in {l \in Key : Historic(rs[l])}}

\* pruneLocked: first the records past their age, then the oldest beyond the
\* cap.  Records of equal age tie, and the sort may order them either way.
pruneLocked(rs) ==
  LET old  == {k \in Key : /\ rs[k] # Absent
                           /\ IsTerminal(rs[k].state)
                           /\ clock - rs[k].order > MaxAge}
      term == {k \in Key \ old : rs[k] # Absent /\ IsTerminal(rs[k].state)}
      over == IF Cardinality(term) <= HistoryCap THEN 0
              ELSE Cardinality(term) - HistoryCap
      cuts == {d \in SUBSET term :
                 /\ Cardinality(d) = over
                 /\ \A x \in d, y \in term \ d : rs[x].order <= rs[y].order}
  IN {[k \in Key |-> IF k \in old \cup d THEN Absent ELSE rs[k]] : d \in cuts}

\* Mutant: a missing primary is taken for a first run.
ReadPrimaryOnly == IF files[0] # Missing THEN files[0] ELSE {}

\* readWithFallback: the primary, else the newest backup that parses.
readWithFallback ==
  LET good == {i \in 0..Rotations : files[i] # Missing}
  IN IF good = {} THEN {}
     ELSE files[CHOOSE i \in good : \A j \in good : i <= j]

Init ==
  /\ StoreInit
  /\ files = [i \in 0..Rotations |-> Missing]
  /\ writer = Idle
  /\ shifts = 0
  /\ written = {}

StoreStep == StoreNext /\ UNCHANGED diskVars

\* Flush up to the unlock: prune, take the snapshot, clear dirty.
Flush ==
  /\ writer.pc = "idle"
  /\ dirty
  /\ \E rs \in pruneLocked(records) :
       /\ records' = rs
       /\ writer' = [pc |-> "flush", infos |-> historyInfosLocked(rs), at |-> 0]
  /\ dirty' = FALSE
  /\ UNCHANGED <<clock, lossPicks, stalePicks, concluded, heard>>
  /\ UNCHANGED <<files, shifts, written>>

\* writeSnapshotFile: a temporary file renamed over the primary.
WriteSnapshot ==
  /\ writer.pc \in {"flush", "checkpoint"}
  /\ files' = [files EXCEPT ![0] = writer.infos]
  /\ written' = writer.infos
  /\ shifts' = 0
  /\ writer' = Idle
  /\ UNCHANGED storeVars

\* Mutant: a failed flush is not retried.
FlushFailsSilently ==
  /\ writer.pc = "flush"
  /\ writer' = Idle
  /\ UNCHANGED <<storeVars, files, shifts, written>>

\* The rest of Flush when the write fails: dirty is set again.
FlushFails ==
  /\ writer.pc = "flush"
  /\ dirty' = TRUE
  /\ writer' = Idle
  /\ UNCHANGED <<records, clock, lossPicks, stalePicks, concluded, heard>>
  /\ UNCHANGED <<files, shifts, written>>

\* Checkpoint up to the unlock.  It does not ask whether the store is dirty.
Checkpoint ==
  /\ writer.pc = "idle"
  /\ shifts < MaxShifts
  /\ shifts' = shifts + 1
  /\ \E rs \in pruneLocked(records) :
       /\ records' = rs
       /\ writer' = [pc |-> "rotate", infos |-> historyInfosLocked(rs), at |-> Rotations]
  /\ dirty' = FALSE
  /\ UNCHANGED <<clock, lossPicks, stalePicks, concluded, heard>>
  /\ UNCHANGED <<files, written>>

\* rotate, one file operation at a time: drop the oldest backup, then shift
\* each file up by one, the primary last.  A rename of a missing file fails
\* and changes nothing.
Rotate ==
  /\ writer.pc = "rotate"
  /\ files' = CASE Rotations = 0 -> files
                [] writer.at = Rotations /\ Rotations # 0 ->
                     [files EXCEPT ![Rotations] = Missing]
                [] writer.at < Rotations /\ files[writer.at] # Missing ->
                     [files EXCEPT ![writer.at + 1] = files[writer.at],
                                   ![writer.at] = Missing]
                [] OTHER -> files
  /\ writer' = IF writer.at = 0 THEN [writer EXCEPT !.pc = "checkpoint"]
                                ELSE [writer EXCEPT !.at = @ - 1]
  /\ UNCHANGED <<storeVars, shifts, written>>

\* The rest of Checkpoint when its write fails: nothing is restored.
CheckpointFails ==
  /\ writer.pc = "checkpoint"
  /\ writer' = Idle
  /\ UNCHANGED <<storeVars, files, shifts, written>>

\* Load: the persisted terminals come back as authoritative records.
Loaded(infos) ==
  [k \in Key |->
     LET mine == {e \in infos : e[1] = k /\ IsTerminal(e[2].state)}
     IN IF mine = {} THEN Absent
        ELSE putLocked(Absent, (CHOOSE e \in mine : TRUE)[2], FALSE, clock)]

\* The broker dies and starts again: New, WithPersistence, Load.
Restart ==
  /\ \E rs \in pruneLocked(Loaded(readWithFallback)) : records' = rs
  /\ dirty' = FALSE
  /\ lossPicks' = {}
  /\ stalePicks' = {}
  /\ writer' = Idle
  /\ UNCHANGED <<clock, concluded, heard, files, shifts, written>>

Next ==
  \/ StoreStep
  \/ Flush \/ WriteSnapshot \/ FlushFails
  \/ Checkpoint \/ Rotate \/ CheckpointFails
  \/ Restart

Spec == Init /\ [][Next]_vars

-----------------------------------------------------------------------------
(* Properties.                                                             *)

\* The disk and the writer keep their types, beside the store's.
HistoryTypeOK ==
  /\ TypeOK
  /\ files \in [0..Rotations -> SUBSET Entry \cup {Missing}]
  /\ writer \in [pc : {"idle", "flush", "rotate", "checkpoint"},
                 infos : SUBSET Entry, at : 0..Rotations]
  /\ shifts \in Nat
  /\ written \in SUBSET Entry

\* Everything on disk was concluded by the workload's own origin.  A guess is
\* never written, so a restart, which reads entries back as authoritative,
\* never turns a guess into history.
DiskIsAsserted ==
  \A i \in 0..Rotations : files[i] # Missing =>
    \A e \in files[i] : /\ IsTerminal(e[2].state)
                        /\ <<e[1], e[2].state, e[2].createdAt>> \in concluded

\* Whatever the instant of a crash, also between the renames of a rotation,
\* a restart finds the last snapshot that was written, until more checkpoints
\* in a row were begun and not completed than there are backups.
LastWriteSurvives ==
  shifts <= Rotations => readWithFallback = written

\* A clean store has nothing left to write: when it is not dirty and no
\* snapshot is on its way, a restart would bring its history back, unless a
\* checkpoint lost its write (Flush restores dirty then, Checkpoint does not).
CleanMeansSaved ==
  (~dirty /\ writer.pc = "idle" /\ shifts = 0)
     => historyInfosLocked(records) \subseteq readWithFallback

=============================================================================
