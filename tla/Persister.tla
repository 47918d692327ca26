---- MODULE Persister ----
(***************************************************************************)
(* src/src/raftCore/Persister.cpp: two files behind one mutex, as          *)
(* operators on the state p of one Persister.  Raft persists its log and,  *)
(* with a snapshot, both; of the log only the length matters here, of a    *)
(* snapshot only how much of the archive is left.                          *)
(***************************************************************************)
EXTENDS Naturals

\* What a snapshot file or message can hold: a whole boost archive, its first word (what
\* operator>> reads of it), nothing.
SnapshotData == {"archive", "word", ""}

PersisterState ==
  [raftStateFile: Nat,      \* length of what is on disk
   raftStateBuffer: Nat,    \* length of what m_raftStateOutStream has not written yet
   snapshotFile: SnapshotData,
   m_raftStateSize: Nat]

\* The constructor truncates both files.
NewPersister ==
  [raftStateFile |-> 0, raftStateBuffer |-> 0, snapshotFile |-> "", m_raftStateSize |-> 0]

\* The files begin anew and the streams keep the data; Save sets the size back and leaves it.
Save(p, raftState, snapshot) ==
  [raftStateFile |-> 0, raftStateBuffer |-> raftState, snapshotFile |-> snapshot,
   m_raftStateSize |-> 0]

SaveRaftState(p, data) ==
  [p EXCEPT !.raftStateFile = 0, !.raftStateBuffer = data, !.m_raftStateSize = data]

RaftStateSize(p) == p.m_raftStateSize

\* The stream stays open, so what it has not written is not seen.
ReadRaftState(p) == p.raftStateFile

\* ifs >> snapshot stops at the first blank.
ReadSnapshot(p) == IF p.snapshotFile = "" THEN "" ELSE "word"

\* ReadSnapshot leaves the file truncated: the stream is opened again for writing.
AfterReadSnapshot(p) == [p EXCEPT !.snapshotFile = ""]

====
