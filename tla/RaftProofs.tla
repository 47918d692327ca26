---- MODULE RaftProofs ----
(***************************************************************************)
(* Proofs about Raft, for every number of servers and every bound.         *)
(*                                                                         *)
(* The types of the fields, the gap-free logs, the order of the cursors    *)
(* and the reach of the requests in flight only hold together: reading a   *)
(* term at an index stays inside the log because there is no gap, the      *)
(* commit index stays inside it because no request was longer than its     *)
(* sender's log, and so on.  IndInv is their conjunction.                  *)
(***************************************************************************)
EXTENDS Raft, SequenceTheorems, FiniteSetTheorems, NaturalsInduction, WellFoundedInduction, TLAPS

-----------------------------------------------------------------------------
(* Induction over the naturals, as the existence of a least counterexample. *)

\* Every non-empty set of naturals has a least element.
LEMMA LeastNatural ==
  ASSUME NEW S, S \subseteq Nat, S # {}
  PROVE  \E n \in S : \A m \in S : n <= m
<1>1. IsWellFoundedOn(OpToRel(<, Nat), Nat)
  BY NatLessThanWellFounded
<1>2. PICK n \in S : \A m \in S : <<m, n>> \notin OpToRel(<, Nat)
  BY <1>1, WFMin, Zenon
<1>3. ASSUME NEW m \in S PROVE n <= m
  <2>1. <<m, n>> \notin OpToRel(<, Nat)
    BY <1>2
  <2>2. ~(m < n)
    BY <2>1 DEF OpToRel
  <2> QED BY <2>2
<1> QED BY <1>2, <1>3

-----------------------------------------------------------------------------
(* The merge loop of AppendEntries1.                                       *)

\* A log without a gap, after a snapshot that ends at snap.
RunsFrom(snap, log) ==
  log \in Seq(LogEntry) /\ \A k \in DOMAIN log : log[k].logindex = snap + k

MergeState == [logs: Seq(LogEntry), differs: BOOLEAN, wild: BOOLEAN]

\* The commands of a log stay where they are when it becomes new, and any others in it are
\* among those of the entries.
CommandsStay(log, new, entries) ==
  \A k \in 1 .. Len(new) :
    IF k <= Len(log) THEN new[k].command = log[k].command
                     ELSE \E l \in DOMAIN entries : new[k].command = entries[l].command

\* One entry keeps the log gap-free and no shorter, and the log reaches the entry; the
\* commands that were there stay.
LEMMA MergeEntryShape ==
  ASSUME NEW snap \in Nat, NEW st \in MergeState, RunsFrom(snap, st.logs),
         NEW e \in LogEntry, snap < e.logindex, e.logindex <= snap + Len(st.logs) + 1
  PROVE  /\ MergeEntry(snap, st, e) \in MergeState
         /\ RunsFrom(snap, MergeEntry(snap, st, e).logs)
         /\ Len(st.logs) <= Len(MergeEntry(snap, st, e).logs)
         /\ e.logindex <= snap + Len(MergeEntry(snap, st, e).logs)
         /\ CommandsStay(st.logs, MergeEntry(snap, st, e).logs, <<e>>)
<1> DEFINE logs == st.logs
           last == IF logs = <<>> THEN snap ELSE logs[Len(logs)].logindex
           mine == logs[e.logindex - snap]
           hit  == mine.logterm + 1
<1>0. logs \in Seq(LogEntry) /\ Len(logs) \in Nat /\ DOMAIN logs = 1 .. Len(logs)
  BY DEF MergeState
<1>e. e.logindex \in Nat /\ e.logterm \in Nat
  BY DEF LogEntry
<1>1. last = snap + Len(logs)
  <2>1. CASE logs = <<>>
    BY <2>1, <1>0
  <2>2. CASE logs # <<>>
    <3>1. Len(logs) \in DOMAIN logs
      BY <2>2, <1>0
    <3> QED BY <3>1, <2>2 DEF RunsFrom
  <2> QED BY <2>1, <2>2
<1> HIDE DEF last
<1>2. CASE e.logindex > last
  <2>1. MergeEntry(snap, st, e) = [st EXCEPT !.logs = Append(logs, e)]
    BY <1>2 DEF MergeEntry, last
  <2>2. Append(logs, e) \in Seq(LogEntry) /\ Len(Append(logs, e)) = Len(logs) + 1
    BY <1>0
  <2>3. e.logindex = snap + Len(logs) + 1
    BY <1>e, <1>1, <1>2, <1>0
  <2>4. \A k \in 1 .. Len(logs) + 1 : Append(logs, e)[k].logindex = snap + k
    <3>1. \A k \in 1 .. Len(logs) : Append(logs, e)[k] = logs[k] /\ logs[k].logindex = snap + k
      BY <1>0 DEF RunsFrom
    <3>2. Append(logs, e)[Len(logs) + 1] = e
      BY <1>0
    <3>3. \A k \in 1 .. Len(logs) + 1 : k \in 1 .. Len(logs) \/ k = Len(logs) + 1
      BY <1>0
    <3> QED BY <3>1, <3>2, <3>3, <2>3, <1>0
  <2>5. RunsFrom(snap, Append(logs, e))
    BY <2>2, <2>4 DEF RunsFrom
  <2>6. CommandsStay(logs, Append(logs, e), <<e>>)
    <3> DEFINE new == Append(logs, e)
    <3>1. \A k \in 1 .. Len(logs) : new[k] = logs[k]
      BY <1>0
    <3>2. new[Len(logs) + 1] = e /\ Len(new) = Len(logs) + 1
      BY <1>0
    <3> HIDE DEF new
    <3>3. ASSUME NEW k \in 1 .. Len(new)
          PROVE  IF k <= Len(logs) THEN new[k].command = logs[k].command
                 ELSE \E l \in DOMAIN <<e>> : new[k].command = <<e>>[l].command
      <4>1. CASE k <= Len(logs)
        BY <4>1, <3>1, <1>0
      <4>2. CASE ~(k <= Len(logs))
        <5>1. new[k] = e
          BY <4>2, <3>2, <1>0
        <5>2. 1 \in DOMAIN <<e>> /\ <<e>>[1] = e
          OBVIOUS
        <5> QED BY <4>2, <5>1, <5>2
      <4> QED BY <4>1, <4>2
    <3>4. CommandsStay(logs, new, <<e>>)
      BY <3>3, Zenon DEF CommandsStay
    <3> QED BY <3>4 DEF new
  <2>7. MergeEntry(snap, st, e) \in MergeState /\ MergeEntry(snap, st, e).logs = Append(logs, e)
    BY <2>1, <2>2 DEF MergeState
  <2>8. Len(logs) <= Len(logs) + 1 /\ e.logindex <= snap + (Len(logs) + 1)
    BY <2>3, <1>0
  <2> QED BY <2>2, <2>5, <2>6, <2>7, <2>8, Zenon
<1>3. CASE ~(e.logindex > last)
  <2> DEFINE new == IF hit <= Len(logs) THEN [logs EXCEPT ![hit].logterm = e.logterm] ELSE logs
  <2>1. e.logindex - snap \in DOMAIN logs
    BY <1>0, <1>1, <1>3, <1>e
  <2>2. mine \in LogEntry
    BY <2>1, <1>0
  <2>7. hit \in Nat /\ hit >= 1
    <3> HIDE DEF mine
    <3> QED BY <2>2 DEF LogEntry
  <2>3. /\ new \in Seq(LogEntry) /\ Len(new) = Len(logs) /\ RunsFrom(snap, new)
        /\ \A k \in 1 .. Len(logs) : new[k].command = logs[k].command
    <3>1. CASE hit <= Len(logs)
      <4> DEFINE stored == [logs[hit] EXCEPT !.logterm = e.logterm]
      <4>1. hit \in 1 .. Len(logs)
        BY <3>1, <2>7, <1>0
      <4>2. logs[hit] \in LogEntry
        BY <4>1, <1>0
      <4>3. /\ stored \in LogEntry /\ stored.logindex = logs[hit].logindex
            /\ stored.command = logs[hit].command
        BY <4>2, <1>e DEF LogEntry
      <4>4. new = [logs EXCEPT ![hit] = stored]
        BY <3>1
      <4> HIDE DEF new, stored, hit
      <4>5. /\ new \in Seq(LogEntry) /\ Len(new) = Len(logs)
            /\ \A k \in 1 .. Len(logs) : new[k] = IF k = hit THEN stored ELSE logs[k]
        BY <4>1, <4>3, <4>4, <1>0, ExceptSeq
      <4>6. \A k \in 1 .. Len(logs) : /\ new[k].logindex = logs[k].logindex
                                      /\ new[k].command = logs[k].command
        BY <4>3, <4>5
      <4>7. \A k \in 1 .. Len(logs) : logs[k].logindex = snap + k
        BY <1>0 DEF RunsFrom
      <4>8. DOMAIN new = 1 .. Len(logs)
        BY <4>5
      <4>9. RunsFrom(snap, new)
        BY <4>5, <4>6, <4>7, <4>8 DEF RunsFrom
      <4> QED BY <4>5, <4>6, <4>9
    <3>2. CASE ~(hit <= Len(logs))
      BY <3>2, <1>0
    <3> QED BY <3>1, <3>2
  <2> DEFINE differs == st.differs \/ (mine.logterm = e.logterm /\ mine.command # e.command)
             wild == st.wild \/ hit > Len(logs)
  <2>4. MergeEntry(snap, st, e) = [logs |-> new, differs |-> differs, wild |-> wild]
    BY <1>3, Zenon DEF MergeEntry, last
  <2>5. differs \in BOOLEAN /\ wild \in BOOLEAN
    BY DEF MergeState
  <2>6. e.logindex <= snap + Len(logs)
    BY <1>1, <1>3, <1>0, <1>e
  <2>8. CommandsStay(logs, new, <<e>>)
    <3> HIDE DEF new
    <3> QED BY <2>3, <1>0 DEF CommandsStay
  <2> HIDE DEF new, differs, wild
  <2> QED BY <2>3, <2>4, <2>5, <2>6, <2>8, <1>0 DEF MergeState
<1> QED BY <1>2, <1>3

\* The function in MergeEntries, on the first n entries: the states after each of them.
IsMerge(g, snap, logs, entries, n) ==
  g = [k \in 0 .. n |-> IF k = 0 THEN [logs |-> logs, differs |-> FALSE, wild |-> FALSE]
                                 ELSE MergeEntry(snap, g[k - 1], entries[k])]

\* There is one: were there a shortest list of entries without it, the function for all but
\* the last of them would extend to it.
LEMMA MergeRecursion ==
  ASSUME NEW snap, NEW logs, NEW entries, NEW n \in Nat
  PROVE  \E g : IsMerge(g, snap, logs, entries, n)
<1> DEFINE start == [logs |-> logs, differs |-> FALSE, wild |-> FALSE]
           Step(st, k) == MergeEntry(snap, st, entries[k])
           Solves(g, m) == g = [k \in 0 .. m |-> IF k = 0 THEN start ELSE Step(g[k - 1], k)]
           Bad == {m \in Nat : ~ \E g : Solves(g, m)}
<1> HIDE DEF start, Step
<1>1. ASSUME Bad # {} PROVE FALSE
  <2>1. PICK m \in Bad : \A l \in Bad : m <= l
    <3> HIDE DEF Bad
    <3>1. Bad \subseteq Nat
      BY DEF Bad
    <3> QED BY <3>1, <1>1, LeastNatural
  <2>2. CASE m = 0
    <3>1. Solves([k \in 0 .. 0 |-> start], 0)
      OBVIOUS
    <3> QED BY <3>1, <2>1, <2>2
  <2>3. CASE m # 0
    <3>1. m \in Nat /\ m - 1 \in Nat
      BY <2>1, <2>3
    <3>2. m - 1 \notin Bad
      <4> HIDE DEF Bad
      <4> QED BY <2>1, <3>1
    <3>3. PICK g : Solves(g, m - 1)
      BY <3>1, <3>2
    <3> DEFINE h == [k \in 0 .. m |-> IF k = m THEN Step(g[m - 1], m) ELSE g[k]]
    <3>4. ASSUME NEW k \in 0 .. m
          PROVE  h[k] = IF k = 0 THEN start ELSE Step(h[k - 1], k)
      <4>1. CASE k = m
        BY <4>1, <3>1, <2>3
      <4>2. CASE k # m
        <5>1. k \in 0 .. m - 1
          BY <4>2, <3>1
        <5>2. g[k] = IF k = 0 THEN start ELSE Step(g[k - 1], k)
          BY <5>1, <3>3
        <5> QED BY <5>1, <5>2, <3>1
      <4> QED BY <4>1, <4>2
    <3>5. Solves(h, m)
      BY <3>4, Zenon
    <3> QED BY <3>5, <2>1
  <2> QED BY <2>2, <2>3
<1>2. \E g : Solves(g, n)
  BY <1>1
<1> QED BY <1>2 DEF start, Step, IsMerge

\* Entries that continue a gap-free log somewhere within it, merged one by one.
LEMMA MergeEntriesShape ==
  ASSUME NEW snap \in Nat, NEW logs, RunsFrom(snap, logs),
         NEW prev \in Nat, snap <= prev, prev <= snap + Len(logs),
         NEW entries, RunsFrom(prev, entries)
  PROVE  LET new == MergeEntries(snap, logs, entries).logs
         IN /\ RunsFrom(snap, new)
            /\ Len(logs) <= Len(new)
            /\ prev + Len(entries) <= snap + Len(new)
            /\ CommandsStay(logs, new, entries)
<1> DEFINE n == Len(entries)
           start == [logs |-> logs, differs |-> FALSE, wild |-> FALSE]
           merged == CHOOSE g : IsMerge(g, snap, logs, entries, n)
<1>1. n \in Nat /\ \A k \in 1 .. n : entries[k] \in LogEntry /\ entries[k].logindex = prev + k
  BY DEF RunsFrom
<1>2. MergeEntries(snap, logs, entries) = merged[n]
  BY DEF MergeEntries, IsMerge
<1>3. merged = [k \in 0 .. n |-> IF k = 0 THEN start
                                 ELSE MergeEntry(snap, merged[k - 1], entries[k])]
  <2>1. IsMerge(merged, snap, logs, entries, n)
    <3> HIDE DEF n
    <3>1. \E g : IsMerge(g, snap, logs, entries, n)
      BY <1>1, MergeRecursion
    <3> QED BY <3>1, Zenon
  <2> HIDE DEF merged
  <2> QED BY <2>1 DEF IsMerge
<1> HIDE DEF n, merged
<1> DEFINE Shape(k) == /\ merged[k] \in MergeState
                       /\ RunsFrom(snap, merged[k].logs)
                       /\ Len(logs) <= Len(merged[k].logs)
                       /\ prev + k <= snap + Len(merged[k].logs)
                       /\ CommandsStay(logs, merged[k].logs, entries)
           Bad == {k \in 0 .. n : ~Shape(k)}
<1>4. ASSUME Bad # {} PROVE FALSE
  <2>1. PICK k \in Bad : \A l \in Bad : k <= l
    <3>1. Bad \subseteq Nat
      BY <1>1
    <3> HIDE DEF Bad
    <3> QED BY <3>1, <1>4, LeastNatural
  <2>2. CASE k = 0
    <3>1. merged[0] = start
      BY <1>1, <1>3
    <3>2. start \in MergeState /\ start.logs = logs
      BY DEF MergeState, RunsFrom
    <3>3. Shape(0)
      <4> HIDE DEF start
      <4>1. Len(logs) \in Nat
        BY DEF RunsFrom
      <4>2. CommandsStay(logs, logs, entries)
        BY <4>1 DEF CommandsStay
      <4> QED BY <3>1, <3>2, <4>1, <4>2
    <3> QED BY <3>3, <2>1, <2>2
  <2>3. CASE k # 0
    <3>1. k \in 1 .. n /\ k - 1 \in 0 .. n
      BY <1>1, <2>1, <2>3
    <3>2. k - 1 \notin Bad
      <4> HIDE DEF Bad
      <4> QED BY <2>1, <3>1, <1>1
    <3>3. Shape(k - 1)
      <4> HIDE DEF Shape
      <4> QED BY <3>1, <3>2
    <3>4. merged[k] = MergeEntry(snap, merged[k - 1], entries[k])
      <4> HIDE DEF start
      <4> QED BY <3>1, <1>1, <1>3, SMTT(20)
    <3> DEFINE st == merged[k - 1]
    <3>5. Len(st.logs) \in Nat /\ Len(logs) \in Nat
      <4>1. RunsFrom(snap, st.logs)
        BY <3>3
      <4> HIDE DEF st
      <4> QED BY <4>1 DEF RunsFrom
    <3>6. /\ entries[k] \in LogEntry
          /\ entries[k].logindex = prev + k
          /\ snap < entries[k].logindex
          /\ entries[k].logindex <= snap + Len(st.logs) + 1
      BY <3>1, <3>3, <3>5, <1>1
    <3>7. /\ MergeEntry(snap, st, entries[k]) \in MergeState
          /\ RunsFrom(snap, MergeEntry(snap, st, entries[k]).logs)
          /\ Len(st.logs) <= Len(MergeEntry(snap, st, entries[k]).logs)
          /\ entries[k].logindex <= snap + Len(MergeEntry(snap, st, entries[k]).logs)
          /\ CommandsStay(st.logs, MergeEntry(snap, st, entries[k]).logs, <<entries[k]>>)
      <4> HIDE DEF st
      <4> QED BY <3>3, <3>6, MergeEntryShape DEF st
    <3>8. Len(merged[k].logs) \in Nat
      BY <3>4, <3>7 DEF RunsFrom
    <3>9. CommandsStay(logs, merged[k].logs, entries)
      <4> DEFINE old == st.logs
                 new == merged[k].logs
      <4>1. CommandsStay(logs, old, entries) /\ CommandsStay(old, new, <<entries[k]>>)
        BY <3>3, <3>4, <3>7
      <4>2. /\ Len(logs) \in Nat /\ Len(old) \in Nat /\ Len(new) \in Nat
            /\ Len(logs) <= Len(old) /\ k \in DOMAIN entries
        BY <3>1, <3>3, <3>5, <3>8 DEF RunsFrom, n
      <4> HIDE DEF old, new, st
      <4>3. ASSUME NEW p \in 1 .. Len(new)
            PROVE  IF p <= Len(logs) THEN new[p].command = logs[p].command
                   ELSE \E l \in DOMAIN entries : new[p].command = entries[l].command
        <5>1. CASE p <= Len(old)
          <6>1. p \in 1 .. Len(old) /\ new[p].command = old[p].command
            BY <5>1, <4>1, <4>2 DEF CommandsStay
          <6> QED BY <6>1, <4>1 DEF CommandsStay
        <5>2. CASE ~(p <= Len(old))
          <6>1. PICK l \in DOMAIN <<entries[k]>> : new[p].command = <<entries[k]>>[l].command
            BY <5>2, <4>1 DEF CommandsStay
          <6>2. new[p].command = entries[k].command
            BY <6>1
          <6> QED BY <5>2, <6>2, <4>2
        <5> QED BY <5>1, <5>2
      <4> QED BY <4>3 DEF CommandsStay, new
    <3>10. Shape(k)
      BY <3>3, <3>4, <3>5, <3>6, <3>7, <3>8, <3>9
    <3> QED BY <3>10, <2>1
  <2> QED BY <2>2, <2>3
<1>5. Shape(n)
  <2> HIDE DEF Shape
  <2> QED BY <1>1, <1>4
<1> QED BY <1>2, <1>5 DEF n

-----------------------------------------------------------------------------
(* The inductive invariant.                                                *)

LogShape == LogContiguous /\ CursorOrder /\ SentWithinLog

IndInv == TypeOK /\ LogShape

\* What NothingGoesBack asks of a step.
GoesOn ==
  \A i \in Server : Up(i) /\ Up(i)' =>
    /\ LastLogIndex(i)' >= LastLogIndex(i)
    /\ m_commitIndex'[i] >= m_commitIndex[i]
    /\ m_lastApplied'[i] >= m_lastApplied[i]
    /\ m_lastSnapshotIncludeIndex'[i] >= m_lastSnapshotIncludeIndex[i]

\* A suffix of a gap-free log is gap-free.
LEMMA SuffixRunsOn ==
  ASSUME NEW snap \in Nat, NEW log, RunsFrom(snap, log), NEW slot \in 1 .. Len(log) + 1
  PROVE  /\ RunsFrom(snap + slot - 1, SubSeq(log, slot, Len(log)))
         /\ Len(SubSeq(log, slot, Len(log))) = Len(log) - slot + 1
<1> DEFINE suffix == SubSeq(log, slot, Len(log))
<1>1. log \in Seq(LogEntry) /\ Len(log) \in Nat /\ slot \in Nat /\ slot >= 1
  BY DEF RunsFrom
<1>2. /\ suffix \in Seq(LogEntry) /\ Len(suffix) = Len(log) - slot + 1
      /\ \A k \in 1 .. Len(suffix) : suffix[k] = log[slot + k - 1]
  BY <1>1, SubSeqProperties
<1>3. \A k \in DOMAIN suffix : suffix[k].logindex = snap + slot - 1 + k
  <2> HIDE DEF suffix
  <2>1. ASSUME NEW k \in DOMAIN suffix PROVE suffix[k].logindex = snap + slot - 1 + k
    <3>1. k \in 1 .. Len(suffix) /\ slot + k - 1 \in 1 .. Len(log)
      BY <1>1, <1>2
    <3>2. log[slot + k - 1].logindex = snap + (slot + k - 1)
      BY <3>1, <1>1 DEF RunsFrom
    <3>3. suffix[k] = log[slot + k - 1]
      BY <3>1, <1>2
    <3>4. snap + (slot + k - 1) = snap + slot - 1 + k
      BY <3>1, <1>1
    <3> QED BY <3>2, <3>3, <3>4
  <2> QED BY <2>1
<1> QED BY <1>2, <1>3 DEF RunsFrom

\* What the accessors of a log return, in a state of the invariant.
LEMMA LogAccess ==
  ASSUME TypeOK, LogContiguous, NEW i \in Server
  PROVE  LET snap == m_lastSnapshotIncludeIndex[i] IN
         /\ snap \in Nat /\ RunsFrom(snap, m_logs[i]) /\ Len(m_logs[i]) \in Nat
         /\ LastLogIndex(i) = snap + Len(m_logs[i])
         /\ LastLogIndex(i) \in Nat /\ LastLogTerm(i) \in Nat
         /\ \A index \in snap .. LastLogIndex(i) : LogTerm(i, index) \in Nat
<1> DEFINE snap == m_lastSnapshotIncludeIndex[i]
           log == m_logs[i]
<1>1. /\ snap \in Nat /\ log \in Seq(LogEntry) /\ Len(log) \in Nat
      /\ m_lastSnapshotIncludeTerm[i] \in Nat
  BY DEF TypeOK
<1>2. RunsFrom(snap, log)
  BY <1>1 DEF RunsFrom, LogContiguous
<1>3. \A k \in 1 .. Len(log) : log[k] \in LogEntry /\ log[k].logterm \in Nat
  <2>1. ASSUME NEW k \in 1 .. Len(log) PROVE log[k] \in LogEntry
    BY <1>1
  <2>2. \A e \in LogEntry : e.logterm \in Nat
    BY DEF LogEntry
  <2> QED BY <2>1, <2>2
<1>4. log # <<>> => Len(log) \in 1 .. Len(log)
  BY <1>1
<1>5. LastLogIndex(i) = snap + Len(log)
  BY <1>1, <1>2, <1>4 DEF LastLogIndex, RunsFrom
<1>6. LastLogTerm(i) \in Nat
  BY <1>1, <1>3, <1>4 DEF LastLogTerm
<1>7. ASSUME NEW index \in snap .. LastLogIndex(i) PROVE LogTerm(i, index) \in Nat
  <2>1. index # snap => index - snap \in 1 .. Len(log)
    BY <1>1, <1>5
  <2> QED BY <2>1, <1>1, <1>3 DEF LogTerm, Slot
<1> QED BY <1>1, <1>2, <1>5, <1>6, <1>7

\* Steps that touch no log and no cursor and send no append request.
LEMMA LogShapeKept ==
  ASSUME IndInv, UNCHANGED <<logVars, indexVars>>, AppendsInFlight' \subseteq AppendsInFlight
  PROVE  LogShape' /\ GoesOn
<1> USE DEF IndInv
<1>1. LogContiguous'
  BY DEF LogShape, LogContiguous, logVars
<1>2. \A i : LastLogIndex(i)' = LastLogIndex(i)
  BY DEF LastLogIndex, logVars
<1>3. CursorOrder'
  BY <1>2 DEF LogShape, CursorOrder, logVars, indexVars
<1>4. SentWithinLog'
  BY <1>2 DEF LogShape, SentWithinLog, LastSent
<1>5. GoesOn
  <2>1. \A i \in Server : LastLogIndex(i) \in Nat
    BY LogAccess DEF LogShape
  <2> QED BY <2>1, <1>2 DEF GoesOn, TypeOK, logVars, indexVars
<1> QED BY <1>1, <1>3, <1>4, <1>5 DEF LogShape

\* A cluster that has just started satisfies the invariant.
LEMMA InitIndInv == Init => IndInv
<1> SUFFICES ASSUME Init PROVE IndInv
  OBVIOUS
<1>1. TypeOK
  <2>1. /\ m_logs \in [Server -> Seq(LogEntry)]
        /\ applyMsgs \in [Server -> Seq(ApplyMsg)] /\ applyChan \in [Server -> Seq(ApplyMsg)]
        /\ votedNum \in Seq(SUBSET Server) /\ appendNums \in Seq(SUBSET Server)
    BY DEF Init
  <2>2. astray \in [Method -> Nat]
    BY DEF Init
  <2> QED BY <2>1, <2>2 DEF Init, TypeOK, Process, Status
<1>2. AppendsInFlight = {}
  BY DEF Init, AppendsInFlight
<1>3. \A i \in Server : LastLogIndex(i) = 0
  BY DEF Init, LastLogIndex
<1>4. LogShape
  BY <1>2, <1>3 DEF Init, LogShape, LogContiguous, CursorOrder, SentWithinLog
<1> QED BY <1>1, <1>4 DEF IndInv

-----------------------------------------------------------------------------
(* Types that several actions establish in the same way.                   *)

\* One element of a sequence replaced, or none if there is none at that position: how
\* the per-round counters are updated.
LEMMA UpdateSeq ==
  ASSUME NEW S, NEW s \in Seq(S), NEW n, NEW e, n \in DOMAIN s => e \in S
  PROVE  [s EXCEPT ![n] = e] \in Seq(S)
<1>1. DOMAIN s = 1 .. Len(s)
  OBVIOUS
<1>2. CASE n \in DOMAIN s
  BY <1>1, <1>2, ExceptSeq
<1>3. CASE n \notin DOMAIN s
  <2>1. [s EXCEPT ![n] = e] = s
    BY <1>1, <1>3
  <2> QED BY <2>1
<1> QED BY <1>2, <1>3

\* The types of a vote request in flight.
LEMMA VoteCallTypes ==
  ASSUME TypeOK, NEW m \in rvCalls
  PROVE  /\ m \in RequestVoteArgs
         /\ m.server \in Server /\ m.candidateid \in Server /\ m.term \in Nat /\ m.round \in Nat
<1>1. m \in RequestVoteArgs
  BY DEF TypeOK
<1> QED BY <1>1 DEF RequestVoteArgs

\* The types of a reply to a vote request.
LEMMA VoteReplyTypes ==
  ASSUME TypeOK, NEW r \in rvReplies
  PROVE  /\ r.args \in RequestVoteArgs /\ r.term \in Nat /\ r.votegranted \in BOOLEAN
         /\ r.args.candidateid \in Server /\ r.args.server \in Server /\ r.args.round \in Nat
<1>1. r.args \in RequestVoteArgs /\ r.term \in Nat /\ r.votegranted \in BOOLEAN
  BY DEF TypeOK, RequestVoteReply
<1>2. \A m \in RequestVoteArgs : m.candidateid \in Server /\ m.server \in Server /\ m.round \in Nat
  BY DEF RequestVoteArgs
<1> QED BY <1>1, <1>2

\* A handler of RequestVote leaves well-typed calls and replies in flight.
LEMMA AnswerVoteTypes ==
  ASSUME TypeOK, NEW m \in rvCalls, NEW term \in Nat, NEW vote \in BOOLEAN,
         AnswerVote(m, term, vote)
  PROVE  rvCalls' \subseteq RequestVoteArgs /\ rvReplies' \subseteq RequestVoteReply
<1>1. [args |-> m, term |-> term, votegranted |-> vote, received |-> FALSE] \in RequestVoteReply
  BY VoteCallTypes DEF RequestVoteReply
<1> QED BY <1>1 DEF AnswerVote, TypeOK

\* A step of the voting protocol touches no log, and no append request.
LEMMA ElectionStepKeepsLogs ==
  ASSUME IndInv, ElectionStep
  PROVE  LogShape' /\ GoesOn
<1>1. UNCHANGED <<logVars, indexVars, aeVars>>
  BY DEF ElectionStep, DoElection, RequestVoteExpired, RequestVote, AnswerVote, TakeVoteReply,
         SendRequestVoteHigherTerm, SendRequestVoteIgnored, SendRequestVoteCounted, VoteCounts,
         SendRequestVoteWon
<1>2. AppendsInFlight' = AppendsInFlight
  BY <1>1 DEF AppendsInFlight, aeVars
<1> QED BY <1>1, <1>2, LogShapeKept DEF IndInv

\* A step of the voting protocol keeps every field in its type.
LEMMA ElectionStepKeepsTypes ==
  ASSUME IndInv, ElectionStep
  PROVE  TypeOK'
<1> USE DEF IndInv, LogShape, Status
<1>1. ASSUME NEW i \in Server, DoElection(i) PROVE TypeOK'
  <2>1. /\ LastLogIndex(i) \in Nat /\ LastLogTerm(i) \in Nat /\ m_currentTerm[i] + 1 \in Nat
        /\ Len(votedNum) + 1 \in Nat
    <3>1. LastLogIndex(i) \in Nat /\ LastLogTerm(i) \in Nat
      BY LogAccess
    <3>2. m_currentTerm[i] + 1 \in Nat /\ Len(votedNum) + 1 \in Nat
      BY DEF TypeOK
    <3> QED BY <3>1, <3>2
  <2>2. votedNum' \in Seq(SUBSET Server)
    BY <1>1 DEF DoElection, TypeOK
  <2>3. \A j \in Peers(i) : VoteRequest(i, j) \in RequestVoteArgs
    BY <2>1 DEF VoteRequest, RequestVoteArgs, Peers
  <2>4. rvCalls' \subseteq RequestVoteArgs /\ rvWaits' \subseteq RequestVoteArgs
    <3>1. rvCalls \subseteq RequestVoteArgs /\ rvWaits \subseteq RequestVoteArgs
      BY DEF TypeOK
    <3>2. /\ rvCalls' = rvCalls \cup {VoteRequest(i, j) : j \in Peers(i)}
          /\ rvWaits' = rvWaits \cup {VoteRequest(i, j) : j \in Peers(i)}
      BY <1>1 DEF DoElection
    <3> QED BY <2>3, <3>1, <3>2
  <2>5. granted' \subseteq Nat \X Server \X Server
    <3>1. granted \subseteq Nat \X Server \X Server
      BY DEF TypeOK
    <3>2. granted' = granted \cup {<<m_currentTerm[i] + 1, i, i>>}
      BY <1>1 DEF DoElection
    <3>3. <<m_currentTerm[i] + 1, i, i>> \in Nat \X Server \X Server
      BY <2>1
    <3> QED BY <3>1, <3>2, <3>3
  <2> QED BY <1>1, <2>2, <2>4, <2>5 DEF DoElection, TypeOK, logVars, indexVars, leaderVars,
             applyVars, aeVars, isVars, boundVars
<1>2. ASSUME NEW m \in rvCalls, RequestVoteExpired(m) PROVE TypeOK'
  <2>1. m_currentTerm[m.server] \in Nat
    BY VoteCallTypes DEF TypeOK
  <2>2. rvCalls' \subseteq RequestVoteArgs /\ rvReplies' \subseteq RequestVoteReply
    BY <1>2, <2>1, AnswerVoteTypes DEF RequestVoteExpired
  <2> QED BY <1>2, <2>2 DEF RequestVoteExpired, AnswerVote, TypeOK, termVars, logVars,
             indexVars, leaderVars, applyVars, aeVars, isVars, boundVars
<1>3. ASSUME NEW m \in rvCalls, RequestVote(m) PROVE TypeOK'
  <2>1. m.server \in Server /\ m.candidateid \in Server /\ m.term \in Nat
    BY VoteCallTypes
  <2>2. MayVote(m) \in BOOLEAN /\ VoteInTerm(m) \in Server \cup {Nil}
    BY <2>1 DEF MayVote, UpToDate, VoteInTerm, TypeOK
  <2>3. rvCalls' \subseteq RequestVoteArgs /\ rvReplies' \subseteq RequestVoteReply
    BY <1>3, <2>1, <2>2, AnswerVoteTypes DEF RequestVote
  <2>4. granted' \subseteq Nat \X Server \X Server
    <3>1. <<m.term, m.server, m.candidateid>> \in Nat \X Server \X Server
      BY <2>1
    <3> QED BY <1>3, <3>1 DEF RequestVote, TypeOK
  <2>5. /\ m_currentTerm' \in [Server -> Nat] /\ m_status' \in [Server -> Status]
        /\ m_votedFor' \in [Server -> Server \cup {Nil}]
    BY <1>3, <2>1, <2>2 DEF RequestVote, TypeOK
  <2> QED BY <1>3, <2>3, <2>4, <2>5 DEF RequestVote, AnswerVote, TypeOK, logVars,
             indexVars, leaderVars, applyVars, aeVars, isVars, boundVars
<1>4. ASSUME NEW r \in rvReplies, SendRequestVoteHigherTerm(r) PROVE TypeOK'
  <2>1. r.args.candidateid \in Server /\ r.term \in Nat
    BY VoteReplyTypes
  <2> QED BY <1>4, <2>1 DEF SendRequestVoteHigherTerm, TakeVoteReply, FollowTerm, TypeOK,
             logVars, indexVars, leaderVars, applyVars, aeVars, isVars, boundVars
<1>5. ASSUME NEW r \in rvReplies, SendRequestVoteIgnored(r) PROVE TypeOK'
  BY <1>5 DEF SendRequestVoteIgnored, TakeVoteReply, TypeOK, termVars,
             logVars, indexVars, leaderVars, applyVars, aeVars, isVars, boundVars
<1>6. ASSUME NEW r \in rvReplies, SendRequestVoteCounted(r) PROVE TypeOK'
  <2>1. r.args.round \in DOMAIN votedNum => VotesWith(r) \in SUBSET Server
    <3>1. r.args.server \in Server
      BY VoteReplyTypes
    <3>2. r.args.round \in DOMAIN votedNum => votedNum[r.args.round] \in SUBSET Server
      BY DEF TypeOK
    <3> QED BY <3>1, <3>2 DEF VotesWith
  <2>2. votedNum' \in Seq(SUBSET Server)
    <3>1. votedNum \in Seq(SUBSET Server)
      BY DEF TypeOK
    <3>2. [votedNum EXCEPT ![r.args.round] = VotesWith(r)] \in Seq(SUBSET Server)
      BY <2>1, <3>1, UpdateSeq
    <3> QED BY <1>6, <3>2 DEF SendRequestVoteCounted
  <2> QED BY <1>6, <2>2 DEF SendRequestVoteCounted, VoteCounts, TakeVoteReply, TypeOK, termVars,
             logVars, indexVars, leaderVars, applyVars, aeVars, isVars, boundVars
<1>7. ASSUME NEW r \in rvReplies, SendRequestVoteWon(r) PROVE TypeOK'
  <2> DEFINE i == r.args.candidateid
  <2>1. i \in Server
    BY VoteReplyTypes
  <2> HIDE DEF i
  <2>2. LastLogIndex(i) + 1 \in Nat /\ m_currentTerm[i] \in Nat
    <3>1. LastLogIndex(i) \in Nat
      BY <2>1, LogAccess
    <3>2. m_currentTerm[i] \in Nat
      BY <2>1 DEF TypeOK
    <3> QED BY <3>1, <3>2
  <2>3. votedNum' \in Seq(SUBSET Server)
    <3>1. votedNum \in Seq(SUBSET Server) /\ {} \in SUBSET Server
      BY DEF TypeOK
    <3>2. [votedNum EXCEPT ![r.args.round] = {}] \in Seq(SUBSET Server)
      BY <3>1, UpdateSeq
    <3> QED BY <1>7, <3>2 DEF SendRequestVoteWon
  <2>4. /\ m_nextIndex' \in [Server -> [Server -> Nat]]
        /\ m_matchIndex' \in [Server -> [Server -> Nat]]
    BY <1>7, <2>1, <2>2 DEF SendRequestVoteWon, TypeOK, i
  <2>5. /\ m_status' \in [Server -> Status]
        /\ process' \in [Server -> Process]
    BY <1>7, <2>1 DEF SendRequestVoteWon, TypeOK, Process, i
  <2>6. elected' \subseteq Nat \X Server
    <3>1. <<m_currentTerm[i], i>> \in Nat \X Server
      BY <2>1, <2>2
    <3> QED BY <1>7, <3>1 DEF SendRequestVoteWon, TypeOK, i
  <2> QED BY <1>7, <2>3, <2>4, <2>5, <2>6 DEF SendRequestVoteWon, VoteCounts, TakeVoteReply,
             TypeOK, logVars, indexVars, applyVars, aeVars, isVars, boundVars
<1> QED BY <1>1, <1>2, <1>3, <1>4, <1>5, <1>6, <1>7 DEF ElectionStep

-----------------------------------------------------------------------------
(* Steps that change one server's log or cursors.                          *)

\* An append request in flight has the types of its fields, answered or not.
LEMMA AppendArgsTypes ==
  ASSUME TypeOK, NEW m \in AppendsInFlight
  PROVE  /\ m \in AppendEntriesArgs
         /\ m.server \in Server /\ m.leaderid \in Server /\ m.round \in Nat /\ m.term \in Nat
         /\ m.prevlogindex \in Nat /\ m.prevlogterm \in Nat /\ m.leadercommit \in Nat
         /\ m.entries \in Seq(LogEntry) /\ Len(m.entries) \in Nat
<1>1. m \in AppendEntriesArgs
  <2>1. aeCalls \subseteq AppendEntriesArgs
    BY DEF TypeOK
  <2>2. \A r \in aeReplies : r.args \in AppendEntriesArgs
    BY DEF TypeOK, AppendEntriesReply
  <2>3. aeWaits \subseteq AppendEntriesArgs
    BY DEF TypeOK
  <2> QED BY <2>1, <2>2, <2>3 DEF AppendsInFlight
<1>2. /\ m.server \in Server /\ m.leaderid \in Server /\ m.round \in Nat /\ m.term \in Nat
      /\ m.prevlogindex \in Nat /\ m.prevlogterm \in Nat /\ m.leadercommit \in Nat
      /\ m.entries \in Seq(LogEntry)
  BY <1>1, Zenon DEF AppendEntriesArgs
<1> QED BY <1>1, <1>2

\* The log of j is replaced by one that reaches at least as far, its snapshot and its
\* cursors move in order, and no append request is sent.
LEMMA LogShapeUpdate ==
  ASSUME IndInv, NEW j \in Server,
         NEW log, NEW snap \in Nat, NEW applied \in Nat, NEW commit \in Nat,
         m_logs' = [m_logs EXCEPT ![j] = log],
         m_lastSnapshotIncludeIndex' = [m_lastSnapshotIncludeIndex EXCEPT ![j] = snap],
         m_lastApplied' = [m_lastApplied EXCEPT ![j] = applied],
         m_commitIndex' = [m_commitIndex EXCEPT ![j] = commit],
         RunsFrom(snap, log), LastLogIndex(j) <= snap + Len(log),
         snap <= applied, applied <= commit, commit <= snap + Len(log),
         m_lastSnapshotIncludeIndex[j] <= snap, m_lastApplied[j] <= applied,
         m_commitIndex[j] <= commit,
         AppendsInFlight' \subseteq AppendsInFlight
  PROVE  LogShape' /\ GoesOn
<1> USE DEF IndInv, LogShape
<1>1. /\ \A i \in Server : i # j =>
            /\ m_logs'[i] = m_logs[i]
            /\ m_lastSnapshotIncludeIndex'[i] = m_lastSnapshotIncludeIndex[i]
            /\ m_lastApplied'[i] = m_lastApplied[i] /\ m_commitIndex'[i] = m_commitIndex[i]
      /\ m_logs'[j] = log /\ m_lastSnapshotIncludeIndex'[j] = snap
      /\ m_lastApplied'[j] = applied /\ m_commitIndex'[j] = commit
  BY DEF TypeOK
<1>2. log \in Seq(LogEntry) /\ Len(log) \in Nat
      /\ \A k \in DOMAIN log : log[k].logindex = snap + k
  BY DEF RunsFrom
<1>3. LastLogIndex(j)' = snap + Len(log)
  <2>1. log # <<>> => Len(log) \in DOMAIN log
    BY <1>2
  <2>2. LastLogIndex(j)' = IF log = <<>> THEN snap ELSE log[Len(log)].logindex
    BY <1>1 DEF LastLogIndex
  <2>3. CASE log = <<>>
    BY <2>2, <2>3, <1>2
  <2>4. CASE log # <<>>
    BY <2>1, <2>2, <2>4, <1>2
  <2> QED BY <2>3, <2>4
<1>4. ASSUME NEW i \in Server, i # j
      PROVE  LastLogIndex(i)' = IF m_logs'[i] = <<>> THEN m_lastSnapshotIncludeIndex'[i]
                                ELSE m_logs'[i][Len(m_logs'[i])].logindex
  BY DEF LastLogIndex
<1>5. \A i \in Server : i # j => LastLogIndex(i)' = LastLogIndex(i)
  BY <1>1, <1>4 DEF LastLogIndex
<1>6. LogContiguous'
  <2>1. \A i \in Server : \A k \in DOMAIN m_logs'[i] :
          m_logs'[i][k].logindex = m_lastSnapshotIncludeIndex'[i] + k
    BY <1>1, <1>2 DEF LogContiguous
  <2>2. \A m \in AppendsInFlight' : \A k \in DOMAIN m.entries :
          m.entries[k].logindex = m.prevlogindex + k
    BY DEF LogContiguous
  <2> QED BY <2>1, <2>2 DEF LogContiguous
<1>7. CursorOrder'
  BY <1>1, <1>3, <1>5 DEF CursorOrder
<1>8. SentWithinLog'
  <2>1. ASSUME NEW m \in AppendsInFlight' PROVE LastSent(m) <= LastLogIndex(m.leaderid)'
    <3>1. LastSent(m) <= LastLogIndex(m.leaderid) /\ LastSent(m) \in Int /\ m.leaderid \in Server
      <4>1. m.prevlogindex \in Nat /\ Len(m.entries) \in Nat /\ m.leaderid \in Server
        BY AppendArgsTypes
      <4> QED BY <4>1 DEF SentWithinLog, LastSent
    <3>2. CASE m.leaderid = j
      <4>1. LastLogIndex(j) \in Nat
        BY LogAccess
      <4> QED BY <3>1, <3>2, <4>1, <1>2, <1>3
    <3>3. CASE m.leaderid # j
      BY <3>1, <3>3, <1>5
    <3> QED BY <3>2, <3>3
  <2>2. \A m : LastSent(m)' = LastSent(m)
    BY DEF LastSent
  <2> QED BY <2>1, <2>2 DEF SentWithinLog
<1>9. GoesOn
  <2>1. \A i \in Server : LastLogIndex(i) \in Nat
    BY LogAccess
  <2>2. ASSUME NEW i \in Server
        PROVE  /\ LastLogIndex(i)' >= LastLogIndex(i)
               /\ m_commitIndex'[i] >= m_commitIndex[i]
               /\ m_lastApplied'[i] >= m_lastApplied[i]
               /\ m_lastSnapshotIncludeIndex'[i] >= m_lastSnapshotIncludeIndex[i]
    <3>1. CASE i = j
      BY <3>1, <1>1, <1>3
    <3>2. CASE i # j
      <4>1. /\ LastLogIndex(i)' = LastLogIndex(i) /\ m_commitIndex'[i] = m_commitIndex[i]
            /\ m_lastApplied'[i] = m_lastApplied[i]
            /\ m_lastSnapshotIncludeIndex'[i] = m_lastSnapshotIncludeIndex[i]
        BY <3>2, <1>1, <1>5
      <4>2. /\ m_commitIndex[i] \in Nat /\ m_lastApplied[i] \in Nat
            /\ m_lastSnapshotIncludeIndex[i] \in Nat
        BY DEF TypeOK
      <4> QED BY <4>1, <4>2, <2>1
    <3> QED BY <3>1, <3>2
  <2> QED BY <2>2 DEF GoesOn
<1> QED BY <1>6, <1>7, <1>8, <1>9

-----------------------------------------------------------------------------
(* Append requests.                                                        *)

\* What an append request in flight looks like, answered or not.
LEMMA AppendCallTypes ==
  ASSUME IndInv, NEW m \in AppendsInFlight
  PROVE  /\ m \in AppendEntriesArgs
         /\ m.server \in Server /\ m.leaderid \in Server /\ m.round \in Nat /\ m.term \in Nat
         /\ m.prevlogindex \in Nat /\ m.prevlogterm \in Nat /\ m.leadercommit \in Nat
         /\ RunsFrom(m.prevlogindex, m.entries) /\ Len(m.entries) \in Nat
         /\ LastSent(m) \in Nat /\ LastSent(m) <= LastLogIndex(m.leaderid)
<1>1. /\ m \in AppendEntriesArgs
      /\ m.server \in Server /\ m.leaderid \in Server /\ m.round \in Nat /\ m.term \in Nat
      /\ m.prevlogindex \in Nat /\ m.prevlogterm \in Nat /\ m.leadercommit \in Nat
      /\ m.entries \in Seq(LogEntry) /\ Len(m.entries) \in Nat
  BY AppendArgsTypes DEF IndInv
<1>2. RunsFrom(m.prevlogindex, m.entries)
  BY <1>1 DEF IndInv, LogShape, LogContiguous, RunsFrom
<1>3. LastSent(m) \in Nat /\ LastSent(m) <= LastLogIndex(m.leaderid)
  BY <1>1 DEF IndInv, LogShape, SentWithinLog, LastSent
<1> QED BY <1>1, <1>2, <1>3

\* The types of a reply to an append request.
LEMMA AppendReplyTypes ==
  ASSUME IndInv, NEW r \in aeReplies
  PROVE  /\ r.args \in AppendsInFlight
         /\ r.term \in Nat /\ r.success \in BOOLEAN
         /\ r.updatenextindex \in Nat \cup {NoNextIndex}
BY DEF IndInv, TypeOK, AppendsInFlight, AppendEntriesReply

\* The request doHeartBeat builds for j: well typed, gap-free, and ending where the log ends.
LEMMA AppendToShape ==
  ASSUME IndInv, NEW i \in Server, NEW j \in Server, CanAppend(i, j), ~NeedsSnapshot(i, j)
  PROVE  /\ AppendTo(i, j) \in AppendEntriesArgs
         /\ AppendTo(i, j).leaderid = i
         /\ RunsFrom(AppendTo(i, j).prevlogindex, AppendTo(i, j).entries)
         /\ LastSent(AppendTo(i, j)) <= LastLogIndex(i)
<1> DEFINE snap == m_lastSnapshotIncludeIndex[i]
           log == m_logs[i]
           prev == m_nextIndex[i][j] - 1
           slot == Slot(i, prev) + 1
<1>1. /\ snap \in Nat /\ RunsFrom(snap, log) /\ Len(log) \in Nat
      /\ LastLogIndex(i) = snap + Len(log)
      /\ \A index \in snap .. LastLogIndex(i) : LogTerm(i, index) \in Nat
  BY LogAccess DEF IndInv, LogShape
<1>2. m_nextIndex[i][j] \in Nat
  BY DEF IndInv, TypeOK
<1>3. prev \in snap .. LastLogIndex(i) /\ prev \in Nat
  BY <1>1, <1>2 DEF CanAppend, NeedsSnapshot
<1>4. slot \in 1 .. Len(log) + 1 /\ snap + slot - 1 = prev
  BY <1>1, <1>3 DEF Slot
<1>5. EntriesFrom(i, slot) = SubSeq(log, slot, Len(log))
  BY DEF EntriesFrom
<1>6. RunsFrom(prev, EntriesFrom(i, slot)) /\ Len(EntriesFrom(i, slot)) = Len(log) - slot + 1
  <2> HIDE DEF slot, prev
  <2> QED BY <1>1, <1>4, <1>5, SuffixRunsOn
<1>7. LogTerm(i, prev) \in Nat
  <2> HIDE DEF prev
  <2> QED BY <1>1, <1>3
<1>8. m_currentTerm[i] \in Nat /\ m_commitIndex[i] \in Nat /\ Len(appendNums) + 1 \in Nat
  BY DEF IndInv, TypeOK
<1>9. AppendTo(i, j) =
        [round |-> Len(appendNums) + 1, server |-> j, term |-> m_currentTerm[i], leaderid |-> i,
         prevlogindex |-> prev, prevlogterm |-> LogTerm(i, prev),
         entries |-> EntriesFrom(i, slot), leadercommit |-> m_commitIndex[i]]
  BY DEF AppendTo
<1> HIDE DEF prev, slot, snap, log
<1>10. AppendTo(i, j) \in AppendEntriesArgs
  <2>1. EntriesFrom(i, slot) \in Seq(LogEntry)
    BY <1>6 DEF RunsFrom
  <2> QED BY <2>1, <1>3, <1>7, <1>8, <1>9 DEF AppendEntriesArgs
<1>11. /\ AppendTo(i, j).leaderid = i /\ AppendTo(i, j).prevlogindex = prev
       /\ AppendTo(i, j).entries = EntriesFrom(i, slot)
  BY <1>9
<1>12. LastSent(AppendTo(i, j)) <= LastLogIndex(i)
  BY <1>1, <1>3, <1>4, <1>6, <1>11 DEF LastSent
<1> QED BY <1>6, <1>10, <1>11, <1>12

\* The requests of a heartbeat, to any set of peers whose nextIndex is within the log, keep
\* the invariant.
LEMMA SpawnAppendsKeeps ==
  ASSUME IndInv, NEW i \in Server, NEW to, to \subseteq Server, \A j \in to : CanAppend(i, j),
         SpawnAppends(i, to), process' \in [Server -> Process]
  PROVE  IndInv' /\ GoesOn
<1> DEFINE sent == {AppendTo(i, j) : j \in {k \in to : ~NeedsSnapshot(i, k)}}
           spawned == {[round |-> Len(appendNums) + 1, server |-> j, leaderid |-> i]
                       : j \in {k \in to : NeedsSnapshot(i, k)}}
<1>1. /\ aeCalls' = aeCalls \cup sent /\ aeWaits' = aeWaits \cup sent
      /\ isThreads' = isThreads \cup spawned
      /\ aeReplies' = aeReplies /\ appendNums' = Append(appendNums, {i})
      /\ UNCHANGED <<termVars, logVars, indexVars, leaderVars, applyVars, rvVars,
                     isCalls, isReplies, isWaits, boundVars, historyVars>>
  BY DEF SpawnAppends
<1>2. \A m \in sent : /\ m \in AppendEntriesArgs /\ m.leaderid = i
                      /\ RunsFrom(m.prevlogindex, m.entries)
                      /\ LastSent(m) <= LastLogIndex(m.leaderid)
  BY AppendToShape
<1>3. spawned \subseteq SnapshotThread
  <2>1. Len(appendNums) + 1 \in Nat
    BY DEF IndInv, TypeOK
  <2> QED BY <2>1 DEF SnapshotThread
<1>4. appendNums' \in Seq(SUBSET Server)
  <2>1. appendNums \in Seq(SUBSET Server) /\ {i} \in SUBSET Server
    BY DEF IndInv, TypeOK
  <2> QED BY <1>1, <2>1, AppendProperties
<1> HIDE DEF sent, spawned
<1>5. TypeOK'
  <2>1. aeCalls' \subseteq AppendEntriesArgs /\ aeWaits' \subseteq AppendEntriesArgs
    BY <1>1, <1>2 DEF IndInv, TypeOK
  <2>2. isThreads' \subseteq SnapshotThread
    BY <1>1, <1>3 DEF IndInv, TypeOK
  <2> QED BY <1>1, <1>4, <2>1, <2>2 DEF IndInv, TypeOK, termVars, logVars, indexVars, leaderVars,
             applyVars, rvVars, boundVars, historyVars
<1>6. AppendsInFlight' = AppendsInFlight \cup sent
  BY <1>1 DEF AppendsInFlight
<1>7. LogContiguous'
  <2>1. \A m \in sent : \A k \in DOMAIN m.entries : m.entries[k].logindex = m.prevlogindex + k
    BY <1>2 DEF RunsFrom
  <2> QED BY <1>1, <1>6, <2>1 DEF IndInv, LogShape, LogContiguous, logVars
<1>8. \A k : LastLogIndex(k)' = LastLogIndex(k)
  BY <1>1 DEF LastLogIndex, logVars
<1>9. CursorOrder'
  BY <1>1, <1>8 DEF IndInv, LogShape, CursorOrder, logVars, indexVars
<1>10. SentWithinLog'
  BY <1>2, <1>6, <1>8 DEF IndInv, LogShape, SentWithinLog, LastSent
<1>11. GoesOn
  <2>1. \A k \in Server : LastLogIndex(k) \in Nat
    BY LogAccess DEF IndInv, LogShape
  <2>2. \A k \in Server : /\ m_commitIndex[k] \in Nat /\ m_lastApplied[k] \in Nat
                          /\ m_lastSnapshotIncludeIndex[k] \in Nat
    BY DEF IndInv, TypeOK
  <2>3. /\ m_commitIndex' = m_commitIndex /\ m_lastApplied' = m_lastApplied
        /\ m_lastSnapshotIncludeIndex' = m_lastSnapshotIncludeIndex
    BY <1>1 DEF logVars, indexVars
  <2> QED BY <2>1, <2>2, <2>3, <1>8 DEF GoesOn
<1> QED BY <1>5, <1>7, <1>9, <1>10, <1>11 DEF IndInv, LogShape

\* A handler of AppendEntries that assigns values of the right types, and answers, keeps
\* the types and the set of requests in flight.
LEMMA AnswerAppendKeeps ==
  ASSUME IndInv, NEW m \in aeCalls, NEW term \in Nat, NEW success \in BOOLEAN,
         NEW next \in Nat \cup {NoNextIndex}, AnswerAppend(m, term, success, next),
         m_currentTerm' \in [Server -> Nat], m_status' \in [Server -> Status],
         m_votedFor' \in [Server -> Server \cup {Nil}],
         m_logs' \in [Server -> Seq(LogEntry)], m_commitIndex' \in [Server -> Nat]
  PROVE  TypeOK' /\ AppendsInFlight' = AppendsInFlight
<1> DEFINE reply == [args |-> m, term |-> term, success |-> success, updatenextindex |-> next,
                    received |-> FALSE]
<1>1. m \in AppendEntriesArgs
  BY DEF IndInv, TypeOK
<1>2. reply \in AppendEntriesReply /\ reply.args = m
  BY <1>1 DEF AppendEntriesReply
<1>3. aeCalls' = aeCalls \ {m} /\ aeReplies' = aeReplies \cup {reply} /\ aeWaits' = aeWaits
  BY DEF AnswerAppend
<1> HIDE DEF reply
<1>4. AppendsInFlight' = AppendsInFlight
  BY <1>2, <1>3 DEF AppendsInFlight
<1>5. aeCalls' \subseteq AppendEntriesArgs /\ aeReplies' \subseteq AppendEntriesReply
  BY <1>2, <1>3 DEF IndInv, TypeOK
<1>6. TypeOK'
  BY <1>5 DEF AnswerAppend, IndInv, TypeOK, leaderVars, applyVars, rvVars, isVars, boundVars,
              historyVars
<1> QED BY <1>4, <1>6

\* Stepping down for an incoming term keeps the types.
LEMMA FollowTermTypes ==
  ASSUME TypeOK, NEW i \in Server, NEW term \in Nat, FollowTerm(i, term)
  PROVE  /\ m_currentTerm' \in [Server -> Nat] /\ m_status' \in [Server -> Status]
         /\ m_votedFor' \in [Server -> Server \cup {Nil}]
BY DEF FollowTerm, TypeOK, Status

\* An append request that is refused changes the term at most.
LEMMA AppendRefusedKeeps ==
  ASSUME IndInv, NEW m \in aeCalls,
         \/ AppendEntriesStale(m) \/ AppendEntriesAhead(m)
         \/ AppendEntriesBeforeSnapshot(m) \/ AppendEntriesMismatch(m)
  PROVE  IndInv' /\ GoesOn
<1> DEFINE j == m.server
<1>1. m \in AppendsInFlight /\ TypeOK /\ LogContiguous
  BY DEF AppendsInFlight, IndInv, LogShape
<1>2. j \in Server /\ m.term \in Nat /\ m.prevlogindex \in Nat
  BY <1>1, AppendCallTypes
<1> HIDE DEF j
<1>3. /\ m_currentTerm[j] \in Nat /\ m_lastSnapshotIncludeIndex[j] \in Nat
      /\ m_currentTerm \in [Server -> Nat] /\ m_status \in [Server -> Status]
      /\ m_votedFor \in [Server -> Server \cup {Nil}]
      /\ m_logs \in [Server -> Seq(LogEntry)] /\ m_commitIndex \in [Server -> Nat]
  BY <1>1, <1>2 DEF TypeOK
<1>4. LastLogTerm(j) \in Nat
  BY <1>1, <1>2, LogAccess
<1>5. UNCHANGED <<m_logs, m_commitIndex>>
  BY DEF AppendEntriesStale, AppendEntriesAhead, AppendEntriesBeforeSnapshot,
         AppendEntriesMismatch
<1>6. TypeOK' /\ AppendsInFlight' = AppendsInFlight
  <2>1. CASE AppendEntriesStale(m)
    <3>1. AnswerAppend(m, m_currentTerm[j], FALSE, NoNextIndex) /\ UNCHANGED termVars
      BY <2>1 DEF AppendEntriesStale, j
    <3> QED BY <3>1, <1>3, <1>5, AnswerAppendKeeps DEF termVars
  <2>2. CASE HearLeader(m)
    <3>1. /\ m_currentTerm' \in [Server -> Nat] /\ m_status' \in [Server -> Status]
          /\ m_votedFor' \in [Server -> Server \cup {Nil}]
      BY <2>2, <1>1, <1>2, FollowTermTypes DEF HearLeader, j
    <3>2. CASE AppendEntriesStale(m)
      BY <2>1, <3>2
    <3>3. ASSUME NEW next \in Nat, AnswerAppend(m, m.term, FALSE, next)
          PROVE  TypeOK' /\ AppendsInFlight' = AppendsInFlight
      BY <3>1, <3>3, <1>2, <1>3, <1>5, AnswerAppendKeeps
    <3>4. CASE AppendEntriesAhead(m)
      <4>1. AnswerAppend(m, m.term, FALSE, AheadHint(m.server))
        BY <3>4, Zenon DEF AppendEntriesAhead
      <4>2. AheadHint(m.server) \in Nat
        BY <1>4 DEF AheadHint, j
      <4> QED BY <4>1, <4>2, <3>3
    <3>5. CASE AppendEntriesBeforeSnapshot(m)
      <4>1. AnswerAppend(m, m.term, FALSE, m_lastSnapshotIncludeIndex[m.server] + 1)
        BY <3>5, Zenon DEF AppendEntriesBeforeSnapshot
      <4>2. m_lastSnapshotIncludeIndex[m.server] + 1 \in Nat
        BY <1>3 DEF j
      <4> QED BY <4>1, <4>2, <3>3
    <3>6. CASE AppendEntriesMismatch(m)
      <4>1. \E next \in 0 .. m.prevlogindex : AnswerAppend(m, m.term, FALSE, next)
        BY <3>6, Zenon DEF AppendEntriesMismatch
      <4>2. \A next \in 0 .. m.prevlogindex : next \in Nat
        BY <1>2
      <4> QED BY <4>1, <4>2, <3>3, Zenon
    <3> QED BY <3>2, <3>4, <3>5, <3>6
  <2> QED BY <2>1, <2>2 DEF AppendEntriesAhead, AppendEntriesBeforeSnapshot,
                            AppendEntriesMismatch
<1>7. UNCHANGED <<logVars, indexVars>>
  BY <1>5 DEF AppendEntriesStale, AppendEntriesAhead, AppendEntriesBeforeSnapshot,
         AppendEntriesMismatch, AnswerAppend, logVars, indexVars
<1> QED BY <1>6, <1>7, LogShapeKept DEF IndInv

\* A follower that merges the entries keeps its log gap-free, no shorter, and ahead of the
\* commit index it takes over.
LEMMA AppendMatchKeeps ==
  ASSUME IndInv, NEW m \in aeCalls, AppendEntriesMatch(m)
  PROVE  IndInv' /\ GoesOn
<1> DEFINE j == m.server
           snap == m_lastSnapshotIncludeIndex[j]
           log == m_logs[j]
           new == Merged(m).logs
           last == IF new = <<>> THEN snap ELSE new[Len(new)].logindex
           commit == IF m.leadercommit > m_commitIndex[j] THEN Smaller(m.leadercommit, last)
                                                          ELSE m_commitIndex[j]
<1>1. m \in AppendsInFlight /\ TypeOK /\ LogContiguous /\ CursorOrder
  BY DEF AppendsInFlight, IndInv, LogShape
<1>2. /\ j \in Server /\ m.term \in Nat /\ m.prevlogindex \in Nat /\ m.leadercommit \in Nat
      /\ RunsFrom(m.prevlogindex, m.entries)
  BY <1>1, AppendCallTypes
<1>3. /\ snap \in Nat /\ RunsFrom(snap, log) /\ Len(log) \in Nat
      /\ LastLogIndex(j) = snap + Len(log)
  BY <1>1, <1>2, LogAccess
<1>4. /\ Matches(m) /\ AnswerAppend(m, m.term, TRUE, 0)
      /\ m_logs' = [m_logs EXCEPT ![j] = new]
      /\ m_commitIndex' = [m_commitIndex EXCEPT ![j] = commit]
  BY DEF AppendEntriesMatch
<1>5. RunsFrom(snap, new) /\ Len(log) <= Len(new)
  <2>1. snap <= m.prevlogindex /\ m.prevlogindex <= snap + Len(log)
    BY <1>3, <1>4 DEF Matches, InLog
  <2>2. new = MergeEntries(snap, log, m.entries).logs
    BY DEF Merged
  <2> HIDE DEF snap, log, new, j
  <2> QED BY <2>1, <2>2, <1>2, <1>3, MergeEntriesShape
<1>6. new \in Seq(LogEntry) /\ Len(new) \in Nat /\ last = snap + Len(new)
  <2> HIDE DEF new, snap
  <2>1. new \in Seq(LogEntry) /\ Len(new) \in Nat
    BY <1>5 DEF RunsFrom
  <2>2. new # <<>> => Len(new) \in DOMAIN new
    BY <2>1
  <2> QED BY <2>1, <2>2, <1>3, <1>5 DEF RunsFrom
<1>7. /\ m_commitIndex[j] \in Nat /\ m_lastApplied[j] \in Nat
      /\ snap <= m_lastApplied[j] /\ m_lastApplied[j] <= m_commitIndex[j]
      /\ m_commitIndex[j] <= snap + Len(log) /\ m_lastSnapshotIncludeIndex[j] <= snap
  BY <1>1, <1>2, <1>3 DEF TypeOK, CursorOrder
<1> HIDE DEF last, new, snap, log, j
<1>8. /\ commit \in Nat /\ m_lastApplied[j] <= commit /\ commit <= snap + Len(new)
      /\ m_commitIndex[j] <= commit /\ m_lastApplied[j] <= m_lastApplied[j]
  BY <1>2, <1>3, <1>5, <1>6, <1>7 DEF Smaller
<1> HIDE DEF commit
<1>9. m_logs' \in [Server -> Seq(LogEntry)] /\ m_commitIndex' \in [Server -> Nat]
  BY <1>1, <1>2, <1>4, <1>6, <1>8 DEF TypeOK
<1>10. TypeOK' /\ AppendsInFlight' = AppendsInFlight
  <2>1. /\ m_currentTerm' \in [Server -> Nat] /\ m_status' \in [Server -> Status]
        /\ m_votedFor' \in [Server -> Server \cup {Nil}]
    BY <1>1, <1>2, <1>4, FollowTermTypes DEF Matches, HearLeader, j
  <2> QED BY <2>1, <1>2, <1>4, <1>9, AnswerAppendKeeps
<1>11. /\ m_lastSnapshotIncludeIndex' = [m_lastSnapshotIncludeIndex EXCEPT ![j] = snap]
       /\ m_lastApplied' = [m_lastApplied EXCEPT ![j] = m_lastApplied[j]]
  BY <1>1, <1>4 DEF AnswerAppend, TypeOK, snap
<1>12. LastLogIndex(j) <= snap + Len(new)
  BY <1>3, <1>5, <1>6
<1>13. LogShape' /\ GoesOn
  BY <1>2, <1>3, <1>4, <1>5, <1>7, <1>8, <1>10, <1>11, <1>12, LogShapeUpdate
<1> QED BY <1>10, <1>13 DEF IndInv

\* A handler that ends its process takes the call with it, and leaves the log as it was.
LEMMA DieInAppendKeeps ==
  ASSUME IndInv, NEW m \in aeCalls, AppendEntriesWild(m) \/ AppendEntriesDiffers(m)
  PROVE  IndInv' /\ GoesOn
<1>1. PICK assertion \in Process : DieInAppend(m, assertion)
  BY DEF AppendEntriesWild, AppendEntriesDiffers, Process
<1>2. HearLeader(m)
  BY DEF AppendEntriesWild, AppendEntriesDiffers, Matches
<1>3. m \in AppendsInFlight /\ TypeOK
  BY DEF AppendsInFlight, IndInv
<1>4. m.server \in Server /\ m.term \in Nat
  BY <1>3, AppendCallTypes
<1>5. /\ m_currentTerm' \in [Server -> Nat] /\ m_status' \in [Server -> Status]
      /\ m_votedFor' \in [Server -> Server \cup {Nil}]
  BY <1>2, <1>3, <1>4, FollowTermTypes DEF HearLeader
<1>6. process' \in [Server -> Process]
  BY <1>1, <1>3, <1>4 DEF DieInAppend, ExitProcess, TypeOK
<1>7. TypeOK'
  BY <1>1, <1>3, <1>5, <1>6 DEF DieInAppend, TypeOK, logVars, indexVars, leaderVars, applyVars,
     rvVars, isVars, boundVars, historyVars
<1>8. AppendsInFlight' \subseteq AppendsInFlight
  BY <1>1 DEF DieInAppend, AppendsInFlight
<1> QED BY <1>1, <1>7, <1>8, LogShapeKept DEF DieInAppend, IndInv

\* The continuations of sendAppendEntries that change no log and no commit index.
LEMMA AppendReplyKeeps ==
  ASSUME IndInv, NEW r \in aeReplies,
         \/ SendAppendEntriesHigherTerm(r) \/ SendAppendEntriesIgnored(r)
         \/ SendAppendEntriesRefused(r)
  PROVE  IndInv' /\ GoesOn
<1>1. /\ r.args \in AppendsInFlight /\ r.term \in Nat /\ r.success \in BOOLEAN
      /\ r.updatenextindex \in Nat \cup {NoNextIndex}
  BY AppendReplyTypes
<1>2. r.args.leaderid \in Server /\ r.args.server \in Server /\ r.args.term \in Nat
  BY <1>1, AppendCallTypes
<1>3. /\ aeReplies' = aeReplies \ {r} /\ aeWaits' = aeWaits \ {r.args}
      /\ m_commitIndex' = m_commitIndex /\ appendNums' = appendNums
      /\ UNCHANGED <<process, logVars, m_lastApplied, applyVars, rvVars, aeCalls, isVars,
                     boundVars, granted, elected, astray>>
  BY DEF SendAppendEntriesHigherTerm, SendAppendEntriesIgnored, SendAppendEntriesRefused,
         LeaderTakes, TakeAppendReply
<1>4. /\ m_currentTerm' \in [Server -> Nat] /\ m_status' \in [Server -> Status]
      /\ m_votedFor' \in [Server -> Server \cup {Nil}]
  <2>1. CASE UNCHANGED termVars
    BY <2>1 DEF IndInv, TypeOK, termVars
  <2>2. CASE SendAppendEntriesHigherTerm(r)
    BY <2>2, <1>2 DEF SendAppendEntriesHigherTerm, IndInv, TypeOK, Status
  <2> QED BY <2>1, <2>2 DEF SendAppendEntriesIgnored, SendAppendEntriesRefused, LeaderTakes
<1>5. /\ m_nextIndex' \in [Server -> [Server -> Nat]]
      /\ m_matchIndex' \in [Server -> [Server -> Nat]]
  <2>1. CASE UNCHANGED leaderVars
    BY <2>1 DEF IndInv, TypeOK, leaderVars
  <2>2. CASE SendAppendEntriesRefused(r)
    BY <2>2, <1>1, <1>2 DEF SendAppendEntriesRefused, IndInv, TypeOK
  <2> QED BY <2>1, <2>2 DEF SendAppendEntriesHigherTerm, SendAppendEntriesIgnored
<1>6. forgot' \subseteq Server
  BY <1>2 DEF SendAppendEntriesHigherTerm, SendAppendEntriesIgnored, SendAppendEntriesRefused,
     LeaderTakes, IndInv, TypeOK
<1>7. TypeOK'
  BY <1>3, <1>4, <1>5, <1>6 DEF IndInv, TypeOK, logVars, applyVars, rvVars, isVars, boundVars
<1>8. AppendsInFlight' \subseteq AppendsInFlight
  BY <1>3 DEF AppendsInFlight
<1> QED BY <1>3, <1>7, <1>8, LogShapeKept DEF IndInv, indexVars

\* A leader that takes an acknowledgement commits no further than what the request carried,
\* which is still in its log.
LEMMA AppendAcceptedKeeps ==
  ASSUME IndInv, NEW r \in aeReplies, SendAppendEntriesAccepted(r)
  PROVE  IndInv' /\ GoesOn
<1> DEFINE i == r.args.leaderid
           j == r.args.server
           match == Larger(m_matchIndex[i][j], LastSent(r.args))
           snap == m_lastSnapshotIncludeIndex[i]
           acked == IF IsMajority(Acked(r)) THEN {} ELSE Acked(r)
<1>1. TypeOK /\ LogContiguous /\ CursorOrder /\ r.args \in AppendsInFlight
  BY AppendReplyTypes DEF IndInv, LogShape
<1>2. /\ i \in Server /\ j \in Server /\ r.args.round \in Nat
      /\ LastSent(r.args) \in Nat /\ LastSent(r.args) <= LastLogIndex(i)
  BY <1>1, AppendCallTypes
<1>3. /\ aeReplies' = aeReplies \ {r} /\ aeWaits' = aeWaits \ {r.args}
      /\ m_matchIndex' = [m_matchIndex EXCEPT ![i][j] = match]
      /\ m_nextIndex' = [m_nextIndex EXCEPT ![i][j] = match + 1]
      /\ appendNums' = [appendNums EXCEPT ![r.args.round] = acked]
      /\ m_commitIndex' = [m_commitIndex EXCEPT ![i] = CommitAfter(r)]
      /\ UNCHANGED <<process, termVars, logVars, m_lastApplied, applyVars, rvVars, aeCalls,
                     isVars, boundVars, historyVars>>
  BY DEF SendAppendEntriesAccepted, LeaderTakes, TakeAppendReply, historyVars
<1>4. /\ snap \in Nat /\ RunsFrom(snap, m_logs[i]) /\ Len(m_logs[i]) \in Nat
      /\ LastLogIndex(i) = snap + Len(m_logs[i])
  BY <1>1, <1>2, LogAccess
<1>5. /\ m_commitIndex[i] \in Nat /\ m_lastApplied[i] \in Nat /\ m_matchIndex[i][j] \in Nat
      /\ snap <= m_lastApplied[i] /\ m_lastApplied[i] <= m_commitIndex[i]
      /\ m_commitIndex[i] <= LastLogIndex(i)
  BY <1>1, <1>2 DEF TypeOK, CursorOrder
<1>s. m_lastSnapshotIncludeIndex[i] <= snap
  BY <1>4
<1> HIDE DEF snap, i, j
<1>6. /\ CommitAfter(r) \in Nat /\ m_commitIndex[i] <= CommitAfter(r)
      /\ CommitAfter(r) <= LastLogIndex(i)
  <2>1. /\ Larger(m_commitIndex[i], LastSent(r.args)) \in Nat
        /\ m_commitIndex[i] <= Larger(m_commitIndex[i], LastSent(r.args))
        /\ Larger(m_commitIndex[i], LastSent(r.args)) <= LastLogIndex(i)
    BY <1>2, <1>5 DEF Larger
  <2>2. \/ CommitAfter(r) = Larger(m_commitIndex[i], LastSent(r.args))
        \/ CommitAfter(r) = m_commitIndex[i]
    BY DEF CommitAfter, i
  <2> QED BY <2>1, <2>2, <1>5
<1>7. match \in Nat /\ match + 1 \in Nat
  BY <1>2, <1>5 DEF Larger
<1>8. appendNums' \in Seq(SUBSET Server)
  <2>1. appendNums \in Seq(SUBSET Server)
    BY <1>1 DEF TypeOK
  <2>2. r.args.round \in DOMAIN appendNums => acked \in SUBSET Server
    BY <2>1, <1>2 DEF Acked, j
  <2> HIDE DEF acked
  <2> QED BY <2>1, <2>2, <1>3, UpdateSeq
<1> HIDE DEF match, acked
<1>9. m_commitIndex' \in [Server -> Nat]
  BY <1>1, <1>3, <1>6 DEF TypeOK
<1>10. /\ m_nextIndex' \in [Server -> [Server -> Nat]]
       /\ m_matchIndex' \in [Server -> [Server -> Nat]]
  BY <1>1, <1>3, <1>7 DEF TypeOK
<1>11. TypeOK'
  BY <1>1, <1>3, <1>8, <1>9, <1>10 DEF TypeOK, termVars, logVars, applyVars, rvVars, isVars,
     boundVars, historyVars
<1>12. /\ m_logs' = [m_logs EXCEPT ![i] = m_logs[i]]
       /\ m_lastSnapshotIncludeIndex' = [m_lastSnapshotIncludeIndex EXCEPT ![i] = snap]
       /\ m_lastApplied' = [m_lastApplied EXCEPT ![i] = m_lastApplied[i]]
  BY <1>1, <1>3 DEF TypeOK, logVars, snap
<1>13. AppendsInFlight' \subseteq AppendsInFlight
  BY <1>3 DEF AppendsInFlight
<1>14. LogShape' /\ GoesOn
  <2>1. /\ m_lastApplied[i] <= CommitAfter(r) /\ CommitAfter(r) <= snap + Len(m_logs[i])
        /\ LastLogIndex(i) <= snap + Len(m_logs[i]) /\ m_lastApplied[i] <= m_lastApplied[i]
    BY <1>4, <1>5, <1>6
  <2>2. m_commitIndex' = [m_commitIndex EXCEPT ![i] = CommitAfter(r)] /\ i \in Server
    BY <1>2, <1>3 DEF i
  <2> QED BY <2>1, <2>2, <1>4, <1>5, <1>s, <1>6, <1>12, <1>13, LogShapeUpdate
<1> QED BY <1>11, <1>14 DEF IndInv

-----------------------------------------------------------------------------
(* Start, heartbeats and applying.                                         *)

\* Start appends one entry, at the index after the last.
LEMMA StartKeeps ==
  ASSUME IndInv, NEW i \in Server, Start(i)
  PROVE  IndInv' /\ GoesOn
<1> DEFINE snap == m_lastSnapshotIncludeIndex[i]
           entry == [logindex |-> LastLogIndex(i) + 1, logterm |-> m_currentTerm[i],
                     command |-> commands + 1]
           new == Append(m_logs[i], entry)
<1>1. TypeOK /\ LogContiguous /\ CursorOrder
  BY DEF IndInv, LogShape
<1>2. /\ snap \in Nat /\ RunsFrom(snap, m_logs[i]) /\ Len(m_logs[i]) \in Nat
      /\ LastLogIndex(i) = snap + Len(m_logs[i])
  BY <1>1, LogAccess
<1>3. /\ m_commitIndex[i] \in Nat /\ m_lastApplied[i] \in Nat
      /\ snap <= m_lastApplied[i] /\ m_lastApplied[i] <= m_commitIndex[i]
      /\ m_commitIndex[i] <= LastLogIndex(i) /\ m_lastSnapshotIncludeIndex[i] <= snap
  BY <1>1 DEF TypeOK, CursorOrder
<1>4. entry \in LogEntry /\ entry.logindex = snap + (Len(m_logs[i]) + 1)
  <2>1. LastLogIndex(i) + 1 \in Nat /\ m_currentTerm[i] \in Nat /\ commands + 1 \in Nat
    <3>1. m_currentTerm[i] \in Nat /\ commands \in Nat
      BY <1>1 DEF TypeOK
    <3> QED BY <3>1, <1>2
  <2>2. \A index, term, c \in Nat :
          LET e == [logindex |-> index, logterm |-> term, command |-> c]
          IN e \in LogEntry /\ e.logindex = index
    BY DEF LogEntry
  <2>3. entry \in LogEntry /\ entry.logindex = LastLogIndex(i) + 1
    BY <2>1, <2>2, Zenon
  <2> HIDE DEF entry
  <2> QED BY <2>3, <1>2
<1>5. m_logs' = [m_logs EXCEPT ![i] = new] /\ commands' = commands + 1
      /\ UNCHANGED <<process, termVars, m_lastSnapshotIncludeIndex, m_lastSnapshotIncludeTerm,
                     indexVars, leaderVars, applyVars, rvVars, aeVars, isVars, snapshots,
                     restarts, historyVars>>
  BY DEF Start
<1> HIDE DEF entry, snap
<1>6. /\ new \in Seq(LogEntry) /\ Len(new) = Len(m_logs[i]) + 1
      /\ RunsFrom(snap, new)
  <2>1. m_logs[i] \in Seq(LogEntry)
    BY <1>2 DEF RunsFrom
  <2>2. new \in Seq(LogEntry) /\ Len(new) = Len(m_logs[i]) + 1
    BY <1>4, <2>1
  <2>3. \A k \in 1 .. Len(m_logs[i]) + 1 : new[k].logindex = snap + k
    BY <1>2, <1>4, <2>1 DEF RunsFrom
  <2> QED BY <2>2, <2>3 DEF RunsFrom
<1> HIDE DEF new
<1>7. TypeOK'
  <2>1. m_logs' \in [Server -> Seq(LogEntry)]
    BY <1>1, <1>5, <1>6 DEF TypeOK
  <2>2. {commands', snapshots', restarts'} \subseteq Nat
    BY <1>1, <1>5 DEF TypeOK
  <2> QED BY <2>1, <2>2, <1>1, <1>5 DEF TypeOK, termVars, indexVars, leaderVars, applyVars,
     rvVars, aeVars, isVars, historyVars
<1>8. /\ m_lastSnapshotIncludeIndex' = [m_lastSnapshotIncludeIndex EXCEPT ![i] = snap]
      /\ m_lastApplied' = [m_lastApplied EXCEPT ![i] = m_lastApplied[i]]
      /\ m_commitIndex' = [m_commitIndex EXCEPT ![i] = m_commitIndex[i]]
  BY <1>1, <1>5 DEF TypeOK, indexVars, snap
<1>9. AppendsInFlight' = AppendsInFlight
  BY <1>5 DEF AppendsInFlight, aeVars
<1>10. LogShape' /\ GoesOn
  <2>1. /\ LastLogIndex(i) <= snap + Len(new) /\ m_commitIndex[i] <= snap + Len(new)
        /\ m_lastApplied[i] <= m_lastApplied[i] /\ m_commitIndex[i] <= m_commitIndex[i]
    BY <1>2, <1>3, <1>6
  <2> QED BY <2>1, <1>2, <1>3, <1>5, <1>6, <1>8, <1>9, LogShapeUpdate
<1> QED BY <1>7, <1>10 DEF IndInv

\* A heartbeat sends what AppendTo builds, to all peers or to those before the process exits.
LEMMA HeartBeatKeeps ==
  ASSUME IndInv, NEW i \in Server, DoHeartBeat(i) \/ DoHeartBeatExits(i)
  PROVE  IndInv' /\ GoesOn
<1>1. CASE DoHeartBeat(i)
  <2>1. process' \in [Server -> Process]
    BY <1>1 DEF DoHeartBeat, IndInv, TypeOK
  <2>2. Peers(i) \subseteq Server
    BY DEF Peers
  <2> QED BY <1>1, <2>1, <2>2, SpawnAppendsKeeps DEF DoHeartBeat
<1>2. CASE DoHeartBeatExits(i)
  <2>1. PICK to \in SUBSET {j \in Peers(i) : CanAppend(i, j)} : SpawnAppends(i, to)
    BY <1>2, Zenon DEF DoHeartBeatExits
  <2>2. process' \in [Server -> Process]
    BY <1>2 DEF DoHeartBeatExits, ExitProcess, IndInv, TypeOK, Process
  <2>3. to \subseteq Server /\ \A j \in to : CanAppend(i, j)
    BY <2>1 DEF Peers
  <2> QED BY <2>1, <2>2, <2>3, SpawnAppendsKeeps
<1> QED BY <1>1, <1>2

\* Every step of log replication keeps the invariant.
LEMMA AppendStepKeeps ==
  ASSUME IndInv, AppendStep
  PROVE  IndInv' /\ GoesOn
<1>1. CASE \E i \in Server : DoHeartBeat(i) \/ DoHeartBeatExits(i) \/ Start(i)
  BY <1>1, HeartBeatKeeps, StartKeeps
<1>2. ASSUME NEW m \in aeCalls,
             \/ AppendEntriesStale(m) \/ AppendEntriesAhead(m)
             \/ AppendEntriesBeforeSnapshot(m) \/ AppendEntriesMismatch(m)
             \/ AppendEntriesMatch(m) \/ AppendEntriesWild(m) \/ AppendEntriesDiffers(m)
      PROVE  IndInv' /\ GoesOn
  BY <1>2, AppendRefusedKeeps, AppendMatchKeeps, DieInAppendKeeps
<1>3. ASSUME NEW r \in aeReplies,
             \/ SendAppendEntriesHigherTerm(r) \/ SendAppendEntriesIgnored(r)
             \/ SendAppendEntriesRefused(r) \/ SendAppendEntriesAccepted(r)
      PROVE  IndInv' /\ GoesOn
  BY <1>3, AppendReplyKeeps, AppendAcceptedKeeps
<1> QED BY <1>1, <1>2, <1>3 DEF AppendStep

\* applierTicker reads only entries that are in the log: what it has not applied is after the
\* snapshot, what is committed is before the end.
LEMMA ApplyStepKeeps ==
  ASSUME IndInv, ApplyStep
  PROVE  IndInv' /\ GoesOn
<1>1. TypeOK /\ LogContiguous /\ CursorOrder
  BY DEF IndInv, LogShape
<1>2. ASSUME NEW i \in Server, GetApplyLogs(i) PROVE IndInv' /\ GoesOn
  <2> DEFINE snap == m_lastSnapshotIncludeIndex[i]
             applied == m_lastApplied[i]
             commit == m_commitIndex[i]
  <2>1. /\ snap \in Nat /\ RunsFrom(snap, m_logs[i]) /\ Len(m_logs[i]) \in Nat
        /\ LastLogIndex(i) = snap + Len(m_logs[i])
    BY <1>1, LogAccess
  <2>2. /\ applied \in Nat /\ commit \in Nat
        /\ snap <= applied /\ applied < commit /\ commit <= LastLogIndex(i)
        /\ m_lastSnapshotIncludeIndex[i] <= snap /\ m_lastApplied[i] <= commit
        /\ m_commitIndex[i] <= commit
    BY <1>1, <1>2 DEF TypeOK, CursorOrder, GetApplyLogs
  <2>3. \A k \in 1 .. commit - applied : CommandMsg(i, applied + k) \in ApplyMsg
    <3>1. ASSUME NEW k \in 1 .. commit - applied PROVE CommandMsg(i, applied + k) \in ApplyMsg
      <4>1. Slot(i, applied + k) \in 1 .. Len(m_logs[i]) /\ applied + k \in Nat
        <5> DEFINE index == applied + k
        <5>1. index \in Nat /\ snap + 1 <= index /\ index <= snap + Len(m_logs[i])
          <6> HIDE DEF snap, applied, commit
          <6>1. k \in Nat /\ 1 <= k /\ k <= commit - applied
            BY <2>2
          <6> QED BY <6>1, <2>1, <2>2
        <5> HIDE DEF index
        <5>2. Slot(i, index) \in 1 .. Len(m_logs[i])
          BY <5>1, <2>1 DEF Slot
        <5> QED BY <5>1, <5>2 DEF index
      <4>2. m_logs[i][Slot(i, applied + k)] \in LogEntry
        BY <4>1, <2>1 DEF RunsFrom
      <4>3. m_logs[i][Slot(i, applied + k)].command \in Nat
        BY <4>2 DEF LogEntry
      <4> QED BY <4>1, <4>3 DEF CommandMsg, ApplyMsg
    <3> QED BY <3>1
  <2>4. Batch(i) \in Seq(ApplyMsg)
    <3>1. commit - applied \in Nat
      BY <2>2
    <3>2. Batch(i) = [k \in 1 .. commit - applied |-> CommandMsg(i, applied + k)]
      BY DEF Batch
    <3> HIDE DEF commit, applied
    <3>3. Batch(i) \in [1 .. commit - applied -> ApplyMsg]
      BY <2>3, <3>2
    <3> QED BY <3>1, <3>3
  <2>5. /\ applyMsgs' = [applyMsgs EXCEPT ![i] = Batch(i)]
        /\ m_lastApplied' = [m_lastApplied EXCEPT ![i] = commit]
        /\ UNCHANGED <<process, termVars, logVars, m_commitIndex, leaderVars, applyChan, rvVars,
                       aeVars, isVars, boundVars, historyVars>>
    BY <1>2 DEF GetApplyLogs
  <2>6. applyMsgs' \in [Server -> Seq(ApplyMsg)] /\ m_lastApplied' \in [Server -> Nat]
    BY <2>2, <2>4, <2>5, <1>1 DEF TypeOK
  <2>7. TypeOK'
    BY <2>5, <2>6, <1>1 DEF TypeOK, termVars, logVars, leaderVars, rvVars, aeVars, isVars,
       boundVars, historyVars
  <2>8. /\ m_logs' = [m_logs EXCEPT ![i] = m_logs[i]]
        /\ m_lastSnapshotIncludeIndex' = [m_lastSnapshotIncludeIndex EXCEPT ![i] = snap]
        /\ m_commitIndex' = [m_commitIndex EXCEPT ![i] = commit]
    BY <1>1, <2>5 DEF TypeOK, logVars
  <2>9. AppendsInFlight' = AppendsInFlight
    BY <2>5 DEF AppendsInFlight, aeVars
  <2> HIDE DEF snap, applied, commit
  <2>10. LogShape' /\ GoesOn
    <3>1. /\ snap <= commit /\ commit <= commit /\ commit <= snap + Len(m_logs[i])
          /\ LastLogIndex(i) <= snap + Len(m_logs[i])
      BY <2>1, <2>2
    <3> QED BY <3>1, <2>1, <2>2, <2>5, <2>8, <2>9, LogShapeUpdate
  <2> QED BY <2>7, <2>10 DEF IndInv
<1>3. ASSUME NEW i \in Server, PushApplyMsg(i) PROVE IndInv' /\ GoesOn
  <2>1. applyMsgs[i] \in Seq(ApplyMsg) /\ applyChan[i] \in Seq(ApplyMsg) /\ applyMsgs[i] # <<>>
    BY <1>1, <1>3 DEF TypeOK, PushApplyMsg
  <2>2. /\ Append(applyChan[i], Head(applyMsgs[i])) \in Seq(ApplyMsg)
        /\ Tail(applyMsgs[i]) \in Seq(ApplyMsg)
    BY <2>1
  <2>3. applyMsgs' \in [Server -> Seq(ApplyMsg)] /\ applyChan' \in [Server -> Seq(ApplyMsg)]
    BY <1>1, <1>3, <2>2 DEF TypeOK, PushApplyMsg
  <2>4. UNCHANGED <<process, termVars, logVars, indexVars, leaderVars, rvVars, aeVars, isVars,
                    boundVars, historyVars>>
    BY <1>3 DEF PushApplyMsg
  <2>5. TypeOK'
    BY <1>1, <2>3, <2>4 DEF TypeOK, termVars, logVars, indexVars, leaderVars, rvVars, aeVars,
       isVars, boundVars, historyVars
  <2>6. AppendsInFlight' = AppendsInFlight
    BY <2>4 DEF AppendsInFlight, aeVars
  <2> QED BY <2>4, <2>5, <2>6, LogShapeKept DEF IndInv
<1> QED BY <1>2, <1>3 DEF ApplyStep

-----------------------------------------------------------------------------
(* Snapshots.                                                              *)

\* What stays of a log when its snapshot moves to index: a gap-free log that reaches as far
\* as before, and as far as index.
LEMMA LogAfterShape ==
  ASSUME TypeOK, LogContiguous, NEW i \in Server, NEW index \in Nat,
         m_lastSnapshotIncludeIndex[i] < index
  PROVE  /\ RunsFrom(index, LogAfter(i, index)) /\ Len(LogAfter(i, index)) \in Nat
         /\ LastLogIndex(i) <= index + Len(LogAfter(i, index))
<1> DEFINE snap == m_lastSnapshotIncludeIndex[i]
           log == m_logs[i]
           slot == Slot(i, index) + 1
<1>1. /\ snap \in Nat /\ RunsFrom(snap, log) /\ Len(log) \in Nat
      /\ LastLogIndex(i) = snap + Len(log)
  BY LogAccess
<1>2. CASE LastLogIndex(i) > index
  <2>1. LogAfter(i, index) = SubSeq(log, slot, Len(log))
    BY <1>2 DEF LogAfter, EntriesFrom
  <2>2. slot \in 1 .. Len(log) + 1 /\ snap + slot - 1 = index
    BY <1>1, <1>2 DEF Slot
  <2> HIDE DEF slot, snap, log
  <2>3. /\ RunsFrom(index, SubSeq(log, slot, Len(log)))
        /\ Len(SubSeq(log, slot, Len(log))) = Len(log) - slot + 1
    BY <1>1, <2>2, SuffixRunsOn
  <2>4. Len(log) - slot + 1 \in Nat /\ snap + Len(log) <= index + (Len(log) - slot + 1)
    BY <1>1, <2>2
  <2> QED BY <1>1, <2>1, <2>3, <2>4
<1>3. CASE ~(LastLogIndex(i) > index)
  <2>1. LogAfter(i, index) = <<>> /\ Len(<<>>) = 0
    BY <1>3 DEF LogAfter
  <2>2. RunsFrom(index, <<>>)
    BY DEF RunsFrom
  <2> QED BY <1>1, <1>3, <2>1, <2>2
<1> QED BY <1>2, <1>3

\* Snapshot drops entries that are committed, and counts what is committed as applied.
LEMMA SnapshotKeeps ==
  ASSUME IndInv, NEW i \in Server, SnapshotOfExecuted(i)
  PROVE  IndInv' /\ GoesOn
<1>1. TypeOK /\ LogContiguous /\ CursorOrder
  BY DEF IndInv, LogShape
<1>2. PICK k \in DOMAIN applyChan[i] : Snapshot(i, applyChan[i][k].index)
  BY DEF SnapshotOfExecuted
<1> DEFINE index == applyChan[i][k].index
           new == LogAfter(i, index)
<1>3. index \in Nat
  <2>1. applyChan[i][k] \in ApplyMsg
    BY <1>1, <1>2 DEF TypeOK
  <2> QED BY <2>1 DEF ApplyMsg
<1>4. /\ m_lastSnapshotIncludeIndex[i] < index /\ index <= m_commitIndex[i]
      /\ snapshots' = snapshots + 1
      /\ m_lastSnapshotIncludeIndex' = [m_lastSnapshotIncludeIndex EXCEPT ![i] = index]
      /\ m_lastSnapshotIncludeTerm' =
           [m_lastSnapshotIncludeTerm EXCEPT ![i] = LogTerm(i, index)]
      /\ m_logs' = [m_logs EXCEPT ![i] = new]
      /\ m_lastApplied' = [m_lastApplied EXCEPT ![i] = AppliedAfterSnapshot(i, index)]
      /\ UNCHANGED <<process, termVars, m_commitIndex, leaderVars, applyVars, rvVars, aeVars,
                     isVars, commands, restarts, historyVars>>
  BY <1>2 DEF Snapshot
<1> HIDE DEF index
<1>5. /\ m_lastSnapshotIncludeIndex[i] \in Nat /\ m_commitIndex[i] \in Nat
      /\ m_lastApplied[i] <= m_commitIndex[i] /\ m_commitIndex[i] <= LastLogIndex(i)
  BY <1>1 DEF TypeOK, CursorOrder
<1>6. /\ LastLogIndex(i) \in Nat
      /\ \A l \in m_lastSnapshotIncludeIndex[i] .. LastLogIndex(i) : LogTerm(i, l) \in Nat
  BY <1>1, LogAccess
<1>7. LogTerm(i, index) \in Nat
  BY <1>3, <1>4, <1>5, <1>6
<1>8. AppliedAfterSnapshot(i, index) = m_commitIndex[i]
  BY <1>3, <1>4, <1>5 DEF AppliedAfterSnapshot, Larger
<1>9. RunsFrom(index, new) /\ Len(new) \in Nat /\ LastLogIndex(i) <= index + Len(new)
  BY <1>1, <1>3, <1>4, LogAfterShape
<1> HIDE DEF new
<1>10. TypeOK'
  <2>1. /\ m_logs' \in [Server -> Seq(LogEntry)] /\ m_lastApplied' \in [Server -> Nat]
        /\ m_lastSnapshotIncludeIndex' \in [Server -> Nat]
        /\ m_lastSnapshotIncludeTerm' \in [Server -> Nat]
    BY <1>1, <1>3, <1>4, <1>5, <1>7, <1>8, <1>9 DEF TypeOK, RunsFrom
  <2>2. {commands', snapshots', restarts'} \subseteq Nat
    BY <1>1, <1>4 DEF TypeOK
  <2> QED BY <2>1, <2>2, <1>1, <1>4 DEF TypeOK, termVars, leaderVars, applyVars, rvVars, aeVars,
     isVars, historyVars
<1>11. AppendsInFlight' = AppendsInFlight
  BY <1>4 DEF AppendsInFlight, aeVars
<1>12. /\ m_commitIndex' = [m_commitIndex EXCEPT ![i] = m_commitIndex[i]]
       /\ m_lastApplied' = [m_lastApplied EXCEPT ![i] = m_commitIndex[i]]
  BY <1>1, <1>4, <1>8 DEF TypeOK
<1>13. LogShape' /\ GoesOn
  <2>1. /\ m_commitIndex[i] <= m_commitIndex[i] /\ m_commitIndex[i] <= index + Len(new)
        /\ m_lastSnapshotIncludeIndex[i] <= index /\ index <= m_commitIndex[i]
    BY <1>3, <1>4, <1>5, <1>6, <1>9
  <2> QED BY <2>1, <1>3, <1>4, <1>5, <1>9, <1>11, <1>12, LogShapeUpdate
<1> QED BY <1>10, <1>13 DEF IndInv

\* The types of a snapshot request, and of the reply to one.
LEMMA InstallCallTypes ==
  ASSUME TypeOK
  PROVE  /\ \A m \in isCalls \cup isWaits :
              /\ m \in InstallSnapshotRequest /\ m.server \in Server /\ m.leaderid \in Server
              /\ m.term \in Nat /\ m.lastsnapshotincludeindex \in Nat
              /\ m.lastsnapshotincludeterm \in Nat
         /\ \A r \in isReplies :
              /\ r.args \in InstallSnapshotRequest /\ r.term \in Nat
              /\ r.args.server \in Server /\ r.args.leaderid \in Server
              /\ r.args.term \in Nat /\ r.args.lastsnapshotincludeindex \in Nat
<1>1. \A m \in InstallSnapshotRequest :
        /\ m.server \in Server /\ m.leaderid \in Server
        /\ m.term \in Nat /\ m.lastsnapshotincludeindex \in Nat
        /\ m.lastsnapshotincludeterm \in Nat
  BY DEF InstallSnapshotRequest
<1>2. \A r \in InstallSnapShotResponse : r.args \in InstallSnapshotRequest /\ r.term \in Nat
  BY DEF InstallSnapShotResponse
<1> QED BY <1>1, <1>2 DEF TypeOK

\* The types after an answer to a snapshot request, given those of what its handler assigns.
LEMMA AnswerInstallTypes ==
  ASSUME TypeOK, NEW m \in isCalls \cup isWaits,
         NEW replies, replies \subseteq InstallSnapShotResponse,
         AnswerInstall(m, replies), isWaits' \subseteq isWaits,
         m_currentTerm' \in [Server -> Nat], m_status' \in [Server -> Status],
         m_votedFor' \in [Server -> Server \cup {Nil}],
         m_logs' \in [Server -> Seq(LogEntry)], m_commitIndex' \in [Server -> Nat],
         m_lastApplied' \in [Server -> Nat],
         m_lastSnapshotIncludeIndex' \in [Server -> Nat],
         m_lastSnapshotIncludeTerm' \in [Server -> Nat],
         applyChan' \in [Server -> Seq(ApplyMsg)]
  PROVE  TypeOK'
<1>1. isCalls' = isCalls \ {m} /\ isReplies' = isReplies \cup replies
  BY DEF AnswerInstall
<1>2. isCalls' \subseteq InstallSnapshotRequest /\ isReplies' \subseteq InstallSnapShotResponse
  BY <1>1 DEF TypeOK
<1> QED BY <1>2 DEF AnswerInstall, TypeOK, leaderVars, rvVars, aeVars, boundVars, historyVars

\* Snapshot requests that are refused, and calls to a peer that is gone.
LEMMA InstallRefusedKeeps ==
  ASSUME IndInv, NEW m \in isCalls \cup isWaits,
         InstallSnapshotStale(m) \/ InstallSnapshotOld(m) \/ InstallSnapshotPeerGone(m)
  PROVE  IndInv' /\ GoesOn
<1>1. TypeOK /\ m.server \in Server /\ m.term \in Nat
  BY InstallCallTypes DEF IndInv
<1>2. UNCHANGED <<logVars, indexVars, applyChan>>
  BY DEF InstallSnapshotStale, InstallSnapshotOld, InstallSnapshotPeerGone
<1>r. \A term \in Nat, received \in BOOLEAN :
        [args |-> m, term |-> term, received |-> received] \in InstallSnapShotResponse
  BY <1>1, InstallCallTypes DEF InstallSnapShotResponse
<1>3. PICK replies \in SUBSET InstallSnapShotResponse : AnswerInstall(m, replies)
  <2>1. m_currentTerm[m.server] \in Nat
    BY <1>1 DEF TypeOK
  <2>2. CASE InstallSnapshotStale(m)
    BY <1>r, <2>1, <2>2 DEF InstallSnapshotStale, InstallReply
  <2>3. CASE InstallSnapshotOld(m)
    BY <2>3 DEF InstallSnapshotOld
  <2>4. CASE InstallSnapshotPeerGone(m)
    BY <1>r, <2>4 DEF InstallSnapshotPeerGone, InstallReply
  <2> QED BY <2>2, <2>3, <2>4
<1>w. isWaits' \subseteq isWaits
  BY DEF InstallSnapshotStale, InstallSnapshotOld, InstallSnapshotPeerGone
<1>4. /\ m_currentTerm' \in [Server -> Nat] /\ m_status' \in [Server -> Status]
      /\ m_votedFor' \in [Server -> Server \cup {Nil}]
  <2>1. CASE UNCHANGED termVars
    BY <2>1, <1>1 DEF TypeOK, termVars
  <2>2. CASE HearLeader(m)
    BY <2>2, <1>1, FollowTermTypes DEF HearLeader
  <2> QED BY <2>1, <2>2 DEF InstallSnapshotStale, InstallSnapshotOld, InstallSnapshotPeerGone
<1>5. TypeOK'
  <2>1. /\ m_logs' \in [Server -> Seq(LogEntry)] /\ m_commitIndex' \in [Server -> Nat]
        /\ m_lastApplied' \in [Server -> Nat] /\ m_lastSnapshotIncludeIndex' \in [Server -> Nat]
        /\ m_lastSnapshotIncludeTerm' \in [Server -> Nat]
        /\ applyChan' \in [Server -> Seq(ApplyMsg)]
    BY <1>1, <1>2 DEF TypeOK, logVars, indexVars
  <2> QED BY <2>1, <1>1, <1>3, <1>w, <1>4, AnswerInstallTypes
<1>6. AppendsInFlight' = AppendsInFlight
  BY <1>3 DEF AppendsInFlight, AnswerInstall, aeVars
<1> QED BY <1>2, <1>5, <1>6, LogShapeKept DEF IndInv

\* A follower that takes a snapshot keeps the entries after it, and moves its cursors up to it.
LEMMA InstallSnapshotKeeps ==
  ASSUME IndInv, NEW m \in isCalls, InstallSnapshot(m)
  PROVE  IndInv' /\ GoesOn
<1> DEFINE j == m.server
           index == m.lastsnapshotincludeindex
           commit == Larger(m_commitIndex[j], index)
           applied == Larger(m_lastApplied[j], index)
           new == LogAfter(j, index)
           msg == [snapshot |-> TRUE, index |-> index, command |-> 0]
<1>1. TypeOK /\ LogContiguous /\ CursorOrder
  BY DEF IndInv, LogShape
<1>2. j \in Server /\ m.term \in Nat /\ index \in Nat /\ m.lastsnapshotincludeterm \in Nat
  BY <1>1, InstallCallTypes
<1>3. /\ HearLeader(m) /\ index > m_lastSnapshotIncludeIndex[j]
      /\ AnswerInstall(m, {[args |-> m, term |-> m.term, received |-> FALSE]})
      /\ isWaits' = isWaits
      /\ m_logs' = [m_logs EXCEPT ![j] = new]
      /\ m_commitIndex' = [m_commitIndex EXCEPT ![j] = commit]
      /\ m_lastApplied' = [m_lastApplied EXCEPT ![j] = applied]
      /\ m_lastSnapshotIncludeIndex' = [m_lastSnapshotIncludeIndex EXCEPT ![j] = index]
      /\ m_lastSnapshotIncludeTerm' =
           [m_lastSnapshotIncludeTerm EXCEPT ![j] = m.lastsnapshotincludeterm]
      /\ applyChan' = [applyChan EXCEPT ![j] = Append(applyChan[j], msg)]
  BY DEF InstallSnapshot, InstallReply
<1>4. msg \in ApplyMsg
  BY <1>2 DEF ApplyMsg
<1>r. {[args |-> m, term |-> m.term, received |-> FALSE]} \subseteq InstallSnapShotResponse
  BY <1>1, InstallCallTypes DEF InstallSnapShotResponse
<1> HIDE DEF j, index, msg
<1>5. /\ m_lastSnapshotIncludeIndex[j] \in Nat
      /\ m_commitIndex[j] \in Nat /\ m_lastApplied[j] \in Nat
      /\ m_lastApplied[j] <= m_commitIndex[j] /\ m_commitIndex[j] <= LastLogIndex(j)
      /\ applyChan[j] \in Seq(ApplyMsg)
  BY <1>1, <1>2 DEF TypeOK, CursorOrder
<1>6. LastLogIndex(j) \in Nat
  BY <1>1, <1>2, LogAccess
<1>7. RunsFrom(index, new) /\ Len(new) \in Nat /\ LastLogIndex(j) <= index + Len(new)
  BY <1>1, <1>2, <1>3, LogAfterShape
<1>8. /\ commit \in Nat /\ applied \in Nat /\ index <= applied /\ applied <= commit
      /\ commit <= index + Len(new) /\ m_commitIndex[j] <= commit
      /\ m_lastApplied[j] <= applied /\ m_lastSnapshotIncludeIndex[j] <= index
  <2> HIDE DEF new
  <2> QED BY <1>2, <1>3, <1>5, <1>6, <1>7 DEF Larger
<1> HIDE DEF commit, applied, new
<1>9. TypeOK'
  <2>1. /\ m_currentTerm' \in [Server -> Nat] /\ m_status' \in [Server -> Status]
        /\ m_votedFor' \in [Server -> Server \cup {Nil}]
    BY <1>1, <1>2, <1>3, FollowTermTypes DEF HearLeader, j
  <2>2. /\ m_logs' \in [Server -> Seq(LogEntry)] /\ m_commitIndex' \in [Server -> Nat]
        /\ m_lastApplied' \in [Server -> Nat] /\ m_lastSnapshotIncludeIndex' \in [Server -> Nat]
        /\ m_lastSnapshotIncludeTerm' \in [Server -> Nat]
    BY <1>1, <1>2, <1>3, <1>7, <1>8 DEF TypeOK, RunsFrom
  <2>3. applyChan' \in [Server -> Seq(ApplyMsg)]
    <3>1. Append(applyChan[j], msg) \in Seq(ApplyMsg)
      BY <1>4, <1>5
    <3> QED BY <3>1, <1>1, <1>3 DEF TypeOK
  <2> QED BY <2>1, <2>2, <2>3, <1>1, <1>3, <1>r, AnswerInstallTypes
<1>10. AppendsInFlight' = AppendsInFlight
  BY <1>3 DEF AppendsInFlight, AnswerInstall, aeVars
<1>11. LogShape' /\ GoesOn
  BY <1>2, <1>3, <1>5, <1>7, <1>8, <1>10, LogShapeUpdate
<1> QED BY <1>9, <1>11 DEF IndInv

\* leaderSendSnapShot sends what it finds, and touches only the leader's view of the peer.
LEMMA LeaderSnapshotKeeps ==
  ASSUME IndInv,
         \/ \E t \in isThreads : LeaderSendSnapShot(t)
         \/ \E r \in isReplies : \/ LeaderSendSnapShotIgnored(r)
                                 \/ LeaderSendSnapShotHigherTerm(r)
                                 \/ LeaderSendSnapShotDone(r)
  PROVE  IndInv' /\ GoesOn
<1>1. TypeOK
  BY DEF IndInv
<1>2. ASSUME NEW t \in isThreads, LeaderSendSnapShot(t) PROVE TypeOK'
  <2> DEFINE i == t.leaderid
             request == [round |-> t.round, server |-> t.server, term |-> m_currentTerm[i],
                         leaderid |-> i,
                         lastsnapshotincludeindex |-> m_lastSnapshotIncludeIndex[i],
                         lastsnapshotincludeterm |-> m_lastSnapshotIncludeTerm[i]]
  <2>1. t.round \in Nat /\ t.server \in Server /\ i \in Server
    <3>1. t \in SnapshotThread
      BY <1>1 DEF TypeOK
    <3> QED BY <3>1 DEF SnapshotThread
  <2>2. /\ m_currentTerm[i] \in Nat /\ m_lastSnapshotIncludeIndex[i] \in Nat
        /\ m_lastSnapshotIncludeTerm[i] \in Nat
    BY <1>1, <2>1 DEF TypeOK
  <2>3. /\ isThreads' = isThreads \ {t} /\ isCalls' = isCalls \cup {request}
        /\ isWaits' = isWaits \cup {request}
    BY <1>2 DEF LeaderSendSnapShot
  <2>4. request \in InstallSnapshotRequest
    BY <2>1, <2>2 DEF InstallSnapshotRequest
  <2> HIDE DEF request, i
  <2>5. /\ isThreads' \subseteq SnapshotThread /\ isCalls' \subseteq InstallSnapshotRequest
        /\ isWaits' \subseteq InstallSnapshotRequest
    BY <1>1, <2>3, <2>4 DEF TypeOK
  <2> QED BY <1>1, <1>2, <2>5 DEF LeaderSendSnapShot, TypeOK, termVars, logVars, indexVars,
     leaderVars, applyVars, rvVars, aeVars, boundVars, historyVars
<1>3. ASSUME NEW r \in isReplies,
             \/ LeaderSendSnapShotIgnored(r) \/ LeaderSendSnapShotHigherTerm(r)
             \/ LeaderSendSnapShotDone(r)
      PROVE  TypeOK'
  <2>1. /\ r.args.leaderid \in Server /\ r.args.server \in Server /\ r.term \in Nat
        /\ r.args.lastsnapshotincludeindex \in Nat
    BY <1>1, InstallCallTypes
  <2>2. TakeInstallReply(r)
    BY <1>3 DEF LeaderSendSnapShotIgnored, LeaderSendSnapShotHigherTerm, LeaderSendSnapShotDone
  <2>3. /\ m_currentTerm' \in [Server -> Nat] /\ m_status' \in [Server -> Status]
        /\ m_votedFor' \in [Server -> Server \cup {Nil}]
    <3>1. CASE UNCHANGED termVars
      BY <1>1, <3>1 DEF TypeOK, termVars
    <3>2. CASE FollowTerm(r.args.leaderid, r.term)
      BY <1>1, <2>1, <3>2, FollowTermTypes
    <3> QED BY <1>3, <3>1, <3>2 DEF LeaderSendSnapShotIgnored, LeaderSendSnapShotHigherTerm,
                                    LeaderSendSnapShotDone
  <2>4. /\ m_nextIndex' \in [Server -> [Server -> Nat]]
        /\ m_matchIndex' \in [Server -> [Server -> Nat]]
    <3>1. CASE UNCHANGED leaderVars
      BY <1>1, <3>1 DEF TypeOK, leaderVars
    <3>2. CASE LeaderSendSnapShotDone(r)
      <4> DEFINE i == r.args.leaderid
                 j == r.args.server
                 index == r.args.lastsnapshotincludeindex
      <4>1. /\ m_matchIndex' = [m_matchIndex EXCEPT ![i][j] = index]
            /\ m_nextIndex' = [m_nextIndex EXCEPT ![i][j] = index + 1]
        BY <3>2 DEF LeaderSendSnapShotDone
      <4>2. i \in Server /\ j \in Server /\ index \in Nat /\ index + 1 \in Nat
        BY <2>1
      <4> HIDE DEF i, j, index
      <4> QED BY <1>1, <4>1, <4>2 DEF TypeOK
    <3> QED BY <1>3, <3>1, <3>2 DEF LeaderSendSnapShotIgnored, LeaderSendSnapShotHigherTerm
  <2> QED BY <1>1, <2>2, <2>3, <2>4 DEF TakeInstallReply, TypeOK, logVars, indexVars, applyVars,
     rvVars, aeVars, boundVars, historyVars
<1>4. TypeOK'
  BY <1>2, <1>3
<1>5. UNCHANGED <<logVars, indexVars, aeVars>>
  BY DEF LeaderSendSnapShot, LeaderSendSnapShotIgnored, LeaderSendSnapShotHigherTerm,
     LeaderSendSnapShotDone, TakeInstallReply
<1>6. AppendsInFlight' = AppendsInFlight
  BY <1>5 DEF AppendsInFlight, aeVars
<1> QED BY <1>4, <1>5, <1>6, LogShapeKept DEF IndInv

\* Every step that has to do with snapshots keeps the invariant.
LEMMA SnapshotStepKeeps ==
  ASSUME IndInv, SnapshotStep
  PROVE  IndInv' /\ GoesOn
<1>1. ASSUME NEW m \in isCalls,
             InstallSnapshotStale(m) \/ InstallSnapshotOld(m) \/ InstallSnapshot(m)
      PROVE  IndInv' /\ GoesOn
  BY <1>1, InstallRefusedKeeps, InstallSnapshotKeeps
<1>2. ASSUME NEW m \in isWaits, InstallSnapshotPeerGone(m) PROVE IndInv' /\ GoesOn
  BY <1>2, InstallRefusedKeeps
<1> QED BY <1>1, <1>2, SnapshotKeeps, LeaderSnapshotKeeps DEF SnapshotStep

-----------------------------------------------------------------------------
(* Processes.                                                              *)

\* A restarted server has an empty log, and none of its requests is left to reach past it.
LEMMA RestartKeeps ==
  ASSUME IndInv, NEW i \in Server, Restart(i)
  PROVE  IndInv' /\ GoesOn
<1>1. TypeOK /\ LogContiguous /\ CursorOrder /\ SentWithinLog
  BY DEF IndInv, LogShape
<1>2. /\ m_logs' = [m_logs EXCEPT ![i] = <<>>]
      /\ m_commitIndex' = [m_commitIndex EXCEPT ![i] = 0]
      /\ m_lastApplied' = [m_lastApplied EXCEPT ![i] = 0]
      /\ m_lastSnapshotIncludeIndex' = [m_lastSnapshotIncludeIndex EXCEPT ![i] = 0]
      /\ aeCalls' = {m \in aeCalls : i \notin {m.server, m.leaderid}}
      /\ aeReplies' = {r \in aeReplies : i \notin {r.args.server, r.args.leaderid}}
      /\ aeWaits' = {m \in aeWaits : i \notin {m.server, m.leaderid}}
  BY DEF Restart
<1>3. /\ \A k \in Server : k # i =>
            /\ m_logs'[k] = m_logs[k]
            /\ m_lastSnapshotIncludeIndex'[k] = m_lastSnapshotIncludeIndex[k]
            /\ m_lastApplied'[k] = m_lastApplied[k] /\ m_commitIndex'[k] = m_commitIndex[k]
      /\ m_logs'[i] = <<>> /\ m_lastSnapshotIncludeIndex'[i] = 0
      /\ m_lastApplied'[i] = 0 /\ m_commitIndex'[i] = 0
  BY <1>1, <1>2 DEF TypeOK
<1>4. LastLogIndex(i)' = 0
  BY <1>3 DEF LastLogIndex
<1>5. \A k \in Server : k # i => LastLogIndex(k)' = LastLogIndex(k)
  BY <1>3 DEF LastLogIndex
<1>6. /\ AppendsInFlight' \subseteq AppendsInFlight
      /\ \A m \in AppendsInFlight' : m.leaderid # i
  BY <1>2 DEF AppendsInFlight
<1>7. LogContiguous'
  <2>1. \A k \in Server : \A n \in DOMAIN m_logs'[k] :
          m_logs'[k][n].logindex = m_lastSnapshotIncludeIndex'[k] + n
    BY <1>1, <1>3 DEF LogContiguous
  <2> QED BY <2>1, <1>1, <1>6 DEF LogContiguous
<1>8. CursorOrder'
  BY <1>1, <1>3, <1>4, <1>5 DEF CursorOrder
<1>9. SentWithinLog'
  <2>1. \A m \in AppendsInFlight' : m.leaderid \in Server
    BY <1>6, AppendCallTypes
  <2> QED BY <2>1, <1>1, <1>5, <1>6 DEF SentWithinLog, LastSent
<1>10. TypeOK'
  <2>1. /\ process' \in [Server -> Process] /\ m_status' \in [Server -> Status]
        /\ m_currentTerm' \in [Server -> Nat] /\ m_votedFor' \in [Server -> Server \cup {Nil}]
    BY <1>1 DEF Restart, TypeOK, Process, Status
  <2>2. /\ m_logs' \in [Server -> Seq(LogEntry)] /\ m_commitIndex' \in [Server -> Nat]
        /\ m_lastApplied' \in [Server -> Nat] /\ m_lastSnapshotIncludeIndex' \in [Server -> Nat]
        /\ m_lastSnapshotIncludeTerm' \in [Server -> Nat]
    <3>1. <<>> \in Seq(LogEntry)
      OBVIOUS
    <3>2. /\ m_logs' = [m_logs EXCEPT ![i] = <<>>]
          /\ m_lastSnapshotIncludeTerm' = [m_lastSnapshotIncludeTerm EXCEPT ![i] = 0]
      BY DEF Restart
    <3>3. m_logs' \in [Server -> Seq(LogEntry)]
      <4>1. m_logs \in [Server -> Seq(LogEntry)]
        BY <1>1 DEF TypeOK
      <4> QED BY <3>1, <3>2, <4>1
    <3> QED BY <3>2, <3>3, <1>1, <1>2 DEF TypeOK
  <2>3. /\ m_nextIndex' \in [Server -> [Server -> Nat]]
        /\ m_matchIndex' \in [Server -> [Server -> Nat]]
    BY <1>1 DEF Restart, TypeOK
  <2>4. applyMsgs' \in [Server -> Seq(ApplyMsg)] /\ applyChan' \in [Server -> Seq(ApplyMsg)]
    <3>1. <<>> \in Seq(ApplyMsg)
      OBVIOUS
    <3> QED BY <3>1, <1>1 DEF Restart, TypeOK
  <2>5. /\ rvCalls' \subseteq rvCalls /\ rvReplies' \subseteq rvReplies
        /\ aeCalls' \subseteq aeCalls /\ aeReplies' \subseteq aeReplies
        /\ isThreads' \subseteq isThreads /\ isCalls' \subseteq isCalls
        /\ isReplies' \subseteq isReplies
        /\ rvWaits' \subseteq rvWaits /\ aeWaits' \subseteq aeWaits /\ isWaits' \subseteq isWaits
    BY DEF Restart
  <2>6. /\ votedNum' = votedNum /\ appendNums' = appendNums /\ restarts' = restarts + 1
        /\ commands' = commands /\ snapshots' = snapshots
        /\ granted' = granted /\ elected' = elected /\ forgot' = forgot \cup {i}
        /\ astray' = astray
    BY DEF Restart
  <2>7. {commands', snapshots', restarts'} \subseteq Nat /\ forgot' \subseteq Server
    BY <1>1, <2>6 DEF TypeOK
  <2> QED BY <2>1, <2>2, <2>3, <2>4, <2>5, <2>6, <2>7, <1>1 DEF TypeOK
<1>11. GoesOn
  <2>1. ~Up(i) /\ \A k \in Server : LastLogIndex(k) \in Nat
    BY <1>1, LogAccess DEF Restart
  <2>2. \A k \in Server : /\ m_commitIndex[k] \in Nat /\ m_lastApplied[k] \in Nat
                          /\ m_lastSnapshotIncludeIndex[k] \in Nat
    BY <1>1 DEF TypeOK
  <2> QED BY <2>1, <2>2, <1>3, <1>5 DEF GoesOn
<1> QED BY <1>7, <1>8, <1>9, <1>10, <1>11 DEF IndInv, LogShape

\* The end of a process leaves its fields as they were: nobody reads them any more.
LEMMA ProcessStepKeeps ==
  ASSUME IndInv, ProcessStep
  PROVE  IndInv' /\ GoesOn
<1>1. ASSUME NEW i \in Server, Kill(i) PROVE IndInv' /\ GoesOn
  <2>1. UNCHANGED <<termVars, logVars, indexVars, leaderVars, applyVars, rvVars, aeVars, isVars,
                    boundVars, historyVars>>
    BY <1>1 DEF Kill
  <2>2. process' \in [Server -> Process]
    BY <1>1 DEF Kill, ExitProcess, IndInv, TypeOK, Process
  <2>3. TypeOK'
    BY <2>1, <2>2 DEF IndInv, TypeOK, termVars, logVars, indexVars, leaderVars, applyVars,
       rvVars, aeVars, isVars, boundVars, historyVars
  <2>4. AppendsInFlight' = AppendsInFlight
    BY <2>1 DEF AppendsInFlight, aeVars
  <2> QED BY <2>1, <2>3, <2>4, LogShapeKept DEF IndInv
<1> QED BY <1>1, RestartKeeps DEF ProcessStep

-----------------------------------------------------------------------------
(* Replies that go astray.                                                 *)

\* A merged reply has a term and a hint of the right type, as each of its parts has.
LEMMA AstrayTypes ==
  ASSUME TypeOK, NEW i, NEW peer, NEW replies \in SUBSET OnWire(i, peer)
  PROVE  /\ Terms(replies) \subseteq Nat /\ Flag(replies) \in BOOLEAN
         /\ NextIndexes(replies) \subseteq Nat \cup {NoNextIndex}
<1>1. /\ \A r \in rvReplies : r.term \in Nat
      /\ \A r \in aeReplies : r.term \in Nat /\ r.updatenextindex \in Nat \cup {NoNextIndex}
      /\ \A r \in isReplies : r.term \in Nat
  BY DEF TypeOK, RequestVoteReply, AppendEntriesReply, InstallSnapShotResponse
<1>2. replies \subseteq rvReplies \cup aeReplies \cup isReplies
  BY DEF OnWire
<1>3. Terms(replies) \subseteq Nat
  BY <1>1, <1>2 DEF Terms
<1>4. NextIndexes(replies) \subseteq Nat \cup {NoNextIndex}
  BY <1>1 DEF NextIndexes, Voted, Expire
<1> QED BY <1>3, <1>4 DEF Flag

\* A counter of replies that went astray.
LEMMA AstrayCounts ==
  ASSUME TypeOK, NEW method \in Method, NEW i, NEW call, NEW replies,
         ReceiveOthers(method, i, call, replies)
  PROVE  astray' \in [Method -> Nat]
BY DEF TypeOK, ReceiveOthers

\* All other steps leave the counters of replies gone astray as they are.
LEMMA AstrayKept ==
  ASSUME [Next]_vars, ~AstrayStep
  PROVE  astray' = astray
<1>1. CASE ElectionStep
  BY <1>1 DEF ElectionStep, DoElection, RequestVoteExpired, RequestVote, AnswerVote,
     SendRequestVoteHigherTerm, SendRequestVoteIgnored, SendRequestVoteCounted,
     SendRequestVoteWon, VoteCounts, TakeVoteReply
<1>2. CASE AppendStep
  BY <1>2 DEF AppendStep, DoHeartBeat, DoHeartBeatExits, SpawnAppends, Start, AppendEntriesStale,
     AppendEntriesAhead, AppendEntriesBeforeSnapshot, AppendEntriesMismatch,
     AppendEntriesMatch, AppendEntriesWild, AppendEntriesDiffers, AnswerAppend, DieInAppend,
     SendAppendEntriesHigherTerm, SendAppendEntriesIgnored, SendAppendEntriesRefused,
     SendAppendEntriesAccepted, LeaderTakes, TakeAppendReply, historyVars
<1>3. CASE ApplyStep \/ SnapshotStep
  BY <1>3 DEF ApplyStep, GetApplyLogs, PushApplyMsg, SnapshotStep, SnapshotOfExecuted, Snapshot,
     LeaderSendSnapShot, InstallSnapshotStale, InstallSnapshotOld, InstallSnapshot,
     InstallSnapshotPeerGone, AnswerInstall, LeaderSendSnapShotIgnored,
     LeaderSendSnapShotHigherTerm, LeaderSendSnapShotDone, TakeInstallReply, historyVars
<1>4. CASE ProcessStep
  BY <1>4 DEF ProcessStep, Kill, Restart, historyVars
<1>5. CASE UNCHANGED vars
  BY <1>5 DEF vars, historyVars
<1> QED BY <1>1, <1>2, <1>3, <1>4, <1>5 DEF Next

\* What thread a reply ends up with changes no log, and sends no append request.
LEMMA AstrayStepKeeps ==
  ASSUME IndInv, AstrayStep
  PROVE  IndInv' /\ GoesOn
<1>1. TypeOK
  BY DEF IndInv
<1>2. ASSUME NEW m \in rvWaits, NEW replies \in SUBSET OnWire(m.candidateid, m.server),
             RequestVoteAstray(m, replies)
      PROVE  TypeOK' /\ AppendsInFlight' \subseteq AppendsInFlight
  <2>1. PICK term \in Terms(replies) :
          rvReplies' = (rvReplies \ replies) \cup
            {[args |-> m, term |-> term, votegranted |-> Flag(replies), received |-> TRUE]}
    BY <1>2 DEF RequestVoteAstray
  <2>2. m \in RequestVoteArgs /\ term \in Nat /\ Flag(replies) \in BOOLEAN
    BY <1>1, <1>2, AstrayTypes DEF TypeOK
  <2>3. [args |-> m, term |-> term, votegranted |-> Flag(replies), received |-> TRUE]
          \in RequestVoteReply
    BY <2>2 DEF RequestVoteReply
  <2>4. rvReplies' \subseteq RequestVoteReply
    BY <1>1, <2>1, <2>3 DEF TypeOK
  <2>5. /\ rvWaits' = rvWaits \ {m} /\ aeReplies' = aeReplies \ replies
        /\ isReplies' = isReplies \ replies /\ UNCHANGED <<aeWaits, isWaits>>
        /\ ReceiveOthers("RequestVote", m.candidateid, m, replies)
    BY <1>2 DEF RequestVoteAstray
  <2>6. astray' \in [Method -> Nat]
    BY <1>1, <2>5, AstrayCounts DEF Method
  <2>7. TypeOK'
    BY <1>1, <2>4, <2>5, <2>6 DEF ReceiveOthers, TypeOK, termVars, logVars, indexVars,
       leaderVars, applyVars, boundVars
  <2>8. AppendsInFlight' \subseteq AppendsInFlight
    BY <2>5 DEF ReceiveOthers, AppendsInFlight
  <2> QED BY <2>7, <2>8
<1>3. ASSUME NEW m \in aeWaits, NEW replies \in SUBSET OnWire(m.leaderid, m.server),
             AppendEntriesAstray(m, replies)
      PROVE  TypeOK' /\ AppendsInFlight' \subseteq AppendsInFlight
  <2>1. /\ aeWaits' = aeWaits \ {m} /\ rvReplies' = rvReplies \ replies
        /\ isReplies' = isReplies \ replies /\ UNCHANGED <<rvWaits, isWaits>>
        /\ ReceiveOthers("AppendEntries", m.leaderid, m, replies)
    BY <1>3 DEF AppendEntriesAstray
  <2>2. m \in AppendEntriesArgs
    BY <1>1, <1>3 DEF TypeOK
  <2>3. aeReplies' \subseteq aeReplies \cup {r \in AppendEntriesReply : r.args = m}
    <3>1. CASE aeReplies' = aeReplies
      BY <3>1
    <3>2. ASSUME NEW term \in Terms(replies), NEW next \in NextIndexes(replies),
                 aeReplies' = (aeReplies \ replies) \cup
                   {[args |-> m, term |-> term, success |-> Flag(replies),
                     updatenextindex |-> next, received |-> TRUE]}
          PROVE  aeReplies' \subseteq aeReplies \cup {r \in AppendEntriesReply : r.args = m}
      <4> DEFINE reply == [args |-> m, term |-> term, success |-> Flag(replies),
                           updatenextindex |-> next, received |-> TRUE]
      <4>1. term \in Nat /\ next \in Nat \cup {NoNextIndex} /\ Flag(replies) \in BOOLEAN
        BY <1>1, <1>3, AstrayTypes
      <4>2. reply \in AppendEntriesReply /\ reply.args = m
        BY <2>2, <4>1 DEF AppendEntriesReply
      <4> HIDE DEF reply
      <4> QED BY <3>2, <4>2 DEF reply
    <3> QED BY <1>3, <3>1, <3>2 DEF AppendEntriesAstray
  <2>4. astray' \in [Method -> Nat]
    BY <1>1, <2>1, AstrayCounts DEF Method
  <2>5. TypeOK'
    BY <1>1, <2>1, <2>3, <2>4 DEF ReceiveOthers, TypeOK, termVars, logVars, indexVars,
       leaderVars, applyVars, boundVars
  <2>6. AppendsInFlight' \subseteq AppendsInFlight
    BY <1>3, <2>1, <2>3 DEF ReceiveOthers, AppendsInFlight
  <2> QED BY <2>5, <2>6
<1>4. ASSUME NEW m \in isWaits, NEW replies \in SUBSET OnWire(m.leaderid, m.server),
             InstallSnapshotAstray(m, replies)
      PROVE  TypeOK' /\ AppendsInFlight' \subseteq AppendsInFlight
  <2>1. PICK term \in Terms(replies) :
          isReplies' = (isReplies \ replies) \cup
            {[args |-> m, term |-> term, received |-> TRUE]}
    BY <1>4 DEF InstallSnapshotAstray, InstallReply
  <2>2. m \in InstallSnapshotRequest /\ term \in Nat
    BY <1>1, <1>4, AstrayTypes DEF TypeOK
  <2>3. [args |-> m, term |-> term, received |-> TRUE] \in InstallSnapShotResponse
    BY <2>2 DEF InstallSnapShotResponse
  <2>4. isReplies' \subseteq InstallSnapShotResponse
    BY <1>1, <2>1, <2>3 DEF TypeOK
  <2>5. /\ isWaits' = isWaits \ {m} /\ aeReplies' = aeReplies \ replies
        /\ rvReplies' = rvReplies \ replies /\ UNCHANGED <<rvWaits, aeWaits>>
        /\ ReceiveOthers("InstallSnapShot", m.leaderid, m, replies)
    BY <1>4 DEF InstallSnapshotAstray
  <2>6. astray' \in [Method -> Nat]
    BY <1>1, <2>5, AstrayCounts DEF Method
  <2>7. TypeOK'
    BY <1>1, <2>4, <2>5, <2>6 DEF ReceiveOthers, TypeOK, termVars, logVars, indexVars,
       leaderVars, applyVars, boundVars
  <2>8. AppendsInFlight' \subseteq AppendsInFlight
    BY <2>5 DEF ReceiveOthers, AppendsInFlight
  <2> QED BY <2>7, <2>8
<1>5. TypeOK' /\ AppendsInFlight' \subseteq AppendsInFlight
  BY <1>2, <1>3, <1>4 DEF AstrayStep
<1>6. UNCHANGED <<logVars, indexVars>>
  BY DEF AstrayStep, RequestVoteAstray, AppendEntriesAstray, InstallSnapshotAstray, ReceiveOthers
<1> QED BY <1>5, <1>6, LogShapeKept DEF IndInv

-----------------------------------------------------------------------------
(* The theorems.                                                           *)

\* No step, and no stuttering step, leaves the invariant.
LEMMA NextKeepsIndInv == IndInv /\ [Next]_vars => IndInv' /\ GoesOn
<1> SUFFICES ASSUME IndInv, [Next]_vars PROVE IndInv' /\ GoesOn
  OBVIOUS
<1>1. CASE ElectionStep
  BY <1>1, ElectionStepKeepsLogs, ElectionStepKeepsTypes DEF IndInv
<1>2. CASE UNCHANGED vars
  <2>1. TypeOK'
    BY <1>2 DEF IndInv, TypeOK, vars, termVars, logVars, indexVars, leaderVars, applyVars,
       rvVars, aeVars, isVars, boundVars, historyVars
  <2>2. AppendsInFlight' = AppendsInFlight
    BY <1>2 DEF AppendsInFlight, vars, aeVars
  <2> QED BY <1>2, <2>1, <2>2, LogShapeKept DEF IndInv, vars
<1> QED BY <1>1, <1>2, AppendStepKeeps, ApplyStepKeeps, SnapshotStepKeeps, AstrayStepKeeps,
        ProcessStepKeeps DEF Next

\* The inductive invariant holds in every reachable state.
THEOREM IndInvHolds == Spec => []IndInv
BY InitIndInv, NextKeepsIndInv, PTL DEF Spec

\* While its process lives, no server loses the end of its log, a commit, an applied index or
\* a snapshot to a request or a reply that comes late.
THEOREM ServersGoOn == Spec => NothingGoesBack
<1>1. IndInv /\ [Next]_vars => [GoesOn]_vars
  BY NextKeepsIndInv
<1> QED BY <1>1, IndInvHolds, PTL DEF Spec, NothingGoesBack, GoesOn

\* Every field keeps its type, whatever requests and replies arrive and in which order: a
\* follower never takes over a negative index, and no log access leaves the log.
THEOREM TypeCorrect == Spec => []TypeOK
<1>1. IndInv => TypeOK
  BY DEF IndInv
<1> QED BY <1>1, IndInvHolds, PTL

\* Logs and requests have no gap, so that the position of an index is its distance from the
\* snapshot: what getSlicesIndexFromLogIndex and AppendEntries1 compute with.
THEOREM LogsHaveNoGap == Spec => []LogContiguous
<1>1. IndInv => LogContiguous
  BY DEF IndInv, LogShape
<1> QED BY <1>1, IndInvHolds, PTL

\* Snapshot, applied index, commit index and last index are always in this order, on every
\* server: no assert of getApplyLogs or sendAppendEntries on them ever fails.
THEOREM CursorsInOrder == Spec => []CursorOrder
<1>1. IndInv => CursorOrder
  BY DEF IndInv, LogShape
<1> QED BY <1>1, IndInvHolds, PTL

\* No append request outlives the entries it carries in its sender's log, so that an
\* acknowledgement, however late, never commits past the end of that log.
THEOREM RequestsWithinLog == Spec => []SentWithinLog
<1>1. IndInv => SentWithinLog
  BY DEF IndInv, LogShape
<1> QED BY <1>1, IndInvHolds, PTL

====
