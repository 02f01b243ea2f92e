---------------------------- MODULE HistoryProofs ----------------------------
(***************************************************************************)
(* What the memory store promises about history: the audit trail tells     *)
(* what the rows show, supersession builds chains and is final, summaries  *)
(* of superseded rows go stale, retired summaries free their sources, and  *)
(* the single-valued slots behave as registers (SlotRegister).             *)
(***************************************************************************)
EXTENDS MemoryStoreProofs

\* The trail as it will read if transaction w commits.
PendingLog(w) == [k \in AuditKeys |-> audit[k] + pend[w][k]]

\* The outcomes that leave a mark on the row, and those a capture can have.
Marking == Outcomes \ {"edit", "reinforce"}
Captured == {"insert", "superseded", "stale"}

\* A transaction's uncommitted audit rows are about captures, and about rows it
\* has written; a reinforcement is audited whether or not a row was found.
PendOf(w) ==
    \A i \in Ids : \A o \in Marking :
        (o \notin Captured \/ writes[w][i] = NoRow) => pend[w][<<o, i>>] = 0
PendInv == \A w \in Workers : PendOf(w)

\* An uncommitted version is not deleted, keeps the pointers the committed row
\* has, and belongs to no summary if there is no committed row.
VersionOf(w) ==
    \A i \in Ids : writes[w][i] # NoRow =>
        /\ writes[w][i].deleted = FALSE
        /\ mem[i] = NoRow => writes[w][i].consolidated_into = NoId
        /\ mem[i] # NoRow =>
              /\ writes[w][i].consolidated_into = mem[i].consolidated_into
              /\ mem[i].superseded_by # NoId =>
                    writes[w][i].superseded_by = mem[i].superseded_by
VersionInv == \A w \in Workers : VersionOf(w)

\* A consolidated row points at a row.
SourceInv ==
    \A i \in Rows(mem) :
        mem[i].consolidated_into # NoId => mem[i].consolidated_into \in Rows(mem)

\* A row shows that it has gone stale or been deleted.
Gone(x) == x # NoRow /\ (x.stale = TRUE \/ x.deleted = TRUE)

\* A transaction that supersedes a consolidated row has its summary stale.
StaleOf(w) ==
    \A i \in Live(mem) :
        (/\ writes[w][i] # NoRow
         /\ writes[w][i].superseded_by # NoId
         /\ writes[w][i].consolidated_into # NoId) =>
            Gone(View(w)[writes[w][i].consolidated_into])
StaleInv == \A w \in Workers : StaleOf(w)

\* What a transaction would commit agrees with the trail it would leave, and
\* chains its slots.
TrailOf(w) == \A i \in Ids : TrailTells(PendingLog(w), i, View(w)[i])
ViewTrail == \A w \in Workers : TrailOf(w)
ViewChains == \A w \in Workers : Chained(View(w))

HistoryInv ==
    /\ PendInv /\ VersionInv /\ SourceInv /\ StaleInv
    /\ AuditMatchesTable /\ ViewTrail
    /\ SupersessionChain /\ ViewChains
    /\ RetiredFreesSources
-----------------------------------------------------------------------------
(* The trail of one row. *)

\* write_audit adds one to the keys it is given.
LEMMA LogAt ==
    ASSUME NEW log \in [AuditKeys -> Nat], NEW keys, NEW o \in Outcomes, NEW i \in Ids
    PROVE  /\ Log(log, keys) \in [AuditKeys -> Nat]
           /\ <<o, i>> \in keys => Log(log, keys)[<<o, i>>] = log[<<o, i>>] + 1
           /\ <<o, i>> \notin keys => Log(log, keys)[<<o, i>>] = log[<<o, i>>]
BY DEF Log, AuditKeys

\* Only the marking outcomes of the row matter.
LEMMA TellsSame ==
    ASSUME NEW log, NEW log2, NEW i, NEW x, TrailTells(log, i, x),
           \A o \in Marking : log2[<<o, i>>] = log[<<o, i>>]
    PROVE  TrailTells(log2, i, x)
<1>1. {"insert", "superseded", "stale", "delete", "retired", "consolidated", "unconsolidated"}
        \subseteq Marking
  BY DEF Marking, Outcomes
<1> QED BY <1>1 DEF TrailTells

\* What a row shows.
IsDeleted(x) == x # NoRow /\ x.deleted = TRUE
IsStale(x) == x # NoRow /\ x.stale = TRUE
IsSuperseded(x) == x # NoRow /\ x.superseded_by # NoId
IsConsolidated(x) == x # NoRow /\ x.consolidated_into # NoId

\* The audit rows `keys` are exactly those of what happened to row i, once x and
\* now y: no mark but a consolidation is ever taken back.
Explains(keys, i, x, y) ==
    /\ x # NoRow => y # NoRow
    /\ <<"insert", i>> \in keys <=> x = NoRow /\ y # NoRow
    /\ IsDeleted(x) => IsDeleted(y)
    /\ ~(<<"delete", i>> \in keys /\ <<"retired", i>> \in keys)
    /\ <<"delete", i>> \in keys \/ <<"retired", i>> \in keys <=> ~IsDeleted(x) /\ IsDeleted(y)
    /\ IsSuperseded(x) => IsSuperseded(y)
    /\ <<"superseded", i>> \in keys <=> ~IsSuperseded(x) /\ IsSuperseded(y)
    /\ IsStale(x) => IsStale(y)
    /\ <<"stale", i>> \in keys <=> ~IsStale(x) /\ IsStale(y)
    /\ <<"consolidated", i>> \in keys <=> ~IsConsolidated(x) /\ IsConsolidated(y)
    /\ <<"unconsolidated", i>> \in keys <=> IsConsolidated(x) /\ ~IsConsolidated(y)

\* A trail that grows by exactly the marks a row gains goes on telling the truth.
LEMMA TellsStep ==
    ASSUME NEW log \in [AuditKeys -> Nat], NEW keys, NEW i \in Ids,
           NEW x \in Row \cup {NoRow}, NEW y \in Row \cup {NoRow},
           TrailTells(log, i, x), Explains(keys, i, x, y)
    PROVE  TrailTells(Log(log, keys), i, y)
<1> DEFINE m == Log(log, keys)
<1>0. {"insert", "superseded", "stale", "delete", "retired", "consolidated", "unconsolidated"}
        \subseteq Outcomes
  BY DEF Outcomes
<1>1. \A o \in Outcomes : /\ <<o, i>> \in keys => m[<<o, i>>] = log[<<o, i>>] + 1
                          /\ <<o, i>> \notin keys => m[<<o, i>>] = log[<<o, i>>]
                          /\ log[<<o, i>>] \in Nat
  <2>1. \A o \in Outcomes : <<o, i>> \in AuditKeys
    BY DEF AuditKeys
  <2> QED BY <2>1, LogAt
<1> HIDE DEF m
<1>2. m[<<"insert", i>>] = IF y # NoRow THEN 1 ELSE 0
  BY <1>0, <1>1 DEF TrailTells, Explains
<1>3. m[<<"delete", i>>] + m[<<"retired", i>>] = IF IsDeleted(y) THEN 1 ELSE 0
  <2>1. log[<<"delete", i>>] + log[<<"retired", i>>] = IF IsDeleted(x) THEN 1 ELSE 0
    BY DEF TrailTells, IsDeleted, Row
  <2> QED BY <1>0, <1>1, <2>1 DEF Explains
<1>4. m[<<"superseded", i>>] = IF IsSuperseded(y) THEN 1 ELSE 0
  <2>1. log[<<"superseded", i>>] = IF IsSuperseded(x) THEN 1 ELSE 0
    BY DEF TrailTells, IsSuperseded
  <2> QED BY <1>0, <1>1, <2>1 DEF Explains
<1>5. m[<<"stale", i>>] = IF IsStale(y) THEN 1 ELSE 0
  <2>1. log[<<"stale", i>>] = IF IsStale(x) THEN 1 ELSE 0
    BY DEF TrailTells, IsStale, Row
  <2> QED BY <1>0, <1>1, <2>1 DEF Explains
<1>6. m[<<"consolidated", i>>] =
        m[<<"unconsolidated", i>>] + IF IsConsolidated(y) THEN 1 ELSE 0
  <2>1. log[<<"consolidated", i>>] =
          log[<<"unconsolidated", i>>] + IF IsConsolidated(x) THEN 1 ELSE 0
    BY DEF TrailTells, IsConsolidated
  <2> QED BY <1>0, <1>1, <2>1 DEF Explains
<1>7. TrailTells(m, i, y)
  BY <1>2, <1>3, <1>4, <1>5, <1>6
     DEF TrailTells, IsDeleted, IsSuperseded, IsStale, IsConsolidated, Row
<1> QED BY <1>7 DEF m
-----------------------------------------------------------------------------
(* Chains. *)

\* Rows added without a successor and changes elsewhere in a row keep the chains.
LEMMA ChainedGrows ==
    ASSUME NEW t, NEW u, Chained(t), Rows(t) \subseteq Rows(u),
           \A i \in Rows(t) : u[i].attribute = t[i].attribute
                              /\ u[i].superseded_by = t[i].superseded_by,
           \A i \in Rows(u) \ Rows(t) : u[i].superseded_by = NoId
    PROVE  Chained(u)
<1> DEFINE old == {i \in Rows(t) : t[i].superseded_by # NoId}
           new == {i \in Rows(u) : u[i].superseded_by # NoId}
<1>1. new \subseteq old
  OBVIOUS
<1>2. \A i \in old : /\ t[i].superseded_by \in Rows(t)
                     /\ t[t[i].superseded_by].attribute = t[i].attribute
                     /\ t[i].attribute \in SingleValued
  BY DEF Chained
<1>3. \A C \in SUBSET old : C # {} => \E i \in C : t[i].superseded_by \notin C
  BY DEF Chained
<1> HIDE DEF old
<1>4. \A i \in new : i \in Rows(t) /\ u[i].superseded_by = t[i].superseded_by
  BY <1>1 DEF old
<1>5. \A i \in new : /\ u[i].superseded_by \in Rows(u)
                     /\ u[u[i].superseded_by].attribute = u[i].attribute
                     /\ u[i].attribute \in SingleValued
  BY <1>1, <1>2, <1>4
<1>6. \A C \in SUBSET new : C # {} => \E i \in C : u[i].superseded_by \notin C
  BY <1>1, <1>3, <1>4
<1> QED BY <1>5, <1>6 DEF Chained

\* supersede_slot: a new row n takes the slot of the live rows R. The chains have a
\* newest value because n has no successor: rows that end in n are no cycle.
LEMMA ChainedSupersedes ==
    ASSUME NEW t, NEW u, NEW n, NEW R, Chained(t),
           n \notin Rows(t), Rows(u) = Rows(t) \cup {n}, u[n].superseded_by = NoId,
           R \subseteq Rows(t),
           \A i \in R : /\ u[i].superseded_by = n
                        /\ t[i].attribute = u[n].attribute /\ t[i].attribute \in SingleValued,
           \A i \in Rows(t) : u[i].attribute = t[i].attribute,
           \A i \in Rows(t) \ R : u[i].superseded_by = t[i].superseded_by
    PROVE  Chained(u)
<1> DEFINE old == {i \in Rows(t) : t[i].superseded_by # NoId}
           new == {i \in Rows(u) : u[i].superseded_by # NoId}
<1>1. new \subseteq old \cup R /\ n \notin new
  OBVIOUS
<1>2. \A i \in old : /\ t[i].superseded_by \in Rows(t)
                     /\ t[t[i].superseded_by].attribute = t[i].attribute
                     /\ t[i].attribute \in SingleValued
  BY DEF Chained
<1>3. \A C \in SUBSET old : C # {} => \E i \in C : t[i].superseded_by \notin C
  BY DEF Chained
<1> HIDE DEF old
<1>4. ASSUME NEW i \in new
      PROVE  /\ u[i].superseded_by \in Rows(u)
             /\ u[u[i].superseded_by].attribute = u[i].attribute
             /\ u[i].attribute \in SingleValued
  <2>1. CASE i \in R
    BY <2>1
  <2>2. CASE i \notin R
    <3>1. i \in old /\ i \in Rows(t) /\ u[i].superseded_by = t[i].superseded_by
      BY <1>1, <2>2
    <3> QED BY <1>2, <3>1
  <2> QED BY <2>1, <2>2
<1>5. ASSUME NEW C \in SUBSET new, C # {}, \A i \in C : u[i].superseded_by \in C
      PROVE  FALSE
  <2>1. C \cap R = {}
    BY <1>1, <1>5
  <2>2. C \in SUBSET old /\ \A i \in C : u[i].superseded_by = t[i].superseded_by
    BY <1>1, <2>1
  <2> QED BY <1>3, <1>5, <2>2
<1> QED BY <1>4, <1>5 DEF Chained

-----------------------------------------------------------------------------
(* The row versions of a transaction. *)

\* What a transaction reads in row i.
LEMMA ViewAt ==
    ASSUME IInv, NEW w \in Workers, NEW i \in Ids
    PROVE  /\ View(w)[i] \in Row \cup {NoRow} /\ mem[i] \in Row \cup {NoRow}
           /\ writes[w][i] \in Row \cup {NoRow}
           /\ writes[w][i] # NoRow => View(w)[i] = writes[w][i]
           /\ writes[w][i] = NoRow => View(w)[i] = mem[i]
BY DEF IInv, TypeOK, StoreTypeOK, View, Table

\* The trails are counters.
LEMMA LogTypes ==
    ASSUME IInv
    PROVE  /\ audit \in [AuditKeys -> Nat]
           /\ \A w \in Workers : /\ pend[w] \in [AuditKeys -> Nat]
                                 /\ PendingLog(w) \in [AuditKeys -> Nat]
BY DEF IInv, TypeOK, StoreTypeOK, PendingLog

\* A live row of a transaction's view that belongs to a summary is a live row of
\* the table and belongs to it there.
LEMMA LiveVersions ==
    ASSUME IInv, HistoryInv, NEW w \in Workers, NEW s \in Live(View(w)),
           View(w)[s].consolidated_into # NoId
    PROVE  s \in Live(mem) /\ mem[s].consolidated_into = View(w)[s].consolidated_into
<1>1. /\ s \in Ids /\ View(w)[s] # NoRow /\ ~View(w)[s].deleted
      /\ View(w)[s].superseded_by = NoId
  BY DEF Live, Undeleted, Rows
<1>2. CASE writes[w][s] = NoRow
  BY <1>1, <1>2, ViewAt DEF Live, Undeleted, Rows
<1>3. CASE writes[w][s] # NoRow
  <2>1. View(w)[s] = writes[w][s]
    BY <1>1, <1>3, ViewAt
  <2>2. mem[s] # NoRow /\ mem[s].consolidated_into = View(w)[s].consolidated_into
        /\ mem[s].superseded_by = NoId
    BY <1>1, <1>3, <2>1 DEF HistoryInv, VersionInv, VersionOf
  <2>3. ~mem[s].deleted
    BY <1>1, <1>3, <2>2 DEF IInv, WritesUndeleted
  <2> QED BY <1>1, <2>2, <2>3 DEF Live, Undeleted, Rows
<1> QED BY <1>2, <1>3

\* Row y shows of its history what row x shows.
SameMarks(y, x) ==
    /\ y \in Row /\ y.attribute = x.attribute /\ y.deleted = x.deleted
    /\ y.superseded_by = x.superseded_by /\ y.stale = x.stale
    /\ y.consolidated_into = x.consolidated_into

\* Rows that show the same have the same trail.
LEMMA MarksTell ==
    ASSUME NEW log, NEW i, NEW x \in Row, NEW y, SameMarks(y, x), TrailTells(log, i, x)
    PROVE  TrailTells(log, i, y)
BY NoRowAssumption DEF TrailTells, SameMarks
-----------------------------------------------------------------------------
(* Governance requests and reflection runs. *)

\* What they do to row i and its trail: nothing, or a change of a row that no
\* capture has written, which the trail tells.
OutsideMarks(i) ==
    \/ mem'[i] = mem[i] /\ \A o \in Marking : audit'[<<o, i>>] = audit[<<o, i>>]
    \/ /\ \A w \in Workers : writes[w][i] = NoRow
       /\ mem'[i] \in Row
       /\ TrailTells(audit', i, mem'[i])
       /\ mem[i] = NoRow => mem'[i].superseded_by = NoId
       /\ mem[i] # NoRow =>
             /\ mem'[i].attribute = mem[i].attribute
             /\ mem'[i].superseded_by = mem[i].superseded_by
             /\ Gone(mem[i]) => Gone(mem'[i])
             /\ mem[i].deleted = TRUE => mem'[i].deleted = TRUE

\* Such steps preserve the invariant, if they look after the summaries.
LEMMA OutsideHistory ==
    ASSUME IInv, HistoryInv, IInv', UNCHANGED <<writes, pend>>,
           \A i \in Ids : OutsideMarks(i), SourceInv', RetiredFreesSources'
    PROVE  HistoryInv'
<1>1. PendInv'
  BY DEF HistoryInv, PendInv, PendOf
<1>2. ASSUME NEW w \in Workers, NEW i \in Ids, writes[w][i] # NoRow
      PROVE  mem'[i] = mem[i] /\ \A o \in Marking : audit'[<<o, i>>] = audit[<<o, i>>]
  BY <1>2 DEF OutsideMarks
<1>3. VersionInv'
  BY <1>2 DEF HistoryInv, VersionInv, VersionOf
<1>4. AuditMatchesTable'
  <2> SUFFICES ASSUME NEW i \in Ids PROVE TrailTells(audit', i, mem'[i])
    BY DEF AuditMatchesTable
  <2>1. TrailTells(audit, i, mem[i])
    BY DEF HistoryInv, AuditMatchesTable
  <2> QED BY <2>1, TellsSame DEF OutsideMarks
<1>5. ASSUME NEW w \in Workers, NEW i \in Ids
      PROVE  \/ /\ writes[w][i] # NoRow /\ View(w)'[i] = View(w)[i]
                /\ View(w)[i] = writes[w][i] /\ mem'[i] = mem[i]
                /\ \A o \in Marking : PendingLog(w)'[<<o, i>>] = PendingLog(w)[<<o, i>>]
             \/ /\ writes[w][i] = NoRow /\ View(w)[i] = mem[i] /\ View(w)'[i] = mem'[i]
                /\ \A o \in Marking : PendingLog(w)'[<<o, i>>] = audit'[<<o, i>>]
  <2>1. \A o \in Marking : <<o, i>> \in AuditKeys
    BY DEF Marking, AuditKeys
  <2>2. CASE writes[w][i] # NoRow
    <3>1. View(w)'[i] = View(w)[i] /\ View(w)[i] = writes[w][i]
      BY <2>2 DEF View
    <3> QED BY <1>2, <2>1, <2>2, <3>1 DEF PendingLog
  <2>3. CASE writes[w][i] = NoRow
    <3>1. View(w)[i] = mem[i] /\ View(w)'[i] = mem'[i]
      BY <2>3 DEF View
    <3>2. \A o \in Marking : pend[w][<<o, i>>] = 0
      BY <2>3 DEF HistoryInv, PendInv, PendOf
    <3>3. \A o \in Marking : audit'[<<o, i>>] \in Nat
      BY <2>1 DEF IInv, TypeOK, StoreTypeOK
    <3>4. \A o \in Marking : PendingLog(w)'[<<o, i>>] = audit'[<<o, i>>] + pend[w][<<o, i>>]
      BY <2>1 DEF PendingLog
    <3> QED BY <2>3, <3>1, <3>2, <3>3, <3>4
  <2> QED BY <2>2, <2>3
<1>6. ViewTrail'
  <2> SUFFICES ASSUME NEW w \in Workers, NEW i \in Ids
               PROVE  TrailTells(PendingLog(w)', i, View(w)'[i])
    BY DEF ViewTrail, TrailOf
  <2>1. TrailTells(PendingLog(w), i, View(w)[i])
    BY DEF HistoryInv, ViewTrail, TrailOf
  <2>2. TrailTells(audit', i, mem'[i])
    BY <1>4 DEF AuditMatchesTable
  <2> QED BY <1>5, <2>1, <2>2, TellsSame
<1>7. StaleInv'
  <2> SUFFICES ASSUME NEW w \in Workers, NEW i \in Live(mem'),
                      writes[w][i] # NoRow, writes[w][i].superseded_by # NoId,
                      writes[w][i].consolidated_into # NoId
               PROVE  Gone(View(w)'[writes[w][i].consolidated_into])
    BY DEF StaleInv, StaleOf
  <2> DEFINE s == writes[w][i].consolidated_into
  <2> SUFFICES Gone(View(w)'[s])
    OBVIOUS
  <2>1. i \in Ids
    BY DEF Live, Undeleted, Rows
  <2>2. i \in Live(mem)
    BY <1>2, <2>1 DEF Live, Undeleted, Rows
  <2>3. Gone(View(w)[s])
    BY <2>2 DEF HistoryInv, StaleInv, StaleOf
  <2>4. s \in Ids
    BY <2>1, ViewAt DEF Row
  <2> HIDE DEF s
  <2>5. CASE writes[w][s] # NoRow
    BY <1>5, <2>3, <2>4, <2>5
  <2>6. CASE writes[w][s] = NoRow
    <3>1. View(w)[s] = mem[s] /\ View(w)'[s] = mem'[s]
      BY <1>5, <2>4, <2>6
    <3>2. mem'[s] = mem[s] \/ (Gone(mem[s]) => Gone(mem'[s]))
      BY <2>3, <2>4, <3>1 DEF OutsideMarks, Gone
    <3> QED BY <2>3, <3>1, <3>2
  <2> QED BY <2>5, <2>6
<1>8. ASSUME NEW t, NEW u, Chained(t),
             \A i \in Ids : \/ u[i] = t[i]
                            \/ OutsideMarks(i) /\ t[i] = mem[i] /\ u[i] = mem'[i]
      PROVE  Chained(u)
  <2>1. \A i \in Ids : \/ u[i] = t[i]
                       \/ t[i] = NoRow /\ u[i] # NoRow /\ u[i].superseded_by = NoId
                       \/ /\ t[i] # NoRow /\ u[i] # NoRow /\ u[i].attribute = t[i].attribute
                          /\ u[i].superseded_by = t[i].superseded_by
    BY <1>8, NoRowAssumption DEF OutsideMarks
  <2>2. /\ Rows(t) \subseteq Rows(u)
        /\ \A i \in Rows(t) : u[i].attribute = t[i].attribute
                              /\ u[i].superseded_by = t[i].superseded_by
        /\ \A i \in Rows(u) \ Rows(t) : u[i].superseded_by = NoId
    BY <2>1 DEF Rows
  <2> QED BY <1>8, <2>2, ChainedGrows
<1>9. SupersessionChain'
  <2>1. Chained(mem)
    BY DEF HistoryInv, SupersessionChain
  <2>2. \A i \in Ids : mem'[i] = mem[i] \/ OutsideMarks(i)
    OBVIOUS
  <2>3. Chained(mem')
    BY <1>8, <2>1, <2>2
  <2> QED BY <2>3 DEF SupersessionChain
<1>10. ViewChains'
  <2> SUFFICES ASSUME NEW w \in Workers PROVE Chained(View(w)')
    BY DEF ViewChains
  <2>1. Chained(View(w))
    BY DEF HistoryInv, ViewChains
  <2>2. \A i \in Ids : \/ View(w)'[i] = View(w)[i]
                       \/ OutsideMarks(i) /\ View(w)[i] = mem[i] /\ View(w)'[i] = mem'[i]
    BY <1>5
  <2> QED BY <1>8, <2>1, <2>2
<1> QED BY <1>1, <1>3, <1>4, <1>6, <1>7, <1>9, <1>10 DEF HistoryInv

\* A row that the step's audit rows explain, and that no capture has written.
LEMMA OutsideRow ==
    ASSUME IInv, HistoryInv, NEW keys, audit' = Log(audit, keys), NEW i \in Ids,
           \A w \in Workers : writes[w][i] = NoRow,
           mem'[i] \in Row, Explains(keys, i, mem[i], mem'[i]),
           mem[i] = NoRow => mem'[i].superseded_by = NoId,
           mem[i] # NoRow => /\ mem'[i].attribute = mem[i].attribute
                             /\ mem'[i].superseded_by = mem[i].superseded_by
    PROVE  OutsideMarks(i)
<1>1. TrailTells(audit, i, mem[i]) /\ mem[i] \in Row \cup {NoRow}
  BY DEF HistoryInv, AuditMatchesTable, IInv, TypeOK, StoreTypeOK, Table
<1>2. TrailTells(audit', i, mem'[i])
  BY <1>1, LogTypes, TellsStep
<1>3. mem[i] # NoRow => /\ Gone(mem[i]) => Gone(mem'[i])
                        /\ mem[i].deleted = TRUE => mem'[i].deleted = TRUE
  BY NoRowAssumption DEF Explains, IsDeleted, IsStale, Gone
<1> QED BY <1>2, <1>3 DEF OutsideMarks

\* A row the step leaves alone.
LEMMA OutsideRest ==
    ASSUME IInv, NEW keys, audit' = Log(audit, keys), NEW i \in Ids,
           mem'[i] = mem[i], \A o \in Marking : <<o, i>> \notin keys
    PROVE  OutsideMarks(i)
<1>1. \A o \in Marking : audit'[<<o, i>>] = audit[<<o, i>>]
  BY LogTypes, LogAt DEF Marking
<1> QED BY <1>1 DEF OutsideMarks

\* A step that moves no row into a summary, frees none and retires none.
LEMMA SummariesRest ==
    ASSUME IInv, HistoryInv,
           \A i \in Ids :
               /\ mem'[i] = NoRow <=> mem[i] = NoRow
               /\ mem[i] # NoRow =>
                     /\ mem'[i].consolidated_into = mem[i].consolidated_into
                     /\ mem'[i].superseded_by = mem[i].superseded_by
                     /\ IsDeleted(mem[i]) => IsDeleted(mem'[i])
               /\ audit'[<<"retired", i>>] = audit[<<"retired", i>>]
    PROVE  SourceInv' /\ RetiredFreesSources'
<1>1. SourceInv'
  <2>1. Rows(mem') = Rows(mem)
    BY DEF Rows
  <2> QED BY <2>1 DEF HistoryInv, SourceInv, Rows
<1>2. \A s \in Live(mem') : s \in Live(mem) /\ mem'[s].consolidated_into = mem[s].consolidated_into
  <2> TAKE s \in Live(mem')
  <2>1. s \in Ids /\ mem'[s] # NoRow /\ ~mem'[s].deleted /\ mem'[s].superseded_by = NoId
    BY DEF Live, Undeleted, Rows
  <2>2. mem[s] # NoRow /\ ~IsDeleted(mem[s]) /\ mem[s].superseded_by = NoId
    BY <2>1 DEF IsDeleted
  <2>3. mem[s] \in Row
    BY <2>1, <2>2 DEF IInv, TypeOK, StoreTypeOK, Table
  <2>4. ~mem[s].deleted
    BY <2>2, <2>3 DEF IsDeleted, Row
  <2> QED BY <2>1, <2>2, <2>4 DEF Live, Undeleted, Rows
<1>3. RetiredFreesSources'
  BY <1>2 DEF HistoryInv, RetiredFreesSources
<1> QED BY <1>1, <1>3

\* A step that leaves the tables alone.
LEMMA StoreRest ==
    ASSUME HistoryInv, UNCHANGED storeVars
    PROVE  HistoryInv'
BY DEF storeVars, HistoryInv, PendInv, PendOf, VersionInv, VersionOf, SourceInv, StaleInv,
   StaleOf, AuditMatchesTable, ViewTrail, TrailOf, SupersessionChain, ViewChains, RetiredFreesSources, View, PendingLog

\* Governance requests preserve the invariant.
LEMMA GovernanceHistory ==
    ASSUME IInv, HistoryInv, IInv', NEW r \in Requests, GovernanceNext(r)
    PROVE  HistoryInv'
<1>0. mem \in Table /\ UNCHANGED writes
  BY GovernanceOutside DEF IInv, TypeOK, StoreTypeOK
<1>1. ASSUME NEW from, NEW to, invalidate_summaries_for(r, from, to)
      PROVE  HistoryInv'
  <2> DEFINE S == StaleTargets(mem, {req[r].id})
             keys == {"stale"} \X S
  <2>1. /\ audit' = Log(audit, keys) /\ UNCHANGED <<writes, pend>>
        /\ \A i \in Ids : mem'[i] = IF i \in S THEN [mem[i] EXCEPT !.stale = TRUE] ELSE mem[i]
        /\ Unlocked(S)
    BY <1>1 DEF invalidate_summaries_for
  <2>2. \A i \in S : i \in Ids /\ mem[i] \in Row /\ ~mem[i].stale /\ ~mem[i].deleted
    BY <1>0, RowType DEF StaleTargets, Undeleted
  <2>3. \A o, i : <<o, i>> \in keys <=> o = "stale" /\ i \in S
    OBVIOUS
  <2> HIDE DEF S, keys
  <2>4. ASSUME NEW i \in S
        PROVE  /\ mem'[i] \in Row /\ mem'[i].stale = TRUE /\ mem[i].stale = FALSE
               /\ mem'[i].attribute = mem[i].attribute /\ mem'[i].deleted = mem[i].deleted
               /\ mem'[i].superseded_by = mem[i].superseded_by
               /\ mem'[i].consolidated_into = mem[i].consolidated_into
    <3>1. mem'[i] = [mem[i] EXCEPT !.stale = TRUE] /\ mem[i] \in Row /\ mem[i].stale = FALSE
      BY <2>1, <2>2 DEF Row
    <3> QED BY <3>1 DEF Row
  <2>5. ASSUME NEW i \in S PROVE OutsideMarks(i)
    <3>1. mem[i] # NoRow /\ mem'[i] # NoRow /\ i \in Ids
      BY <2>2, <2>4, NoRowAssumption
    <3>2. Explains(keys, i, mem[i], mem'[i])
      <4>1. /\ <<"stale", i>> \in keys
            /\ \A o \in Marking \ {"stale"} : <<o, i>> \notin keys
        BY <2>3
      <4>2. /\ IsDeleted(mem'[i]) <=> IsDeleted(mem[i])
            /\ IsSuperseded(mem'[i]) <=> IsSuperseded(mem[i])
            /\ IsConsolidated(mem'[i]) <=> IsConsolidated(mem[i])
            /\ IsStale(mem'[i]) /\ ~IsStale(mem[i])
        BY <2>4, <3>1 DEF IsDeleted, IsStale, IsSuperseded, IsConsolidated
      <4> QED BY <3>1, <4>1, <4>2 DEF Explains, Marking, Outcomes
    <3>3. \A w \in Workers : writes[w][i] = NoRow
      BY <2>1, UnlockedRows
    <3> QED BY <2>1, <2>4, <3>1, <3>2, <3>3, OutsideRow
  <2>6. ASSUME NEW i \in Ids, i \notin S PROVE OutsideMarks(i)
    BY <2>1, <2>3, <2>6, OutsideRest
  <2>7. \A i \in Ids :
           /\ mem'[i] = NoRow <=> mem[i] = NoRow
           /\ mem[i] # NoRow =>
                 /\ mem'[i].consolidated_into = mem[i].consolidated_into
                 /\ mem'[i].superseded_by = mem[i].superseded_by
                 /\ IsDeleted(mem[i]) => IsDeleted(mem'[i])
           /\ audit'[<<"retired", i>>] = audit[<<"retired", i>>]
    <3> TAKE i \in Ids
    <3>1. audit'[<<"retired", i>>] = audit[<<"retired", i>>]
      BY <2>1, <2>3, LogTypes, LogAt DEF Outcomes
    <3> QED BY <2>1, <2>2, <2>4, <3>1, NoRowAssumption DEF IsDeleted
  <2> QED BY <2>1, <2>5, <2>6, <2>7, SummariesRest, OutsideHistory
<1>2. ASSUME NEW outcome \in {"delete", "edit"}, NEW row, Mutate(r, outcome, row),
             req[r].id \in Undeleted(mem) =>
                 /\ row \in Row /\ row.attribute = mem[req[r].id].attribute
                 /\ row.superseded_by = mem[req[r].id].superseded_by
                 /\ row.stale = mem[req[r].id].stale
                 /\ row.consolidated_into = mem[req[r].id].consolidated_into
                 /\ row.deleted = (outcome = "delete")
      PROVE  HistoryInv'
  <2> DEFINE i == req[r].id
             keys == {<<outcome, i>>}
  <2>1. CASE i \in Undeleted(mem)
    <3>1. /\ audit' = Log(audit, keys) /\ UNCHANGED <<writes, pend>> /\ Unlocked({i})
          /\ i \in Ids /\ mem[i] \in Row /\ mem[i].deleted = FALSE
          /\ mem'[i] = row /\ \A j \in Ids \ {i} : mem'[j] = mem[j]
      <4>1. i \in Ids /\ mem[i] \in Row /\ ~mem[i].deleted
        BY <1>0, <2>1, RowType DEF Undeleted
      <4>2. mem' = [mem EXCEPT ![i] = row]
        BY <1>2, <2>1 DEF Mutate
      <4> QED BY <1>0, <1>2, <2>1, <4>1, <4>2 DEF Mutate, Table, Row
    <3>2. \A o, j : <<o, j>> \in keys <=> o = outcome /\ j = i
      OBVIOUS
    <3>3. /\ row \in Row /\ row.attribute = mem[i].attribute
          /\ row.superseded_by = mem[i].superseded_by /\ row.stale = mem[i].stale
          /\ row.consolidated_into = mem[i].consolidated_into
          /\ row.deleted = (outcome = "delete")
      BY <1>2, <2>1
    <3> HIDE DEF i, keys
    <3>4. OutsideMarks(i)
      <4>1. mem[i] # NoRow /\ mem'[i] # NoRow
        BY <3>1, <3>3, NoRowAssumption
      <4>2. Explains(keys, i, mem[i], mem'[i])
        <5>1. /\ \A o \in Marking \ {"delete"} : <<o, i>> \notin keys
              /\ <<"delete", i>> \in keys <=> outcome = "delete"
          BY <1>2, <3>2 DEF Marking
        <5>2. /\ ~IsDeleted(mem[i]) /\ (IsDeleted(mem'[i]) <=> outcome = "delete")
              /\ IsSuperseded(mem'[i]) <=> IsSuperseded(mem[i])
              /\ IsConsolidated(mem'[i]) <=> IsConsolidated(mem[i])
              /\ IsStale(mem'[i]) <=> IsStale(mem[i])
          BY <3>1, <3>3, <4>1 DEF IsDeleted, IsStale, IsSuperseded, IsConsolidated
        <5> QED BY <4>1, <5>1, <5>2 DEF Explains, Marking, Outcomes
      <4>3. \A w \in Workers : writes[w][i] = NoRow
        BY <3>1, UnlockedRows
      <4> QED BY <3>1, <3>3, <4>1, <4>2, <4>3, OutsideRow
    <3>5. ASSUME NEW j \in Ids \ {i} PROVE OutsideMarks(j)
      BY <3>1, <3>2, OutsideRest
    <3>6. \A j \in Ids :
             /\ mem'[j] = NoRow <=> mem[j] = NoRow
             /\ mem[j] # NoRow =>
                   /\ mem'[j].consolidated_into = mem[j].consolidated_into
                   /\ mem'[j].superseded_by = mem[j].superseded_by
                   /\ IsDeleted(mem[j]) => IsDeleted(mem'[j])
             /\ audit'[<<"retired", j>>] = audit[<<"retired", j>>]
      <4> TAKE j \in Ids
      <4>1. audit'[<<"retired", j>>] = audit[<<"retired", j>>]
        BY <1>2, <3>1, <3>2, LogTypes, LogAt DEF Outcomes
      <4> QED BY <3>1, <3>3, <4>1, NoRowAssumption DEF IsDeleted
    <3> QED BY <3>1, <3>4, <3>5, <3>6, SummariesRest, OutsideHistory
  <2>2. CASE i \notin Undeleted(mem)
    BY <1>2, <2>2, StoreRest DEF Mutate, storeVars
  <2> QED BY <2>1, <2>2
<1>3. CASE DeleteCommit(r)
  <2> DEFINE x == mem[req[r].id]
             row == [x EXCEPT !.deleted = TRUE]
  <2>1. req[r].id \in Undeleted(mem) =>
           /\ row \in Row /\ row.attribute = x.attribute /\ row.stale = x.stale
           /\ row.superseded_by = x.superseded_by /\ row.consolidated_into = x.consolidated_into
           /\ row.deleted = TRUE
    <3> HAVE req[r].id \in Undeleted(mem)
    <3>1. x \in Row
      BY <1>0, RowType
    <3> HIDE DEF x
    <3> QED BY <3>1 DEF Row
  <2>2. Mutate(r, "delete", row)
    BY <1>3 DEF DeleteCommit
  <2> HIDE DEF row
  <2> QED BY <1>2, <2>1, <2>2
<1>4. CASE PatchCommit(r)
  <2> DEFINE x == mem[req[r].id]
             row == [x EXCEPT !.asserts = req[r].text]
  <2>1. req[r].id \in Undeleted(mem) =>
           /\ row \in Row /\ row.attribute = x.attribute /\ row.stale = x.stale
           /\ row.superseded_by = x.superseded_by /\ row.consolidated_into = x.consolidated_into
           /\ row.deleted = FALSE
    <3> HAVE req[r].id \in Undeleted(mem)
    <3>1. x \in Row /\ ~x.deleted
      BY <1>0, RowType DEF Undeleted
    <3>2. req[r].text \in SUBSET Facts
      BY DEF IInv, TypeOK, GovernanceTypeOK, Request
    <3> HIDE DEF x
    <3> QED BY <3>1, <3>2 DEF Row
  <2>2. Mutate(r, "edit", row)
    BY <1>4 DEF PatchCommit
  <2> HIDE DEF row
  <2>3. ("edit" = "delete") = FALSE
    OBVIOUS
  <2> QED BY <1>2, <2>1, <2>2, <2>3
<1> QED BY <1>1, <1>3, <1>4, StoreRest
        DEF GovernanceNext, RequestStep, DeleteCheck, PatchCheck, DeleteInvalidate,
            PatchInvalidate, RequestAbort, storeVars

\* rebuild_stale_summaries preserves the invariant: it takes back the consolidation
\* of every live source of what it retires, as captures are locked out of those.
LEMMA RebuildHistory ==
    ASSUME IInv, HistoryInv, IInv', NEW k \in Runs, rebuild_stale_summaries(k)
    PROVE  HistoryInv'
<1>0. mem \in Table
  BY DEF IInv, TypeOK, StoreTypeOK
<1>1. PICK S \in SUBSET StaleSummaries(mem) :
        /\ Unlocked(S \cup FreedSources(mem, S))
        /\ mem' = [i \in Ids |->
              IF i \in S \cup FreedSources(mem, S)
              THEN [mem[i] EXCEPT
                      !.deleted = @ \/ i \in S,
                      !.consolidated_into = IF i \in FreedSources(mem, S) THEN NoId ELSE @]
              ELSE mem[i]]
        /\ audit' = Log(audit, ({"retired"} \X S)
                                 \cup ({"unconsolidated"} \X FreedSources(mem, S)))
  BY DEF rebuild_stale_summaries
<1> DEFINE F == FreedSources(mem, S)
           keys == ({"retired"} \X S) \cup ({"unconsolidated"} \X F)
<1>2. UNCHANGED <<writes, pend>>
  BY DEF rebuild_stale_summaries
<1>3. \A i \in S \cup F : i \in Ids /\ mem[i] \in Row /\ mem[i] # NoRow /\ mem[i].deleted = FALSE
  <2> TAKE i \in S \cup F
  <2>1. i \in Undeleted(mem)
    BY DEF StaleSummaries, FreedSources, Live
  <2>2. i \in Ids /\ mem[i] \in Row /\ ~mem[i].deleted
    BY <1>0, <2>1, RowType DEF Undeleted
  <2> QED BY <2>2, NoRowAssumption DEF Row
<1>4. \A i \in F : mem[i].consolidated_into \in S /\ mem[i].consolidated_into # NoId
  BY MemoriesAssumption DEF FreedSources, StaleSummaries, Undeleted, Rows
<1>5. \A o, i : <<o, i>> \in keys <=> (o = "retired" /\ i \in S) \/ (o = "unconsolidated" /\ i \in F)
  OBVIOUS
<1>6. \A s \in Live(mem) : mem[s].consolidated_into \in S => s \in F
  BY DEF FreedSources
<1>7. /\ \A i \in Ids \ (S \cup F) : mem'[i] = mem[i]
      /\ audit' = Log(audit, keys) /\ Unlocked(S \cup F)
  BY <1>1
<1>8. ASSUME NEW i \in S \cup F
      PROVE  /\ mem'[i] \in Row /\ mem'[i] # NoRow
             /\ mem'[i].deleted = TRUE <=> i \in S
             /\ mem'[i].attribute = mem[i].attribute /\ mem'[i].stale = mem[i].stale
             /\ mem'[i].superseded_by = mem[i].superseded_by
             /\ mem'[i].consolidated_into =
                   IF i \in F THEN NoId ELSE mem[i].consolidated_into
  <2> DEFINE c == IF i \in F THEN NoId ELSE mem[i].consolidated_into
             d == mem[i].deleted \/ i \in S
             x == mem[i]
  <2>1. x \in Row /\ x.deleted = FALSE /\ i \in Ids
    BY <1>3
  <2>2. c \in Ids \cup {NoId} /\ d \in BOOLEAN /\ (d = TRUE <=> i \in S)
    BY <2>1 DEF Row
  <2>3. mem'[i] = [x EXCEPT !.deleted = d, !.consolidated_into = c]
    BY <1>1, <2>1
  <2> DEFINE y == [x EXCEPT !.deleted = d, !.consolidated_into = c]
  <2> HIDE DEF c, d, x, F, keys
  <2>4. y \in Row
    BY <2>1, <2>2, UpdateType, Zenon
  <2>5. /\ y.deleted = d /\ y.attribute = x.attribute /\ y.stale = x.stale
        /\ y.superseded_by = x.superseded_by /\ y.consolidated_into = c
    BY <2>1 DEF Row
  <2> HIDE DEF y
  <2>6. mem'[i] = y
    BY <2>3 DEF y
  <2> QED BY <2>2, <2>4, <2>5, <2>6, NoRowAssumption DEF c, x
<1> HIDE DEF F, keys
<1>9. ASSUME NEW i \in S \cup F PROVE OutsideMarks(i)
  <2>1. Explains(keys, i, mem[i], mem'[i])
    <3>1. /\ \A o \in Marking \ {"retired", "unconsolidated"} : <<o, i>> \notin keys
          /\ <<"retired", i>> \in keys <=> i \in S
          /\ <<"unconsolidated", i>> \in keys <=> i \in F
      BY <1>5
    <3>2. /\ ~IsDeleted(mem[i]) /\ (IsDeleted(mem'[i]) <=> i \in S)
          /\ IsSuperseded(mem'[i]) <=> IsSuperseded(mem[i])
          /\ IsStale(mem'[i]) <=> IsStale(mem[i])
          /\ i \in F => IsConsolidated(mem[i]) /\ ~IsConsolidated(mem'[i])
          /\ i \notin F => (IsConsolidated(mem'[i]) <=> IsConsolidated(mem[i]))
      BY <1>3, <1>4, <1>8 DEF IsDeleted, IsStale, IsSuperseded, IsConsolidated
    <3>3. mem[i] # NoRow /\ mem'[i] # NoRow
      BY <1>3, <1>8
    <3> QED BY <3>1, <3>2, <3>3 DEF Explains, Marking, Outcomes
  <2>2. \A w \in Workers : writes[w][i] = NoRow
    BY <1>7, UnlockedRows
  <2> QED BY <1>3, <1>7, <1>8, <2>1, <2>2, OutsideRow
<1>10. ASSUME NEW i \in Ids \ (S \cup F) PROVE OutsideMarks(i)
  BY <1>5, <1>7, OutsideRest
<1>11. \A i \in Ids : /\ mem'[i] = NoRow <=> mem[i] = NoRow
                      /\ mem[i] # NoRow =>
                            /\ mem'[i].superseded_by = mem[i].superseded_by
                            /\ \/ mem'[i].consolidated_into = mem[i].consolidated_into
                               \/ mem'[i].consolidated_into = NoId
  BY <1>3, <1>7, <1>8
<1>12. SourceInv'
  <2>1. Rows(mem') = Rows(mem)
    BY <1>11 DEF Rows
  <2> QED BY <1>11, <2>1 DEF HistoryInv, SourceInv, Rows
<1>13. RetiredFreesSources'
  <2> SUFFICES ASSUME NEW i \in Ids, audit'[<<"retired", i>>] > 0, NEW s \in Live(mem'),
                      mem'[s].consolidated_into = i
               PROVE  FALSE
    BY DEF RetiredFreesSources
  <2>1. s \in Ids /\ mem'[s] # NoRow /\ ~mem'[s].deleted /\ mem'[s].superseded_by = NoId
    BY DEF Live, Undeleted, Rows
  <2>2. i # NoId
    BY MemoriesAssumption
  <2>3. mem[s].consolidated_into = i /\ mem[s] # NoRow /\ mem[s].superseded_by = NoId
    BY <1>11, <2>1, <2>2
  <2>4. ~mem[s].deleted
    <3>1. CASE s \in S \cup F
      BY <1>3, <3>1
    <3>2. CASE s \notin S \cup F
      BY <1>7, <2>1, <3>2
    <3> QED BY <3>1, <3>2
  <2>5. s \in Live(mem)
    BY <2>1, <2>3, <2>4 DEF Live, Undeleted, Rows
  <2>6. CASE i \in S
    <3>1. s \in F
      BY <1>6, <2>3, <2>5, <2>6
    <3>2. mem'[s].consolidated_into = NoId
      BY <1>8, <3>1
    <3> QED BY <2>2, <3>2
  <2>7. CASE i \notin S
    <3>1. audit'[<<"retired", i>>] = audit[<<"retired", i>>]
      BY <1>5, <1>7, <2>7, LogTypes, LogAt DEF Outcomes
    <3> QED BY <2>3, <2>5, <3>1 DEF HistoryInv, RetiredFreesSources
  <2> QED BY <2>6, <2>7
<1>14. \A i \in Ids : OutsideMarks(i)
  BY <1>9, <1>10
<1> QED BY <1>2, <1>12, <1>13, <1>14, OutsideHistory

\* write_summary preserves the invariant: nobody has retired the summary that is
\* only now inserted.
LEMMA WriteSummaryHistory ==
    ASSUME IInv, HistoryInv, IInv', NEW k \in Runs, write_summary(k)
    PROVE  HistoryInv'
<1> DEFINE C == Consolidated(mem, run[k].cluster)
           n == FreshId
           keys == {<<"insert", n>>} \cup ({"consolidated"} \X C)
           new == NewRow(run[k].texts, NoAttr, "reflection")
<1>0. mem \in Table
  BY DEF IInv, TypeOK, StoreTypeOK
<1>1. /\ Unlocked(C) /\ audit' = Log(audit, keys) /\ UNCHANGED <<writes, pend>>
      /\ \A i \in Ids : mem'[i] = IF i = n THEN new
                                  ELSE IF i \in C THEN [mem[i] EXCEPT !.consolidated_into = n]
                                  ELSE mem[i]
  BY DEF write_summary
<1>2. n \in Ids /\ mem[n] = NoRow /\ \A w \in Workers : writes[w][n] = NoRow
  BY FreshIdType DEF write_summary, FreshIds
<1>3. /\ new \in Row /\ new # NoRow /\ new.deleted = FALSE /\ new.superseded_by = NoId
      /\ new.stale = FALSE /\ new.consolidated_into = NoId
  <2>1. run[k].texts \in SUBSET Facts
    BY DEF IInv, TypeOK, ReflectionTypeOK, Run
  <2>2. new \in Row
    BY <2>1, NewRowType DEF Sources
  <2> QED BY <2>2, NoRowAssumption DEF NewRow
<1>4. \A i \in C : /\ i \in Ids /\ i # n /\ mem[i] \in Row /\ mem[i] # NoRow
                   /\ mem[i].consolidated_into = NoId
  <2> TAKE i \in C
  <2>1. i \in Undeleted(mem) /\ mem[i].consolidated_into = NoId
    BY DEF Consolidated
  <2>2. i \in Ids /\ mem[i] \in Row
    BY <1>0, <2>1, RowType
  <2> QED BY <1>2, <2>1, <2>2, NoRowAssumption
<1>5. \A o, i : <<o, i>> \in keys <=> (o = "insert" /\ i = n) \/ (o = "consolidated" /\ i \in C)
  OBVIOUS
<1> HIDE DEF C, n, keys, new
<1>6. ASSUME NEW i \in C
      PROVE  /\ mem'[i] \in Row /\ mem'[i] # NoRow /\ mem'[i].deleted = mem[i].deleted
             /\ mem'[i].attribute = mem[i].attribute /\ mem'[i].stale = mem[i].stale
             /\ mem'[i].superseded_by = mem[i].superseded_by
             /\ mem'[i].consolidated_into = n
  <2>1. mem'[i] = [mem[i] EXCEPT !.consolidated_into = n] /\ mem[i] \in Row
    BY <1>1, <1>4
  <2>2. mem'[i] \in Row
    BY <1>2, <2>1 DEF Row
  <2> QED BY <2>1, <2>2, NoRowAssumption DEF Row
<1>7. mem'[n] = new /\ \A i \in Ids : i # n /\ i \notin C => mem'[i] = mem[i]
  BY <1>1, <1>2
<1>8. ASSUME NEW i \in C PROVE OutsideMarks(i)
  <2>1. Explains(keys, i, mem[i], mem'[i])
    <3>1. /\ \A o \in Marking \ {"consolidated"} : <<o, i>> \notin keys
          /\ <<"consolidated", i>> \in keys
      BY <1>4, <1>5
    <3>2. /\ IsDeleted(mem'[i]) <=> IsDeleted(mem[i])
          /\ IsSuperseded(mem'[i]) <=> IsSuperseded(mem[i])
          /\ IsStale(mem'[i]) <=> IsStale(mem[i])
          /\ ~IsConsolidated(mem[i]) /\ IsConsolidated(mem'[i])
      BY <1>2, <1>4, <1>6, MemoriesAssumption
         DEF IsDeleted, IsStale, IsSuperseded, IsConsolidated
    <3>3. mem[i] # NoRow /\ mem'[i] # NoRow
      BY <1>4, <1>6
    <3> QED BY <3>1, <3>2, <3>3 DEF Explains, Marking, Outcomes
  <2>2. \A w \in Workers : writes[w][i] = NoRow
    BY <1>1, UnlockedRows
  <2> QED BY <1>1, <1>4, <1>6, <2>1, <2>2, OutsideRow
<1>9. OutsideMarks(n)
  <2>1. Explains(keys, n, mem[n], mem'[n])
    <3>1. /\ \A o \in Marking \ {"insert"} : <<o, n>> \notin keys
          /\ <<"insert", n>> \in keys
      BY <1>4, <1>5
    <3>2. /\ ~IsDeleted(mem'[n]) /\ ~IsDeleted(mem[n])
          /\ ~IsSuperseded(mem'[n]) /\ ~IsSuperseded(mem[n])
          /\ ~IsStale(mem'[n]) /\ ~IsStale(mem[n])
          /\ ~IsConsolidated(mem'[n]) /\ ~IsConsolidated(mem[n])
      BY <1>2, <1>3, <1>7 DEF IsDeleted, IsStale, IsSuperseded, IsConsolidated
    <3> QED BY <1>2, <1>3, <1>7, <3>1, <3>2 DEF Explains, Marking, Outcomes
  <2> QED BY <1>1, <1>2, <1>3, <1>7, <2>1, OutsideRow
<1>10. \A i \in Ids : OutsideMarks(i)
  <2>1. ASSUME NEW i \in Ids, i # n, i \notin C PROVE OutsideMarks(i)
    BY <1>1, <1>5, <1>7, <2>1, OutsideRest
  <2> QED BY <1>8, <1>9, <2>1
<1>11. Rows(mem) \subseteq Rows(mem') /\ n \in Rows(mem')
  BY <1>2, <1>3, <1>6, <1>7 DEF Rows
<1>12. \A i \in Rows(mem') : \/ mem'[i].consolidated_into \in {NoId, n}
                             \/ i \in Rows(mem) /\ mem'[i].consolidated_into = mem[i].consolidated_into
  BY <1>3, <1>6, <1>7 DEF Rows
<1>13. SourceInv'
  BY <1>11, <1>12 DEF HistoryInv, SourceInv
<1>14. RetiredFreesSources'
  <2> SUFFICES ASSUME NEW i \in Ids, audit'[<<"retired", i>>] > 0, NEW s \in Live(mem'),
                      mem'[s].consolidated_into = i
               PROVE  FALSE
    BY DEF RetiredFreesSources
  <2>1. i # NoId /\ audit[<<"retired", i>>] > 0
    BY <1>1, <1>5, MemoriesAssumption, LogTypes, LogAt DEF Outcomes
  <2>2. i # n
    <3>1. TrailTells(audit, n, mem[n]) /\ audit[<<"delete", n>>] \in Nat
          /\ audit[<<"retired", n>>] \in Nat
      BY <1>2, LogTypes DEF HistoryInv, AuditMatchesTable, AuditKeys, Outcomes
    <3>2. audit[<<"retired", n>>] = 0
      BY <1>2, <3>1 DEF TrailTells
    <3> QED BY <2>1, <3>2
  <2>3. s \in Ids /\ mem'[s] # NoRow /\ ~mem'[s].deleted /\ mem'[s].superseded_by = NoId
    BY DEF Live, Undeleted, Rows
  <2>4. s # n /\ s \notin C
    BY <1>3, <1>6, <1>7, <2>1, <2>2
  <2>5. mem[s] = mem'[s]
    BY <1>7, <2>3, <2>4
  <2>6. s \in Live(mem)
    BY <2>3, <2>5 DEF Live, Undeleted, Rows
  <2> QED BY <2>1, <2>5, <2>6 DEF HistoryInv, RetiredFreesSources
<1> QED BY <1>1, <1>10, <1>13, <1>14, OutsideHistory

\* Reflection runs preserve the invariant.
LEMMA ReflectionHistory ==
    ASSUME IInv, HistoryInv, IInv', NEW k \in Runs, ReflectionNext(k)
    PROVE  HistoryInv'
BY RebuildHistory, WriteSummaryHistory, StoreRest
   DEF ReflectionNext, ReflectionStep, ReflectionScheduled, ReflectionForSubject,
       SelectCluster, NoCluster, ReflectionAbort
-----------------------------------------------------------------------------
(* Captures. *)

\* The candidate a transaction works on, and the rows that inserting it supersedes
\* and marks stale.
Current(w) == Head(tx[w].todo)
Retired(w) ==
    IF is_single_valued(SlotOf(Current(w)))
    THEN SlotRetires(View(w), SlotOf(Current(w)), FreshId) ELSE {}
Staled(w) == StaleTargets(View(w), Retired(w))
InsertKeys(w) ==
    {<<"insert", FreshId>>} \cup ({"superseded"} \X Retired(w)) \cup ({"stale"} \X Staled(w))

\* The rows an insertion touches, in the view from which the statements work.
LEMMA InsertRows ==
    ASSUME IInv, NEW w \in Workers, CaptureInsert(w)
    PROVE  /\ FreshId \in Ids /\ mem[FreshId] = NoRow /\ View(w)[FreshId] = NoRow
           /\ writes[w][FreshId] = NoRow
           /\ \A i \in Retired(w) \cup Staled(w) :
                 /\ i \in Ids /\ i # FreshId /\ View(w)[i] \in Row /\ View(w)[i] # NoRow
                 /\ View(w)[i].deleted = FALSE
           /\ \A i \in Retired(w) : /\ View(w)[i].superseded_by = NoId
                                    /\ View(w)[i].attribute = SlotOf(Current(w))
                                    /\ SlotOf(Current(w)) \in SingleValued
           /\ \A i \in Staled(w) : View(w)[i].stale = FALSE
           /\ \A i \in Retired(w) : \A s \in Ids :
                 View(w)[i].consolidated_into = s /\ View(w)[s] # NoRow =>
                     s \in Staled(w) \/ Gone(View(w)[s])
<1>0. View(w) \in Table
  BY ViewType DEF IInv
<1>1. FreshId \in Ids /\ FreshId \in FreshIds
  BY FreshIdType DEF CaptureInsert
<1>2. mem[FreshId] = NoRow /\ writes[w][FreshId] = NoRow /\ View(w)[FreshId] = NoRow
  BY <1>1 DEF FreshIds, View
<1>3. Retired(w) \subseteq Live(View(w)) /\ Staled(w) \subseteq Undeleted(View(w))
  BY DEF Retired, Staled, SlotRetires, StaleTargets
<1>4. ASSUME NEW i \in Retired(w) \cup Staled(w)
      PROVE  /\ i \in Ids /\ i # FreshId /\ View(w)[i] \in Row /\ View(w)[i] # NoRow
             /\ View(w)[i].deleted = FALSE
  <2>1. i \in Undeleted(View(w))
    BY <1>3 DEF Live
  <2>2. i \in Ids /\ View(w)[i] \in Row /\ View(w)[i] # NoRow /\ ~View(w)[i].deleted
    BY <1>0, <2>1, RowType DEF Undeleted, Rows
  <2>3. View(w)[i].deleted = FALSE
    BY <2>2 DEF Row
  <2> QED BY <1>2, <2>2, <2>3
<1>5. \A i \in Retired(w) : /\ View(w)[i].superseded_by = NoId
                            /\ View(w)[i].attribute = SlotOf(Current(w))
                            /\ SlotOf(Current(w)) \in SingleValued
  BY DEF Retired, SlotRetires, Live, is_single_valued
<1>6. \A i \in Staled(w) : View(w)[i].stale = FALSE
  <2> TAKE i \in Staled(w)
  <2>1. ~View(w)[i].stale
    BY DEF Staled, StaleTargets
  <2> QED BY <1>4, <2>1 DEF Row
<1>7. ASSUME NEW i \in Retired(w), NEW s \in Ids,
             View(w)[i].consolidated_into = s, View(w)[s] # NoRow, s \notin Staled(w)
      PROVE  Gone(View(w)[s])
  <2>1. View(w)[s] \in Row
    BY <1>0, <1>7 DEF Table
  <2>2. s \notin Undeleted(View(w)) \/ View(w)[s].stale
    BY <1>7 DEF Staled, StaleTargets
  <2>3. View(w)[s].deleted \/ View(w)[s].stale
    BY <1>7, <2>2 DEF Undeleted, Rows
  <2> QED BY <1>7, <2>1, <2>3 DEF Gone, Row
<1> QED BY <1>1, <1>2, <1>4, <1>5, <1>6, <1>7

\* What insert_memory, supersede_slot and mark_summary_stale leave in the view.
LEMMA InsertEffect ==
    ASSUME IInv, NEW w \in Workers, CaptureInsert(w)
    PROVE  /\ UNCHANGED <<mem, audit>>
           /\ \A v \in Workers \ {w} : writes'[v] = writes[v] /\ pend'[v] = pend[v]
           /\ pend'[w] = Log(pend[w], InsertKeys(w))
           /\ writes'[w][FreshId] # NoRow /\ View(w)'[FreshId] = writes'[w][FreshId]
           /\ writes'[w][FreshId] \in Row
           /\ writes'[w][FreshId].attribute = SlotOf(Current(w))
           /\ writes'[w][FreshId].deleted = FALSE /\ writes'[w][FreshId].stale = FALSE
           /\ writes'[w][FreshId].superseded_by = NoId
           /\ writes'[w][FreshId].consolidated_into = NoId
           /\ \A i \in Retired(w) \cup Staled(w) :
                 /\ writes'[w][i] # NoRow /\ View(w)'[i] = writes'[w][i] /\ writes'[w][i] \in Row
                 /\ writes'[w][i].attribute = View(w)[i].attribute
                 /\ writes'[w][i].deleted = View(w)[i].deleted
                 /\ writes'[w][i].consolidated_into = View(w)[i].consolidated_into
                 /\ writes'[w][i].superseded_by =
                       IF i \in Retired(w) THEN FreshId ELSE View(w)[i].superseded_by
                 /\ writes'[w][i].stale = TRUE <=> View(w)[i].stale = TRUE \/ i \in Staled(w)
           /\ \A i \in Ids : i # FreshId /\ i \notin Retired(w) \cup Staled(w) =>
                 writes'[w][i] = writes[w][i] /\ View(w)'[i] = View(w)[i]
<1> DEFINE c == Current(w)
           n == FreshId
           new == NewRow({c.text}, SlotOf(c), c.source)
           after == Superseded(View(w), Retired(w), Staled(w), n)
<1>0. writes \in [Workers -> Table] /\ pend \in [Workers -> [AuditKeys -> Nat]]
  BY DEF IInv, TypeOK, StoreTypeOK
<1>1. /\ UNCHANGED <<mem, audit>>
      /\ writes' = [writes EXCEPT ![w] =
            [i \in Ids |-> IF i = n THEN new
                           ELSE IF after[i] # NoRow THEN after[i] ELSE writes[w][i]]]
      /\ pend' = [pend EXCEPT ![w] = Log(@, InsertKeys(w))]
  BY DEF CaptureInsert, Current, Retired, Staled, InsertKeys
<1>2. /\ new \in Row /\ new # NoRow /\ new.attribute = SlotOf(c) /\ new.deleted = FALSE
      /\ new.stale = FALSE /\ new.superseded_by = NoId /\ new.consolidated_into = NoId
  <2>1. c \in Candidate
    BY HeadTail DEF IInv, TypeOK, CaptureTypeOK, LockInv, CaptureInsert, Tx, Current
  <2>2. {c.text} \in SUBSET Facts /\ c.source \in Sources /\ SlotOf(c) \in Attributes \cup {NoAttr}
    BY <2>1 DEF Candidate, Sources, SlotOf
  <2> HIDE DEF c
  <2>3. new \in Row
    BY <2>2, NewRowType
  <2> QED BY <2>3, NoRowAssumption DEF NewRow
<1>3. ASSUME NEW i \in Retired(w) \cup Staled(w)
      PROVE  /\ after[i] \in Row /\ after[i] # NoRow
             /\ after[i].attribute = View(w)[i].attribute
             /\ after[i].deleted = View(w)[i].deleted
             /\ after[i].consolidated_into = View(w)[i].consolidated_into
             /\ after[i].superseded_by = IF i \in Retired(w) THEN n ELSE View(w)[i].superseded_by
             /\ after[i].stale = TRUE <=> View(w)[i].stale = TRUE \/ i \in Staled(w)
  <2> DEFINE x == View(w)[i]
             p == IF i \in Retired(w) THEN n ELSE x.superseded_by
             b == x.stale \/ i \in Staled(w)
             y == [x EXCEPT !.superseded_by = p, !.stale = b]
  <2>1. x \in Row /\ i \in Ids /\ n \in Ids
    BY InsertRows
  <2>2. p \in Ids \cup {NoId} /\ b \in BOOLEAN /\ (b = TRUE <=> x.stale = TRUE \/ i \in Staled(w))
    BY <2>1 DEF Row
  <2>3. after[i] = y
    BY <2>1 DEF Superseded
  <2> HIDE DEF x, p, b, after, n
  <2>4. y \in Row
    BY <2>1, <2>2, UpdateType, Zenon
  <2>5. /\ y.attribute = x.attribute /\ y.deleted = x.deleted /\ y.stale = b
        /\ y.consolidated_into = x.consolidated_into /\ y.superseded_by = p
    BY <2>1 DEF Row
  <2> HIDE DEF y
  <2> QED BY <2>2, <2>3, <2>4, <2>5, NoRowAssumption DEF x, p
<1>4. \A i \in Ids : i \notin Retired(w) \cup Staled(w) => after[i] = NoRow
  BY DEF Superseded
<1> HIDE DEF new, after, n
<1>5. n \in Ids /\ \A i \in Retired(w) \cup Staled(w) : i \in Ids /\ i # n
  BY InsertRows DEF n
<1>6. /\ writes'[w][n] = new
      /\ \A i \in Retired(w) \cup Staled(w) : writes'[w][i] = after[i]
      /\ \A i \in Ids : i # n /\ i \notin Retired(w) \cup Staled(w) => writes'[w][i] = writes[w][i]
      /\ \A v \in Workers \ {w} : writes'[v] = writes[v] /\ pend'[v] = pend[v]
      /\ pend'[w] = Log(pend[w], InsertKeys(w))
  BY <1>0, <1>1, <1>3, <1>4, <1>5
<1>7. /\ View(w)'[n] = new
      /\ \A i \in Retired(w) \cup Staled(w) : View(w)'[i] = after[i]
      /\ \A i \in Ids : i # n /\ i \notin Retired(w) \cup Staled(w) => View(w)'[i] = View(w)[i]
  <2>1. \A i \in Ids : View(w)'[i] = IF writes'[w][i] # NoRow THEN writes'[w][i] ELSE mem[i]
    BY <1>1 DEF View
  <2>2. View(w)'[n] = new
    BY <1>2, <1>5, <1>6, <2>1
  <2>3. \A i \in Retired(w) \cup Staled(w) : View(w)'[i] = after[i]
    <3> TAKE i \in Retired(w) \cup Staled(w)
    <3>1. i \in Ids /\ writes'[w][i] = after[i]
      BY <1>5, <1>6
    <3>2. after[i] # NoRow
      BY <1>3
    <3> QED BY <2>1, <3>1, <3>2
  <2>4. \A i \in Ids : i # n /\ i \notin Retired(w) \cup Staled(w) => View(w)'[i] = View(w)[i]
    BY <1>6, <2>1 DEF View
  <2> QED BY <2>2, <2>3, <2>4
<1>8. /\ writes'[w][n] # NoRow /\ View(w)'[n] = writes'[w][n] /\ writes'[w][n] \in Row
      /\ writes'[w][n].attribute = SlotOf(Current(w))
      /\ writes'[w][n].deleted = FALSE /\ writes'[w][n].stale = FALSE
      /\ writes'[w][n].superseded_by = NoId /\ writes'[w][n].consolidated_into = NoId
  BY <1>2, <1>6, <1>7
<1>9. ASSUME NEW i \in Retired(w) \cup Staled(w)
      PROVE  /\ writes'[w][i] # NoRow /\ View(w)'[i] = writes'[w][i] /\ writes'[w][i] \in Row
             /\ writes'[w][i].attribute = View(w)[i].attribute
             /\ writes'[w][i].deleted = View(w)[i].deleted
             /\ writes'[w][i].consolidated_into = View(w)[i].consolidated_into
             /\ writes'[w][i].superseded_by =
                   IF i \in Retired(w) THEN n ELSE View(w)[i].superseded_by
             /\ writes'[w][i].stale = TRUE <=> View(w)[i].stale = TRUE \/ i \in Staled(w)
  <2>1. writes'[w][i] = after[i] /\ View(w)'[i] = after[i]
    BY <1>6, <1>7
  <2> QED BY <1>3, <2>1
<1>10. \A i \in Ids : i # n /\ i \notin Retired(w) \cup Staled(w) =>
          writes'[w][i] = writes[w][i] /\ View(w)'[i] = View(w)[i]
  BY <1>6, <1>7
<1> QED BY <1>1, <1>6, <1>8, <1>9, <1>10 DEF n

\* A step that only adds to the uncommitted work of transaction w.
LEMMA OwnHistory ==
    ASSUME HistoryInv, NEW w \in Workers, UNCHANGED <<mem, audit>>,
           \A v \in Workers \ {w} : writes'[v] = writes[v] /\ pend'[v] = pend[v],
           PendOf(w)', VersionOf(w)', StaleOf(w)', TrailOf(w)', Chained(View(w)')
    PROVE  HistoryInv'
<1>1. \A v \in Workers \ {w} : View(v)' = View(v) /\ PendingLog(v)' = PendingLog(v)
  BY DEF View, PendingLog
<1>2. PendInv' /\ VersionInv'
  BY DEF HistoryInv, PendInv, PendOf, VersionInv, VersionOf
<1>3. StaleInv'
  BY <1>1 DEF HistoryInv, StaleInv, StaleOf
<1>4. ViewTrail' /\ ViewChains'
  BY <1>1 DEF HistoryInv, ViewTrail, TrailOf, ViewChains
<1>5. SourceInv' /\ AuditMatchesTable' /\ SupersessionChain' /\ RetiredFreesSources'
  BY DEF HistoryInv, SourceInv, AuditMatchesTable, SupersessionChain, RetiredFreesSources
<1> QED BY <1>2, <1>3, <1>4, <1>5 DEF HistoryInv

\* The pending trail grows with the uncommitted audit rows.
LEMMA PendingGrows ==
    ASSUME IInv, NEW w \in Workers, NEW keys, UNCHANGED audit, pend'[w] = Log(pend[w], keys)
    PROVE  PendingLog(w)' = Log(PendingLog(w), keys)
<1>1. \A k \in AuditKeys : audit[k] \in Nat /\ pend[w][k] \in Nat
  BY LogTypes
<1> QED BY <1>1 DEF PendingLog, Log

\* reinforce preserves the invariant: it changes no mark, and its audit row, written
\* whether or not a row was found, is about none.
LEMMA ReinforceHistory ==
    ASSUME IInv, HistoryInv, NEW w \in Workers, CaptureReinforce(w)
    PROVE  HistoryInv'
<1> DEFINE m == tx[w].match
           V == View(w)
           x == [V[m] EXCEPT !.reinforced = @ + 1]
           keys == {<<"reinforce", m>>}
<1>0. /\ writes \in [Workers -> Table] /\ pend \in [Workers -> [AuditKeys -> Nat]]
      /\ V \in Table /\ m \in Ids
  BY ViewType DEF IInv, TypeOK, StoreTypeOK, CaptureTypeOK, Tx, CaptureReinforce
<1>1. /\ UNCHANGED <<mem, audit>> /\ pend'[w] = Log(pend[w], keys)
      /\ \A v \in Workers \ {w} : pend'[v] = pend[v]
  BY <1>0 DEF CaptureReinforce
<1>2. m \in Undeleted(V) => SameMarks(x, V[m]) /\ x # NoRow /\ V[m] \in Row
  <2> HAVE m \in Undeleted(V)
  <2>1. V[m] \in Row
    BY <1>0, RowType
  <2> HIDE DEF V, m
  <2>2. SameMarks(x, V[m])
    BY <2>1 DEF SameMarks, Row
  <2> HIDE DEF x
  <2> QED BY <2>1, <2>2, NoRowAssumption DEF SameMarks
<1>3. /\ m \in Undeleted(V) => writes'[w] = [writes[w] EXCEPT ![m] = x]
      /\ m \notin Undeleted(V) => writes'[w] = writes[w]
      /\ \A v \in Workers \ {w} : writes'[v] = writes[v]
  BY <1>0 DEF CaptureReinforce, reinforce
<1> HIDE DEF x
<1>4. \A i \in Ids :
         \/ writes'[w][i] = writes[w][i] /\ View(w)'[i] = V[i]
         \/ /\ i \in Undeleted(V) /\ V[i] \in Row /\ SameMarks(writes'[w][i], V[i])
            /\ writes'[w][i] # NoRow /\ View(w)'[i] = writes'[w][i]
  <2> TAKE i \in Ids
  <2>1. CASE m \in Undeleted(V) /\ i = m
    <3>1. writes'[w][i] = x
      BY <1>0, <1>3, <2>1 DEF Table
    <3>2. View(w)'[i] = writes'[w][i]
      BY <1>2, <2>1, <3>1 DEF View
    <3> QED BY <1>2, <2>1, <3>1, <3>2
  <2>2. CASE ~(m \in Undeleted(V) /\ i = m)
    <3>1. writes'[w][i] = writes[w][i]
      BY <1>0, <1>3, <2>2 DEF Table
    <3> QED BY <1>1, <3>1 DEF View
  <2> QED BY <2>1, <2>2
<1>5. \A o \in Marking : \A i \in Ids : /\ <<o, i>> \in AuditKeys /\ o \in Outcomes
                                        /\ <<o, i>> \notin keys
  BY DEF Marking, AuditKeys
<1>6. \A o \in Marking : \A i \in Ids : /\ pend'[w][<<o, i>>] = pend[w][<<o, i>>]
                                        /\ PendingLog(w)'[<<o, i>>] = PendingLog(w)[<<o, i>>]
  <2>1. PendingLog(w)' = Log(PendingLog(w), keys)
    BY <1>1, PendingGrows
  <2>2. pend[w] \in [AuditKeys -> Nat] /\ PendingLog(w) \in [AuditKeys -> Nat]
    BY LogTypes
  <2> TAKE o \in Marking
  <2> TAKE i \in Ids
  <2>3. o \in Outcomes /\ <<o, i>> \notin keys
    BY <1>5
  <2> HIDE DEF keys, m
  <2>4. Log(pend[w], keys)[<<o, i>>] = pend[w][<<o, i>>]
    BY <2>2, <2>3, LogAt
  <2>5. Log(PendingLog(w), keys)[<<o, i>>] = PendingLog(w)[<<o, i>>]
    BY <2>2, <2>3, LogAt
  <2> QED BY <1>1, <2>1, <2>4, <2>5
<1>7. PendOf(w)'
  BY <1>4, <1>6 DEF HistoryInv, PendInv, PendOf
<1>8. VersionOf(w)'
  <2> SUFFICES ASSUME NEW i \in Ids, writes'[w][i] # NoRow
               PROVE  /\ writes'[w][i].deleted = FALSE
                      /\ mem[i] = NoRow => writes'[w][i].consolidated_into = NoId
                      /\ mem[i] # NoRow =>
                            /\ writes'[w][i].consolidated_into = mem[i].consolidated_into
                            /\ mem[i].superseded_by # NoId =>
                                  writes'[w][i].superseded_by = mem[i].superseded_by
    BY <1>1 DEF VersionOf
  <2>1. CASE writes'[w][i] = writes[w][i]
    BY <2>1 DEF HistoryInv, VersionInv, VersionOf
  <2>2. CASE i \in Undeleted(V) /\ V[i] \in Row /\ SameMarks(writes'[w][i], V[i])
    <3>1. V[i].deleted = FALSE
      BY <2>2 DEF Undeleted, Row
    <3>2. CASE writes[w][i] # NoRow
      <4>1. V[i] = writes[w][i]
        BY <3>2, ViewAt
      <4> QED BY <2>2, <3>1, <3>2, <4>1 DEF HistoryInv, VersionInv, VersionOf, SameMarks
    <3>3. CASE writes[w][i] = NoRow
      <4>1. V[i] = mem[i]
        BY <3>3, ViewAt
      <4> QED BY <2>2, <3>1, <4>1, NoRowAssumption DEF SameMarks
    <3> QED BY <3>2, <3>3
  <2> QED BY <1>4, <2>1, <2>2
<1>9. \A i \in Ids : Gone(V[i]) => Gone(View(w)'[i])
  BY <1>4 DEF Gone, SameMarks
<1>10. StaleOf(w)'
  <2> SUFFICES ASSUME NEW i \in Live(mem), writes'[w][i] # NoRow,
                      writes'[w][i].superseded_by # NoId,
                      writes'[w][i].consolidated_into # NoId
               PROVE  Gone(View(w)'[writes'[w][i].consolidated_into])
    BY <1>1 DEF StaleOf
  <2>1. i \in Ids /\ mem[i].superseded_by = NoId
    BY DEF Live, Undeleted, Rows
  <2>2. /\ writes[w][i] # NoRow
        /\ writes[w][i].superseded_by = writes'[w][i].superseded_by
        /\ writes[w][i].consolidated_into = writes'[w][i].consolidated_into
    <3>1. CASE writes'[w][i] = writes[w][i]
      BY <3>1
    <3>2. CASE SameMarks(writes'[w][i], V[i])
      <4>1. V[i].superseded_by # NoId
        BY <3>2 DEF SameMarks
      <4>2. writes[w][i] # NoRow /\ V[i] = writes[w][i]
        BY <2>1, <4>1, ViewAt
      <4> QED BY <3>2, <4>2 DEF SameMarks
    <3> QED BY <1>4, <2>1, <3>1, <3>2
  <2>3. writes[w][i].consolidated_into \in Ids
    BY <2>1, <2>2, ViewAt DEF Row
  <2>4. Gone(V[writes[w][i].consolidated_into])
    BY <2>2 DEF HistoryInv, StaleInv, StaleOf
  <2> QED BY <1>9, <2>2, <2>3, <2>4
<1>11. TrailOf(w)'
  <2> SUFFICES ASSUME NEW i \in Ids PROVE TrailTells(PendingLog(w)', i, View(w)'[i])
    BY DEF TrailOf
  <2>1. TrailTells(PendingLog(w), i, V[i])
    BY DEF HistoryInv, ViewTrail, TrailOf
  <2>2. TrailTells(PendingLog(w)', i, V[i])
    BY <1>6, <2>1, TellsSame
  <2> QED BY <1>4, <2>2, MarksTell
<1>12. Chained(View(w)')
  <2>1. /\ Rows(V) = Rows(View(w)')
        /\ \A i \in Rows(V) : View(w)'[i].attribute = V[i].attribute
                              /\ View(w)'[i].superseded_by = V[i].superseded_by
    BY <1>4, NoRowAssumption DEF Rows, SameMarks
  <2>2. Chained(V)
    BY DEF HistoryInv, ViewChains
  <2> HIDE DEF V
  <2> QED BY <2>1, <2>2, ChainedGrows
<1> QED BY <1>1, <1>3, <1>7, <1>8, <1>10, <1>11, <1>12, OwnHistory

\* Inserting and superseding preserve the invariant.
LEMMA InsertHistory ==
    ASSUME IInv, HistoryInv, NEW w \in Workers, CaptureInsert(w)
    PROVE  HistoryInv'
<1> DEFINE n == FreshId
           R == Retired(w)
           T == Staled(w)
           V == View(w)
           U == View(w)'
           keys == InsertKeys(w)
<1>1. \A o, i : <<o, i>> \in keys <=> \/ o = "insert" /\ i = n
                                      \/ o = "superseded" /\ i \in R
                                      \/ o = "stale" /\ i \in T
  BY DEF InsertKeys
<1>2. /\ n \in Ids /\ mem[n] = NoRow /\ V[n] = NoRow /\ writes[w][n] = NoRow /\ n # NoId
      /\ \A i \in R \cup T : /\ i \in Ids /\ i # n /\ V[i] \in Row /\ V[i] # NoRow
                             /\ V[i].deleted = FALSE
      /\ \A i \in R : /\ V[i].superseded_by = NoId /\ V[i].attribute = SlotOf(Current(w))
                      /\ SlotOf(Current(w)) \in SingleValued
      /\ \A i \in T : V[i].stale = FALSE
      /\ \A i \in R : \A s \in Ids :
            V[i].consolidated_into = s /\ V[s] # NoRow => s \in T \/ Gone(V[s])
  BY InsertRows, MemoriesAssumption
<1>3. /\ UNCHANGED <<mem, audit>>
      /\ \A v \in Workers \ {w} : writes'[v] = writes[v] /\ pend'[v] = pend[v]
      /\ pend'[w] = Log(pend[w], keys)
  BY InsertEffect
<1>4. /\ writes'[w][n] # NoRow /\ U[n] = writes'[w][n] /\ writes'[w][n] \in Row
      /\ writes'[w][n].attribute = SlotOf(Current(w))
      /\ writes'[w][n].deleted = FALSE /\ writes'[w][n].stale = FALSE
      /\ writes'[w][n].superseded_by = NoId /\ writes'[w][n].consolidated_into = NoId
  BY InsertEffect
<1>5. \A i \in R \cup T :
         /\ writes'[w][i] # NoRow /\ U[i] = writes'[w][i] /\ writes'[w][i] \in Row
         /\ writes'[w][i].attribute = V[i].attribute
         /\ writes'[w][i].deleted = V[i].deleted
         /\ writes'[w][i].consolidated_into = V[i].consolidated_into
         /\ writes'[w][i].superseded_by = IF i \in R THEN n ELSE V[i].superseded_by
         /\ writes'[w][i].stale = TRUE <=> V[i].stale = TRUE \/ i \in T
  BY InsertEffect
<1>6. \A i \in Ids : i # n /\ i \notin R \cup T => writes'[w][i] = writes[w][i] /\ U[i] = V[i]
  BY InsertEffect
<1>7. PendingLog(w)' = Log(PendingLog(w), keys)
  BY <1>3, PendingGrows
<1> HIDE DEF n, R, T, V, U, keys
<1>8. PendOf(w)'
  <2> SUFFICES ASSUME NEW i \in Ids, NEW o \in Marking, o \notin Captured \/ writes'[w][i] = NoRow
               PROVE  pend'[w][<<o, i>>] = 0
    BY DEF PendOf
  <2>1. <<o, i>> \notin keys
    BY <1>1, <1>4, <1>5 DEF Captured
  <2>2. pend[w][<<o, i>>] = 0
    <3>1. o \notin Captured \/ writes[w][i] = NoRow
      BY <1>4, <1>5, <1>6
    <3> QED BY <3>1 DEF HistoryInv, PendInv, PendOf
  <2>3. o \in Outcomes
    BY DEF Marking
  <2> QED BY <1>3, <2>1, <2>2, <2>3, LogTypes, LogAt
<1>9. VersionOf(w)'
  <2> SUFFICES ASSUME NEW i \in Ids, writes'[w][i] # NoRow
               PROVE  /\ writes'[w][i].deleted = FALSE
                      /\ mem[i] = NoRow => writes'[w][i].consolidated_into = NoId
                      /\ mem[i] # NoRow =>
                            /\ writes'[w][i].consolidated_into = mem[i].consolidated_into
                            /\ mem[i].superseded_by # NoId =>
                                  writes'[w][i].superseded_by = mem[i].superseded_by
    BY <1>3 DEF VersionOf
  <2>1. CASE i = n
    BY <1>2, <1>4, <2>1
  <2>2. CASE i \in R \cup T
    <3>1. /\ writes'[w][i].deleted = FALSE
          /\ writes'[w][i].consolidated_into = V[i].consolidated_into
          /\ V[i].superseded_by # NoId => writes'[w][i].superseded_by = V[i].superseded_by
      BY <1>2, <1>5, <2>2
    <3>2. CASE writes[w][i] # NoRow
      <4>1. V[i] = writes[w][i]
        BY <3>2, ViewAt DEF V
      <4> QED BY <3>1, <3>2, <4>1 DEF HistoryInv, VersionInv, VersionOf
    <3>3. CASE writes[w][i] = NoRow
      <4>1. V[i] = mem[i] /\ V[i] # NoRow
        BY <1>2, <2>2, <3>3, ViewAt DEF V
      <4> QED BY <3>1, <4>1
    <3> QED BY <3>2, <3>3
  <2>3. CASE i # n /\ i \notin R \cup T
    <3>1. writes'[w][i] = writes[w][i]
      BY <1>6, <2>3
    <3> QED BY <3>1 DEF HistoryInv, VersionInv, VersionOf
  <2> QED BY <2>1, <2>2, <2>3
<1>10. \A i \in Ids : Gone(V[i]) => Gone(U[i])
  BY <1>2, <1>5, <1>6 DEF Gone
<1>11. StaleOf(w)'
  <2> SUFFICES ASSUME NEW i \in Live(mem), writes'[w][i] # NoRow,
                      writes'[w][i].superseded_by # NoId,
                      writes'[w][i].consolidated_into # NoId
               PROVE  Gone(U[writes'[w][i].consolidated_into])
    BY <1>3 DEF StaleOf, U
  <2>1. i \in Ids /\ mem[i] # NoRow /\ mem[i].superseded_by = NoId /\ i # n
    BY <1>2 DEF Live, Undeleted, Rows
  <2> DEFINE s == writes'[w][i].consolidated_into
  <2>2. CASE i \in R
    <3>1. s = V[i].consolidated_into
      BY <1>5, <2>2
    <3>2. s = mem[i].consolidated_into
      BY <2>1, <3>1, ViewAt DEF V, HistoryInv, VersionInv, VersionOf
    <3>3. s \in Ids /\ mem[s] # NoRow
      BY <2>1, <3>2 DEF HistoryInv, SourceInv, Rows
    <3>4. V[s] # NoRow
      BY <3>3, ViewAt DEF V
    <3> HIDE DEF s
    <3>5. s \in T \/ Gone(V[s])
      BY <1>2, <2>2, <3>1, <3>3, <3>4
    <3>6. Gone(U[s])
      BY <1>5, <1>10, <3>3, <3>5 DEF Gone
    <3> QED BY <3>6 DEF s
  <2>3. CASE i \notin R
    <3>1. /\ writes[w][i] # NoRow
          /\ writes[w][i].superseded_by # NoId
          /\ writes[w][i].consolidated_into = s
      <4>1. CASE i \in T
        <5>1. V[i].superseded_by # NoId /\ V[i].consolidated_into = s
          BY <1>5, <2>3, <4>1
        <5>2. writes[w][i] # NoRow /\ V[i] = writes[w][i]
          BY <2>1, <5>1, ViewAt DEF V
        <5> QED BY <5>1, <5>2
      <4>2. CASE i \notin T
        BY <1>6, <2>1, <2>3, <4>2
      <4> QED BY <4>1, <4>2
    <3>2. s \in Ids
      BY <2>1, <3>1, ViewAt DEF Row
    <3>3. Gone(V[s])
      BY <3>1 DEF HistoryInv, StaleInv, StaleOf, V
    <3> HIDE DEF s
    <3>4. Gone(U[s])
      BY <1>10, <3>2, <3>3
    <3> QED BY <3>4 DEF s
  <2> QED BY <2>2, <2>3
<1>12. TrailOf(w)'
  <2> SUFFICES ASSUME NEW i \in Ids PROVE TrailTells(PendingLog(w)', i, U[i])
    BY DEF TrailOf, U
  <2>1. TrailTells(PendingLog(w), i, V[i]) /\ V[i] \in Row \cup {NoRow}
    BY ViewAt DEF HistoryInv, ViewTrail, TrailOf, V
  <2>2. CASE i # n /\ i \notin R \cup T
    <3>1. \A o \in Marking : <<o, i>> \notin keys /\ o \in Outcomes
      BY <1>1, <2>2 DEF Marking
    <3>2. \A o \in Marking : PendingLog(w)'[<<o, i>>] = PendingLog(w)[<<o, i>>]
      BY <1>7, <3>1, LogTypes, LogAt
    <3>3. U[i] = V[i]
      BY <1>6, <2>2
    <3> QED BY <2>1, <3>2, <3>3, TellsSame
  <2>3. CASE i = n
    <3>1. /\ <<"insert", i>> \in keys
          /\ \A o \in Marking \ {"insert"} : <<o, i>> \notin keys
      BY <1>1, <1>2, <2>3
    <3>2. /\ V[i] = NoRow /\ U[i] # NoRow /\ U[i] \in Row
          /\ ~IsDeleted(V[i]) /\ ~IsDeleted(U[i]) /\ ~IsStale(V[i]) /\ ~IsStale(U[i])
          /\ ~IsSuperseded(V[i]) /\ ~IsSuperseded(U[i])
          /\ ~IsConsolidated(V[i]) /\ ~IsConsolidated(U[i])
      BY <1>2, <1>4, <2>3 DEF IsDeleted, IsStale, IsSuperseded, IsConsolidated
    <3>3. Explains(keys, i, V[i], U[i])
      BY <3>1, <3>2 DEF Explains, Marking, Outcomes
    <3> QED BY <1>7, <2>1, <3>2, <3>3, LogTypes, TellsStep
  <2>4. CASE i \in R \cup T
    <3>1. /\ <<"superseded", i>> \in keys <=> i \in R
          /\ <<"stale", i>> \in keys <=> i \in T
          /\ \A o \in Marking \ {"superseded", "stale"} : <<o, i>> \notin keys
      BY <1>1, <1>2, <2>4
    <3>2. /\ V[i] # NoRow /\ U[i] # NoRow /\ U[i] \in Row
          /\ IsDeleted(U[i]) <=> IsDeleted(V[i])
          /\ IsConsolidated(U[i]) <=> IsConsolidated(V[i])
          /\ i \in R => ~IsSuperseded(V[i]) /\ IsSuperseded(U[i])
          /\ i \notin R => (IsSuperseded(U[i]) <=> IsSuperseded(V[i]))
          /\ i \in T => ~IsStale(V[i]) /\ IsStale(U[i])
          /\ i \notin T => (IsStale(U[i]) <=> IsStale(V[i]))
      BY <1>2, <1>5, <2>4 DEF IsDeleted, IsStale, IsSuperseded, IsConsolidated
    <3>3. Explains(keys, i, V[i], U[i])
      BY <3>1, <3>2 DEF Explains, Marking, Outcomes
    <3> QED BY <1>7, <2>1, <3>2, <3>3, LogTypes, TellsStep
  <2> QED BY <2>2, <2>3, <2>4
<1>13. Chained(U)
  <2>1. Chained(V)
    BY DEF HistoryInv, ViewChains, V
  <2>2. n \notin Rows(V) /\ Rows(U) = Rows(V) \cup {n} /\ U[n].superseded_by = NoId
    BY <1>2, <1>4, <1>5, <1>6 DEF Rows
  <2>3. /\ R \subseteq Rows(V)
        /\ \A i \in R : /\ U[i].superseded_by = n /\ V[i].attribute = U[n].attribute
                        /\ V[i].attribute \in SingleValued
    BY <1>2, <1>4, <1>5 DEF Rows
  <2>4. /\ \A i \in Rows(V) : U[i].attribute = V[i].attribute
        /\ \A i \in Rows(V) \ R : U[i].superseded_by = V[i].superseded_by
    BY <1>2, <1>5, <1>6 DEF Rows
  <2> QED BY <2>1, <2>2, <2>3, <2>4, ChainedSupersedes
<1> QED BY <1>3, <1>8, <1>9, <1>11, <1>12, <1>13, OwnHistory DEF U

\* A transaction that ends leaves no transaction with uncommitted work on any row.
LEMMA EndLeaves ==
    ASSUME IInv, HistoryInv, NEW w \in Workers, tx[w].pc \in Holding, EndTx(w)
    PROVE  \A v \in Workers : \A i \in Ids :
              writes'[v][i] = NoRow /\ \A o \in Marking : pend'[v][<<o, i>>] = 0
<1> TAKE v \in Workers
<1> TAKE i \in Ids
<1>0. writes \in [Workers -> Table] /\ pend \in [Workers -> [AuditKeys -> Nat]]
  BY DEF IInv, TypeOK, StoreTypeOK
<1>1. CASE v = w
  <2>1. writes'[v] = NoWrites /\ pend'[v] = NoAudit
    BY <1>0, <1>1 DEF EndTx
  <2>2. \A o \in Marking : <<o, i>> \in AuditKeys
    BY DEF Marking, AuditKeys
  <2> QED BY <2>1, <2>2 DEF NoWrites, NoAudit
<1>2. CASE v # w
  <2>1. writes'[v] = writes[v] /\ pend'[v] = pend[v]
    BY <1>0, <1>2 DEF EndTx
  <2>2. writes[v][i] = NoRow
    BY <1>2 DEF IInv, LockInv
  <2>3. \A o \in Marking : pend[v][<<o, i>>] = 0
    BY <2>2 DEF HistoryInv, PendInv, PendOf
  <2> QED BY <2>1, <2>2, <2>3
<1> QED BY <1>1, <1>2

\* When nobody has uncommitted work, the committed rows and their trail are all
\* that the invariant is about.
LEMMA QuietHistory ==
    ASSUME IInv',
           \A v \in Workers : \A i \in Ids :
              writes'[v][i] = NoRow /\ \A o \in Marking : pend'[v][<<o, i>>] = 0,
           SourceInv', AuditMatchesTable', SupersessionChain', RetiredFreesSources'
    PROVE  HistoryInv'
<1>1. \A v \in Workers : View(v)' = mem'
  BY DEF View, IInv, TypeOK, StoreTypeOK, Table
<1>2. PendInv' /\ VersionInv' /\ StaleInv'
  <2>1. PendInv'
    BY DEF PendInv, PendOf
  <2>2. VersionInv'
    BY DEF VersionInv, VersionOf
  <2>3. StaleInv'
    BY DEF StaleInv, StaleOf, Live, Undeleted, Rows
  <2> QED BY <2>1, <2>2, <2>3
<1>3. ViewTrail'
  <2> SUFFICES ASSUME NEW v \in Workers, NEW i \in Ids
               PROVE  TrailTells(PendingLog(v)', i, View(v)'[i])
    BY DEF ViewTrail, TrailOf
  <2>1. \A o \in Marking : <<o, i>> \in AuditKeys
    BY DEF Marking, AuditKeys
  <2>2. \A o \in Marking : audit'[<<o, i>>] \in Nat
    BY <2>1 DEF IInv, TypeOK, StoreTypeOK
  <2>3. \A o \in Marking : PendingLog(v)'[<<o, i>>] = audit'[<<o, i>>] + pend'[v][<<o, i>>]
    BY <2>1 DEF PendingLog
  <2>4. \A o \in Marking : PendingLog(v)'[<<o, i>>] = audit'[<<o, i>>]
    BY <2>2, <2>3
  <2>5. TrailTells(audit', i, mem'[i])
    BY DEF AuditMatchesTable
  <2>6. TrailTells(PendingLog(v)', i, mem'[i])
    BY <2>4, <2>5, TellsSame
  <2> QED BY <1>1, <2>6
<1>4. ViewChains'
  <2>1. Chained(mem')
    BY DEF SupersessionChain
  <2> QED BY <1>1, <2>1 DEF ViewChains
<1> QED BY <1>2, <1>3, <1>4 DEF HistoryInv

\* A rollback leaves what was committed.
LEMMA RollbackHistory ==
    ASSUME IInv, IInv', HistoryInv, NEW w \in Workers, CaptureRollback(w)
    PROVE  HistoryInv'
<1>1. tx[w].pc \in Holding /\ EndTx(w) /\ UNCHANGED <<mem, audit>>
  BY DEF CaptureRollback, Holding
<1>2. SourceInv' /\ AuditMatchesTable' /\ SupersessionChain' /\ RetiredFreesSources'
  BY <1>1 DEF HistoryInv, SourceInv, AuditMatchesTable, SupersessionChain, RetiredFreesSources
<1> QED BY <1>1, <1>2, EndLeaves, QuietHistory

\* A commit publishes what the transaction saw, with the trail it wrote.
LEMMA CommitHistory ==
    ASSUME IInv, IInv', HistoryInv, NEW w \in Workers, CaptureCommit(w)
    PROVE  HistoryInv'
<1>1. tx[w].pc \in Holding /\ EndTx(w) /\ mem' = View(w) /\ audit' = PendingLog(w)
  BY DEF CaptureCommit, Holding, PendingLog
<1>2. SourceInv'
  <2> SUFFICES ASSUME NEW i \in Ids, View(w)[i] # NoRow, View(w)[i].consolidated_into # NoId
               PROVE  View(w)[i].consolidated_into \in Rows(mem')
    BY <1>1 DEF SourceInv, Rows
  <2>1. mem[i] # NoRow /\ mem[i].consolidated_into = View(w)[i].consolidated_into
    BY ViewAt DEF HistoryInv, VersionInv, VersionOf
  <2>2. mem[i].consolidated_into \in Rows(mem)
    BY <2>1 DEF HistoryInv, SourceInv, Rows
  <2>3. Rows(mem) \subseteq Rows(mem')
    BY <1>1, ViewAt DEF Rows
  <2> QED BY <2>1, <2>2, <2>3
<1>3. AuditMatchesTable'
  BY <1>1 DEF HistoryInv, ViewTrail, TrailOf, AuditMatchesTable
<1>4. SupersessionChain'
  BY <1>1 DEF HistoryInv, ViewChains, SupersessionChain
<1>5. RetiredFreesSources'
  <2> SUFFICES ASSUME NEW i \in Ids, audit'[<<"retired", i>>] > 0,
                      NEW s \in Live(View(w)), View(w)[s].consolidated_into = i
               PROVE  FALSE
    BY <1>1 DEF RetiredFreesSources
  <2>1. i # NoId
    BY MemoriesAssumption
  <2>2. s \in Live(mem) /\ mem[s].consolidated_into = i
    BY <2>1, LiveVersions
  <2>3. "retired" \in Marking /\ "retired" \notin Captured /\ <<"retired", i>> \in AuditKeys
    BY DEF Marking, Captured, Outcomes, AuditKeys
  <2>4. pend[w][<<"retired", i>>] = 0
    BY <2>3 DEF HistoryInv, PendInv, PendOf
  <2>5. audit'[<<"retired", i>>] = audit[<<"retired", i>>]
    BY <1>1, <2>3, <2>4, LogTypes DEF PendingLog
  <2> QED BY <2>2, <2>5 DEF HistoryInv, RetiredFreesSources
<1> QED BY <1>1, <1>2, <1>3, <1>4, <1>5, EndLeaves, QuietHistory

\* Captures preserve the invariant.
LEMMA CaptureHistory ==
    ASSUME IInv, IInv', HistoryInv, NEW w \in Workers, CaptureNext(w)
    PROVE  HistoryInv'
<1>1. CASE UNCHANGED storeVars
  BY <1>1, StoreRest
<1>2. CASE CaptureReinforce(w) \/ CaptureInsert(w)
  BY <1>2, ReinforceHistory, InsertHistory
<1>3. CASE CaptureCommit(w) \/ CaptureRollback(w)
  BY <1>3, CommitHistory, RollbackHistory
<1> QED BY <1>1, <1>2, <1>3
        DEF CaptureNext, CaptureStep, CaptureStart, CaptureLock, CaptureLockTimeout,
            CaptureTombstones, CaptureFindSimilar, CaptureIgnore
-----------------------------------------------------------------------------
(* Invariance, and what follows from it. *)

\* An empty store has an empty history.
LEMMA InitHistory == Init => HistoryInv
<1> SUFFICES ASSUME Init PROVE HistoryInv
  OBVIOUS
<1>1. /\ mem = NoWrites /\ audit = NoAudit
      /\ \A w \in Workers : writes[w] = NoWrites /\ pend[w] = NoAudit
  BY DEF Init, StoreInit
<1>2. /\ \A i \in Ids : mem[i] = NoRow
      /\ \A w \in Workers : \A i \in Ids : writes[w][i] = NoRow /\ View(w)[i] = NoRow
  BY <1>1 DEF NoWrites, View
<1>3. /\ \A k \in AuditKeys : audit[k] = 0
      /\ \A w \in Workers : \A k \in AuditKeys : pend[w][k] = 0 /\ PendingLog(w)[k] = 0
  BY <1>1 DEF NoAudit, PendingLog
<1>4. Rows(mem) = {} /\ Live(mem) = {} /\ \A w \in Workers : Rows(View(w)) = {}
  BY <1>2 DEF Live, Undeleted, Rows
<1>5. \A o \in Outcomes : \A i \in Ids : <<o, i>> \in AuditKeys
  BY DEF AuditKeys
<1>6. PendInv /\ VersionInv /\ SourceInv /\ StaleInv
  BY <1>2, <1>3, <1>4, <1>5
     DEF PendInv, PendOf, Marking, VersionInv, VersionOf, SourceInv, StaleInv, StaleOf
<1>7. ASSUME NEW log, \A k \in AuditKeys : log[k] = 0, NEW i \in Ids
      PROVE  TrailTells(log, i, NoRow)
  <2>1. \A o \in Outcomes : log[<<o, i>>] = 0
    BY <1>5, <1>7
  <2>2. {"insert", "superseded", "stale", "delete", "retired", "consolidated", "unconsolidated"}
          \subseteq Outcomes
    BY DEF Outcomes
  <2> QED BY <2>1, <2>2 DEF TrailTells
<1>8. AuditMatchesTable
  BY <1>2, <1>3, <1>7 DEF AuditMatchesTable
<1>9. ViewTrail
  BY <1>2, <1>3, <1>7 DEF ViewTrail, TrailOf
<1>10. SupersessionChain /\ ViewChains
  BY <1>4 DEF SupersessionChain, ViewChains, Chained
<1>11. RetiredFreesSources
  BY <1>4 DEF RetiredFreesSources
<1> QED BY <1>6, <1>8, <1>9, <1>10, <1>11 DEF HistoryInv

\* Every step of every actor preserves the invariant.
LEMMA NextHistory == IInv /\ HistoryInv /\ [Next]_vars => HistoryInv'
<1> SUFFICES ASSUME IInv, HistoryInv, [Next]_vars PROVE HistoryInv'
  OBVIOUS
<1>1. IInv'
  BY NextIInv
<1>2. CASE UNCHANGED vars
  BY <1>2, StoreRest DEF vars, storeVars
<1>3. CASE Next
  BY <1>1, <1>3, CaptureHistory, GovernanceHistory, ReflectionHistory DEF Next
<1> QED BY <1>2, <1>3

\* The invariant that the results below are read off.
THEOREM HistoryAlways == Spec => [](IInv /\ HistoryInv)
BY InitIInv, NextIInv, InitHistory, NextHistory, PTL DEF Spec

\* store/audit.py's "exactly one audit row per action", for every number of
\* workers, requests and runs: what the committed trail tells of a memory is what
\* its row shows.
THEOREM TrailMatches == Spec => []AuditMatchesTable
<1>1. HistoryInv => AuditMatchesTable
  BY DEF HistoryInv
<1> QED BY <1>1, HistoryAlways, PTL

\* supersede_slot builds chains inside one slot, and every chain has a newest value.
THEOREM ChainsHold == Spec => []SupersessionChain
<1>1. HistoryInv => SupersessionChain
  BY DEF HistoryInv
<1> QED BY <1>1, HistoryAlways, PTL

\* rebuild_stale_summaries frees every surviving source of what it retires, and no
\* capture that commits later ties one to it again.
THEOREM RetiredFree == Spec => []RetiredFreesSources
<1>1. HistoryInv => RetiredFreesSources
  BY DEF HistoryInv
<1> QED BY <1>1, HistoryAlways, PTL

\* What a step can do to a committed row: only a commit supersedes it.
LEMMA SupersedingSteps ==
    ASSUME IInv, HistoryInv, Next, NEW i \in Rows(mem)
    PROVE  \/ mem'[i].superseded_by = mem[i].superseded_by
           \/ /\ mem[i].superseded_by = NoId
              /\ \E w \in Workers : mem' = View(w) /\ writes[w][i] # NoRow
<1>0. i \in Ids /\ mem[i] # NoRow
  BY DEF Rows
<1>1. ASSUME NEW w \in Workers, CaptureNext(w)
      PROVE  \/ mem'[i].superseded_by = mem[i].superseded_by
             \/ /\ mem[i].superseded_by = NoId
                /\ mem' = View(w) /\ writes[w][i] # NoRow
  <2>1. CASE CaptureCommit(w)
    <3>1. mem' = View(w)
      BY <2>1 DEF CaptureCommit
    <3>2. CASE writes[w][i] = NoRow
      BY <1>0, <3>1, <3>2, ViewAt
    <3>3. CASE writes[w][i] # NoRow
      BY <1>0, <3>1, <3>3, ViewAt DEF HistoryInv, VersionInv, VersionOf
    <3> QED BY <3>2, <3>3
  <2>2. CASE ~CaptureCommit(w)
    <3>1. UNCHANGED mem
      BY <1>1, <2>2 DEF CaptureNext, CaptureStep, CaptureStart, CaptureLock, CaptureLockTimeout,
            CaptureTombstones, CaptureFindSimilar, CaptureIgnore, CaptureReinforce,
            CaptureInsert, CaptureRollback, storeVars
    <3> QED BY <3>1
  <2> QED BY <2>1, <2>2
<1>2. ASSUME mem'[i] = mem[i] \/ OutsideChange(i)
      PROVE  mem'[i].superseded_by = mem[i].superseded_by
  BY <1>0, <1>2 DEF OutsideChange
<1>3. ASSUME NEW r \in Requests, GovernanceNext(r)
      PROVE  mem'[i].superseded_by = mem[i].superseded_by
  BY <1>0, <1>2, <1>3, GovernanceOutside
<1>4. ASSUME NEW k \in Runs, ReflectionNext(k)
      PROVE  mem'[i].superseded_by = mem[i].superseded_by
  BY <1>0, <1>2, <1>4, ReflectionOutside
<1> QED BY <1>1, <1>3, <1>4 DEF Next

\* "A retry cannot rewrite an earlier supersession's pointer and lose the chain"
\* (_SUPERSEDE_SQL), whoever else writes the row.
THEOREM SupersessionIsFinal == Spec => SupersessionFinal
<1>1. IInv /\ HistoryInv /\ [Next]_vars =>
        [\A i \in Rows(mem) : mem[i].superseded_by # NoId =>
            mem'[i].superseded_by = mem[i].superseded_by]_vars
  BY SupersedingSteps
<1> QED BY <1>1, HistoryAlways, PTL DEF Spec, SupersessionFinal

\* mark_summary_stale in the transaction that supersedes: the commit that shows the
\* new value shows the old one's summary stale or deleted, whatever reflection and
\* governance did to either in between.
THEOREM SupersededGoesStale == Spec => SupersededStalesSummary
<1>1. IInv /\ HistoryInv /\ [Next]_vars =>
        [\A i \in Live(mem) :
            (mem'[i].superseded_by # NoId /\ mem'[i].consolidated_into # NoId) =>
                LET s == mem'[i].consolidated_into
                IN  mem'[s].stale \/ mem'[s].deleted]_vars
  <2> SUFFICES ASSUME IInv, HistoryInv, Next, NEW i \in Live(mem),
                      mem'[i].superseded_by # NoId, mem'[i].consolidated_into # NoId
               PROVE  LET s == mem'[i].consolidated_into
                      IN  mem'[s].stale \/ mem'[s].deleted
    BY DEF vars
  <2>1. i \in Rows(mem) /\ i \in Ids /\ mem[i].superseded_by = NoId
    BY DEF Live, Undeleted, Rows
  <2>2. PICK w \in Workers : mem' = View(w) /\ writes[w][i] # NoRow
    BY <2>1, SupersedingSteps
  <2>3. mem'[i] = writes[w][i]
    BY <2>1, <2>2, ViewAt
  <2>4. Gone(View(w)[writes[w][i].consolidated_into])
    BY <2>2, <2>3 DEF HistoryInv, StaleInv, StaleOf
  <2>5. Gone(mem'[mem'[i].consolidated_into])
    BY <2>2, <2>3, <2>4
  <2> QED BY <2>5 DEF Gone
<1> QED BY <1>1, HistoryAlways, PTL DEF Spec, SupersededStalesSummary

-----------------------------------------------------------------------------
(* The single-valued slots as registers. *)

\* Nothing but a summary goes stale, and no summary fills a single-valued slot.
SummarySlots(t) ==
    \A i \in Rows(t) :
        /\ t[i].stale = TRUE => t[i].attribute \notin SingleValued
        /\ t[i].consolidated_into # NoId =>
              /\ t[i].consolidated_into \in Rows(t)
              /\ t[t[i].consolidated_into].attribute \notin SingleValued

\* The rows that the versions x would add to slot a of table t.
NewIn(t, x, a) == {i \in Ids : t[i] = NoRow /\ x[i] # NoRow /\ x[i].attribute = a}

\* A transaction moves no row to another slot; where it adds values it leaves the last
\* one live; and it adds one to every slot whose value it retires.
FillsOf(w) ==
    /\ \A i \in Rows(mem) : writes[w][i] # NoRow => writes[w][i].attribute = mem[i].attribute
    /\ \A a \in SingleValued :
          NewIn(mem, writes[w], a) # {} =>
              \E i \in NewIn(mem, writes[w], a) : writes[w][i].superseded_by = NoId
    /\ \A i \in Rows(mem) :
          (/\ writes[w][i] # NoRow /\ mem[i].attribute \in SingleValued
           /\ mem[i].superseded_by = NoId /\ writes[w][i].superseded_by # NoId) =>
              NewIn(mem, writes[w], mem[i].attribute) # {}

\* A request that has passed ensure_owned is about a row.
RequestInv == \A r \in Requests : req[r].pc # "idle" => req[r].id \in Rows(mem)

RegisterInv ==
    /\ SummarySlots(mem) /\ RequestInv
    /\ \A w \in Workers : SummarySlots(View(w)) /\ FillsOf(w)

\* Summaries stay out of the slots if rows stay in theirs, and only rows outside
\* them go stale or take sources.
LEMMA SummariesKept ==
    ASSUME NEW t, NEW u, SummarySlots(t),
           \A i \in Ids : t[i] # NoRow => u[i] # NoRow /\ u[i].attribute = t[i].attribute,
           \A i \in Ids : u[i] # NoRow =>
              /\ u[i].stale = TRUE =>
                    u[i].attribute \notin SingleValued \/ (t[i] # NoRow /\ t[i].stale = TRUE)
              /\ u[i].consolidated_into # NoId =>
                    \/ t[i] # NoRow /\ t[i].consolidated_into = u[i].consolidated_into
                    \/ /\ u[i].consolidated_into \in Rows(u)
                       /\ u[u[i].consolidated_into].attribute \notin SingleValued
    PROVE  SummarySlots(u)
<1> SUFFICES ASSUME NEW i \in Ids, u[i] # NoRow
             PROVE  /\ u[i].stale = TRUE => u[i].attribute \notin SingleValued
                    /\ u[i].consolidated_into # NoId =>
                          /\ u[i].consolidated_into \in Rows(u)
                          /\ u[u[i].consolidated_into].attribute \notin SingleValued
  BY DEF SummarySlots, Rows
<1>1. u[i].stale = TRUE => u[i].attribute \notin SingleValued
  BY DEF SummarySlots, Rows
<1>2. ASSUME t[i] # NoRow, t[i].consolidated_into = u[i].consolidated_into, u[i].consolidated_into # NoId
      PROVE  /\ u[i].consolidated_into \in Rows(u)
             /\ u[u[i].consolidated_into].attribute \notin SingleValued
  <2>1. /\ t[i].consolidated_into \in Rows(t)
        /\ t[t[i].consolidated_into].attribute \notin SingleValued
    BY <1>2 DEF SummarySlots, Rows
  <2> QED BY <1>2, <2>1 DEF Rows
<1> QED BY <1>1, <1>2

\* What a governance request or a reflection run does to row i: it leaves it in its
\* slot, and what no capture can add to a slot is not added there either.
SlotKept(i) ==
    \/ mem'[i] = mem[i]
    \/ /\ \A w \in Workers : writes[w][i] = NoRow
       /\ mem'[i] \in Row
       /\ mem[i] = NoRow => mem'[i].attribute \notin SingleValued
       /\ mem[i] # NoRow => mem'[i].attribute = mem[i].attribute
                            /\ mem'[i].superseded_by = mem[i].superseded_by
       /\ mem'[i].stale = TRUE => \/ mem'[i].attribute \notin SingleValued
                                  \/ mem[i] # NoRow /\ mem[i].stale = TRUE
       /\ mem'[i].consolidated_into # NoId =>
             \/ mem[i] # NoRow /\ mem'[i].consolidated_into = mem[i].consolidated_into
             \/ LET s == mem'[i].consolidated_into
                IN  /\ s \in Ids /\ mem'[s] # NoRow /\ mem'[s].attribute \notin SingleValued
                    /\ \A w \in Workers : writes[w][s] = NoRow

\* Such steps preserve the invariant.
LEMMA OutsideRegister ==
    ASSUME IInv, RegisterInv, UNCHANGED writes, \A i \in Ids : SlotKept(i)
    PROVE  /\ Rows(mem) \subseteq Rows(mem')
           /\ SummarySlots(mem') /\ \A w \in Workers : SummarySlots(View(w)') /\ FillsOf(w)'
<1>0. \A i \in Ids : /\ mem[i] # NoRow => mem'[i] # NoRow /\ mem'[i].attribute = mem[i].attribute
                     /\ \A w \in Workers : writes[w][i] # NoRow => mem'[i] = mem[i]
  BY NoRowAssumption DEF SlotKept
<1>1. Rows(mem) \subseteq Rows(mem')
  BY <1>0 DEF Rows
<1>2. ASSUME NEW i \in Ids, mem'[i] # NoRow
      PROVE  /\ mem'[i].stale = TRUE => \/ mem'[i].attribute \notin SingleValued
                                        \/ mem[i] # NoRow /\ mem[i].stale = TRUE
             /\ mem'[i].consolidated_into # NoId =>
                   \/ mem[i] # NoRow /\ mem[i].consolidated_into = mem'[i].consolidated_into
                   \/ LET s == mem'[i].consolidated_into
                      IN  /\ s \in Ids /\ mem'[s] # NoRow /\ mem'[s].attribute \notin SingleValued
                          /\ \A w \in Workers : writes[w][s] = NoRow
  BY <1>2 DEF SlotKept
<1>3. SummarySlots(mem')
  <2>1. SummarySlots(mem)
    BY DEF RegisterInv
  <2> QED BY <1>0, <1>2, <2>1, SummariesKept DEF Rows
<1>4. ASSUME NEW w \in Workers PROVE SummarySlots(View(w)')
  <2> DEFINE V == View(w)
             U == View(w)'
  <2>1. \A i \in Ids : \/ writes[w][i] # NoRow /\ V[i] = writes[w][i] /\ U[i] = writes[w][i]
                       \/ writes[w][i] = NoRow /\ V[i] = mem[i] /\ U[i] = mem'[i]
    BY DEF View
  <2>2. SummarySlots(V)
    BY DEF RegisterInv
  <2> HIDE DEF V, U
  <2>3. \A i \in Ids : V[i] # NoRow => U[i] # NoRow /\ U[i].attribute = V[i].attribute
    BY <1>0, <2>1
  <2>4. ASSUME NEW i \in Ids, U[i] # NoRow
        PROVE  /\ U[i].stale = TRUE => \/ U[i].attribute \notin SingleValued
                                       \/ V[i] # NoRow /\ V[i].stale = TRUE
               /\ U[i].consolidated_into # NoId =>
                     \/ V[i] # NoRow /\ V[i].consolidated_into = U[i].consolidated_into
                     \/ /\ U[i].consolidated_into \in Rows(U)
                        /\ U[U[i].consolidated_into].attribute \notin SingleValued
    <3>1. CASE U[i] = V[i]
      BY <2>4, <3>1
    <3>2. CASE U[i] # V[i]
      <4>1. V[i] = mem[i] /\ U[i] = mem'[i] /\ mem'[i] # NoRow
        BY <2>1, <2>4, <3>2
      <4>2. ASSUME NEW s \in Ids, mem'[s] # NoRow, mem'[s].attribute \notin SingleValued,
                   \A v \in Workers : writes[v][s] = NoRow
            PROVE  s \in Rows(U) /\ U[s].attribute \notin SingleValued
        BY <2>1, <4>2 DEF Rows
      <4> QED BY <1>2, <4>1, <4>2
    <3> QED BY <3>1, <3>2
  <2>5. SummarySlots(U)
    BY <2>2, <2>3, <2>4, SummariesKept
  <2> QED BY <2>5 DEF U
<1>5. ASSUME NEW w \in Workers PROVE FillsOf(w)'
  <2>0. FillsOf(w)
    BY DEF RegisterInv
  <2>1. \A i \in Ids : writes[w][i] # NoRow => mem'[i] = mem[i]
    BY <1>0
  <2>2. \A a \in SingleValued : NewIn(mem', writes'[w], a) = NewIn(mem, writes[w], a)
    BY <2>1 DEF NewIn
  <2>3. \A i \in Rows(mem') : writes[w][i] # NoRow => i \in Rows(mem) /\ mem'[i] = mem[i]
    BY <2>1 DEF Rows
  <2> QED BY <2>0, <2>2, <2>3 DEF FillsOf
<1> QED BY <1>1, <1>3, <1>4, <1>5


\* Rows are deleted outside the slots only.
NoSlotDeleted ==
    \A i \in Ids : mem[i] # NoRow =>
        mem'[i].deleted = mem[i].deleted \/ mem[i].attribute \notin SingleValued

\* Row i is deleted, and nothing else happens to the table.
OneDeleted(i) ==
    /\ i \in Undeleted(mem) /\ mem' = [mem EXCEPT ![i] = [mem[i] EXCEPT !.deleted = TRUE]]

\* invalidate_summaries_for marks a row outside the slots; a delete deletes one row,
\* and an edit leaves the slots alone.
LEMMA GovernanceSlots ==
    ASSUME IInv, RegisterInv, NEW r \in Requests, GovernanceNext(r)
    PROVE  /\ \A i \in Ids : SlotKept(i)
           /\ NoSlotDeleted \/ \E i \in Ids : OneDeleted(i)
<1>0. mem \in Table
  BY DEF IInv, TypeOK, StoreTypeOK
<1>1. ASSUME NEW from \in {"delete_checked", "patch_checked"}, NEW to,
             invalidate_summaries_for(r, from, to)
      PROVE  (\A i \in Ids : SlotKept(i)) /\ NoSlotDeleted
  <2> DEFINE S == StaleTargets(mem, {req[r].id})
  <2>1. /\ \A i \in Ids : mem'[i] = IF i \in S THEN [mem[i] EXCEPT !.stale = TRUE] ELSE mem[i]
        /\ Unlocked(S) /\ req[r].pc # "idle"
    BY <1>1 DEF invalidate_summaries_for
  <2>2. req[r].id \in Rows(mem)
    BY <2>1 DEF RegisterInv, RequestInv
  <2>3. \A i \in S : /\ i \in Ids /\ mem[i] \in Row /\ mem[i] # NoRow
                     /\ mem[req[r].id].consolidated_into = i
    BY <1>0, RowType, NoRowAssumption DEF StaleTargets, Undeleted
  <2>4. \A i \in S : mem[i].attribute \notin SingleValued
    <3> TAKE i \in S
    <3>1. i # NoId /\ mem[req[r].id].consolidated_into = i
      BY <2>3, MemoriesAssumption
    <3> QED BY <2>2, <3>1 DEF RegisterInv, SummarySlots
  <2> HIDE DEF S
  <2>5. ASSUME NEW i \in S
        PROVE  /\ mem'[i] \in Row /\ mem'[i].attribute = mem[i].attribute
               /\ mem'[i].superseded_by = mem[i].superseded_by
               /\ mem'[i].consolidated_into = mem[i].consolidated_into
               /\ mem'[i].deleted = mem[i].deleted
    <3>1. mem'[i] = [mem[i] EXCEPT !.stale = TRUE] /\ mem[i] \in Row
      BY <2>1, <2>3
    <3> QED BY <3>1 DEF Row
  <2>6. ASSUME NEW i \in S PROVE SlotKept(i)
    <3>1. \A w \in Workers : writes[w][i] = NoRow
      BY <2>1, UnlockedRows
    <3> QED BY <2>3, <2>4, <2>5, <3>1 DEF SlotKept
  <2>7. ASSUME NEW i \in Ids, i \notin S PROVE SlotKept(i) /\ mem'[i] = mem[i]
    BY <2>1, <2>7 DEF SlotKept
  <2> QED BY <2>5, <2>6, <2>7 DEF NoSlotDeleted
<1>2. ASSUME NEW outcome, NEW row, Mutate(r, outcome, row),
             req[r].id \in Undeleted(mem) =>
                 /\ row \in Row /\ row.attribute = mem[req[r].id].attribute
                 /\ row.superseded_by = mem[req[r].id].superseded_by
                 /\ row.stale = mem[req[r].id].stale
                 /\ row.consolidated_into = mem[req[r].id].consolidated_into
      PROVE  \A i \in Ids : SlotKept(i)
  <2> DEFINE i == req[r].id
  <2>1. CASE i \in Undeleted(mem)
    <3>1. i \in Ids /\ mem[i] \in Row /\ mem[i] # NoRow
      BY <1>0, <2>1, RowType, NoRowAssumption
    <3>2. mem' = [mem EXCEPT ![i] = row] /\ Unlocked({i})
      BY <1>2, <2>1 DEF Mutate
    <3>3. /\ row \in Row /\ row.attribute = mem[i].attribute /\ row.stale = mem[i].stale
          /\ row.superseded_by = mem[i].superseded_by
          /\ row.consolidated_into = mem[i].consolidated_into
      BY <1>2, <2>1
    <3>4. \A w \in Workers : writes[w][i] = NoRow
      BY <3>2, UnlockedRows
    <3> HIDE DEF i
    <3>5. mem'[i] = row /\ \A j \in Ids \ {i} : mem'[j] = mem[j]
      BY <1>0, <3>1, <3>2 DEF Table
    <3> QED BY <3>1, <3>3, <3>4, <3>5 DEF SlotKept
  <2>2. CASE i \notin Undeleted(mem)
    BY <1>2, <2>2 DEF Mutate, SlotKept
  <2> QED BY <2>1, <2>2
<1>3. CASE DeleteCommit(r)
  <2> DEFINE x == mem[req[r].id]
             row == [x EXCEPT !.deleted = TRUE]
  <2>1. req[r].id \in Undeleted(mem) =>
           /\ req[r].id \in Ids
           /\ row \in Row /\ row.attribute = x.attribute /\ row.stale = x.stale
           /\ row.superseded_by = x.superseded_by /\ row.consolidated_into = x.consolidated_into
    <3> HAVE req[r].id \in Undeleted(mem)
    <3>1. x \in Row /\ req[r].id \in Ids
      BY <1>0, RowType
    <3> HIDE DEF x
    <3> QED BY <3>1 DEF Row
  <2>2. Mutate(r, "delete", row)
    BY <1>3 DEF DeleteCommit
  <2>3. req[r].id \in Undeleted(mem) => OneDeleted(req[r].id)
    BY <2>2 DEF Mutate, OneDeleted
  <2>4. req[r].id \notin Undeleted(mem) => NoSlotDeleted
    BY <2>2 DEF Mutate, NoSlotDeleted
  <2> HIDE DEF row
  <2> QED BY <1>2, <2>1, <2>2, <2>3, <2>4
<1>4. CASE PatchCommit(r)
  <2> DEFINE x == mem[req[r].id]
             row == [x EXCEPT !.asserts = req[r].text]
  <2>1. req[r].id \in Undeleted(mem) =>
           /\ row \in Row /\ row.attribute = x.attribute /\ row.stale = x.stale
           /\ row.superseded_by = x.superseded_by /\ row.consolidated_into = x.consolidated_into
           /\ row.deleted = x.deleted
    <3> HAVE req[r].id \in Undeleted(mem)
    <3>1. x \in Row
      BY <1>0, RowType DEF Undeleted
    <3>2. req[r].text \in SUBSET Facts
      BY DEF IInv, TypeOK, GovernanceTypeOK, Request
    <3> HIDE DEF x
    <3> QED BY <3>1, <3>2 DEF Row
  <2>2. Mutate(r, "edit", row)
    BY <1>4 DEF PatchCommit
  <2> HIDE DEF row
  <2>3. NoSlotDeleted
    <3>1. CASE req[r].id \in Undeleted(mem)
      <4>1. mem' = [mem EXCEPT ![req[r].id] = row]
        BY <2>2, <3>1 DEF Mutate
      <4>2. \A i \in Ids : mem'[i] = mem[i] \/ (mem'[i] = row /\ i = req[r].id)
        BY <1>0, <4>1 DEF Table
      <4> QED BY <2>1, <3>1, <4>2 DEF NoSlotDeleted
    <3>2. CASE req[r].id \notin Undeleted(mem)
      BY <2>2, <3>2 DEF Mutate, NoSlotDeleted
    <3> QED BY <3>1, <3>2
  <2> QED BY <1>2, <2>1, <2>2, <2>3
<1>5. CASE UNCHANGED mem
  BY <1>5 DEF SlotKept, NoSlotDeleted
<1> QED BY <1>1, <1>3, <1>4, <1>5
        DEF GovernanceNext, RequestStep, DeleteCheck, PatchCheck, DeleteInvalidate,
            PatchInvalidate, RequestAbort, storeVars

\* rebuild_stale_summaries deletes what has gone stale, and write_summary inserts a
\* row without a slot.
LEMMA ReflectionSlots ==
    ASSUME IInv, RegisterInv, NEW k \in Runs, ReflectionNext(k)
    PROVE  (\A i \in Ids : SlotKept(i)) /\ NoSlotDeleted
<1>0. mem \in Table
  BY DEF IInv, TypeOK, StoreTypeOK
<1>1. CASE rebuild_stale_summaries(k)
  <2>1. PICK S \in SUBSET StaleSummaries(mem) :
          /\ Unlocked(S \cup FreedSources(mem, S))
          /\ mem' = [i \in Ids |->
                IF i \in S \cup FreedSources(mem, S)
                THEN [mem[i] EXCEPT
                        !.deleted = @ \/ i \in S,
                        !.consolidated_into = IF i \in FreedSources(mem, S) THEN NoId ELSE @]
                ELSE mem[i]]
    BY <1>1 DEF rebuild_stale_summaries
  <2> DEFINE F == FreedSources(mem, S)
  <2>2. \A i \in S \cup F : i \in Undeleted(mem) /\ i \in Ids /\ mem[i] \in Row /\ mem[i] # NoRow
    <3> TAKE i \in S \cup F
    <3>1. i \in Undeleted(mem)
      BY DEF StaleSummaries, FreedSources, Live
    <3> QED BY <1>0, <3>1, RowType, NoRowAssumption
  <2>3. \A i \in S : mem[i].attribute \notin SingleValued
    <3> TAKE i \in S
    <3>1. i \in Rows(mem) /\ mem[i].stale /\ mem[i] \in Row
      BY <2>2 DEF StaleSummaries, Undeleted
    <3>2. mem[i].stale = TRUE
      BY <3>1 DEF Row
    <3> QED BY <3>1, <3>2 DEF RegisterInv, SummarySlots
  <2>4. (\A i \in Ids \ (S \cup F) : mem'[i] = mem[i]) /\ Unlocked(S \cup F)
    BY <2>1
  <2>5. ASSUME NEW i \in S \cup F
        PROVE  /\ mem'[i] \in Row /\ (i \notin S => mem'[i].deleted = mem[i].deleted)
               /\ mem'[i].attribute = mem[i].attribute /\ mem'[i].stale = mem[i].stale
               /\ mem'[i].superseded_by = mem[i].superseded_by
               /\ mem'[i].consolidated_into \in {NoId, mem[i].consolidated_into}
    <3> DEFINE c == IF i \in F THEN NoId ELSE mem[i].consolidated_into
               d == mem[i].deleted \/ i \in S
               x == mem[i]
    <3>1. x \in Row /\ i \in Ids
      BY <2>2
    <3>2. /\ c \in Ids \cup {NoId} /\ d \in BOOLEAN /\ (i \notin S => d = x.deleted)
          /\ c \in {NoId, x.consolidated_into}
      BY <3>1 DEF Row
    <3>3. mem'[i] = [x EXCEPT !.deleted = d, !.consolidated_into = c]
      BY <2>1, <3>1
    <3> DEFINE y == [x EXCEPT !.deleted = d, !.consolidated_into = c]
    <3> HIDE DEF c, d, x, F
    <3>4. y \in Row
      BY <3>1, <3>2, UpdateType, Zenon
    <3>5. /\ y.deleted = d /\ y.attribute = x.attribute /\ y.stale = x.stale
          /\ y.superseded_by = x.superseded_by /\ y.consolidated_into = c
      BY <3>1 DEF Row
    <3> HIDE DEF y
    <3>6. mem'[i] = y
      BY <3>3 DEF y
    <3> QED BY <3>2, <3>4, <3>5, <3>6 DEF x
  <2> HIDE DEF F
  <2>6. ASSUME NEW i \in S \cup F PROVE SlotKept(i)
    <3>1. \A w \in Workers : writes[w][i] = NoRow
      BY <2>4, UnlockedRows
    <3> QED BY <2>2, <2>5, <3>1 DEF SlotKept
  <2>7. ASSUME NEW i \in Ids \ (S \cup F) PROVE SlotKept(i)
    BY <2>4 DEF SlotKept
  <2>8. NoSlotDeleted
    BY <2>3, <2>4, <2>5 DEF NoSlotDeleted
  <2> QED BY <2>6, <2>7, <2>8
<1>2. CASE write_summary(k)
  <2> DEFINE C == Consolidated(mem, run[k].cluster)
             n == FreshId
             new == NewRow(run[k].texts, NoAttr, "reflection")
  <2>1. /\ Unlocked(C)
        /\ \A i \in Ids : mem'[i] = IF i = n THEN new
                                    ELSE IF i \in C THEN [mem[i] EXCEPT !.consolidated_into = n]
                                    ELSE mem[i]
    BY <1>2 DEF write_summary
  <2>2. n \in Ids /\ mem[n] = NoRow /\ \A w \in Workers : writes[w][n] = NoRow
    BY <1>2, FreshIdType DEF write_summary, FreshIds
  <2>3. /\ new \in Row /\ new # NoRow /\ new.attribute \notin SingleValued
        /\ new.stale = FALSE /\ new.consolidated_into = NoId
    <3>1. run[k].texts \in SUBSET Facts
      BY DEF IInv, TypeOK, ReflectionTypeOK, Run
    <3>2. new \in Row
      BY <3>1, NewRowType DEF Sources
    <3> QED BY <3>2, NoRowAssumption, MemoriesAssumption DEF NewRow
  <2>4. \A i \in C : i \in Ids /\ i # n /\ mem[i] \in Row /\ mem[i] # NoRow
    <3> TAKE i \in C
    <3>1. i \in Undeleted(mem)
      BY DEF Consolidated
    <3> QED BY <1>0, <2>2, <3>1, RowType, NoRowAssumption
  <2> HIDE DEF C, n, new
  <2>5. mem'[n] = new /\ \A i \in Ids : i # n /\ i \notin C => mem'[i] = mem[i]
    BY <2>1, <2>2
  <2>6. ASSUME NEW i \in C
        PROVE  /\ mem'[i] \in Row /\ mem'[i].deleted = mem[i].deleted
               /\ mem'[i].attribute = mem[i].attribute /\ mem'[i].stale = mem[i].stale
               /\ mem'[i].superseded_by = mem[i].superseded_by
               /\ mem'[i].consolidated_into = n
    <3>1. mem'[i] = [mem[i] EXCEPT !.consolidated_into = n] /\ mem[i] \in Row
      BY <2>1, <2>4
    <3>2. mem'[i] \in Row
      BY <2>2, <3>1 DEF Row
    <3> QED BY <3>1, <3>2 DEF Row
  <2>7. ASSUME NEW i \in C PROVE SlotKept(i)
    <3>1. \A w \in Workers : writes[w][i] = NoRow
      BY <2>1, UnlockedRows
    <3> QED BY <2>2, <2>3, <2>4, <2>5, <2>6, <3>1 DEF SlotKept
  <2>8. SlotKept(n)
    BY <2>2, <2>3, <2>5 DEF SlotKept
  <2>9. ASSUME NEW i \in Ids, i # n, i \notin C PROVE SlotKept(i)
    BY <2>5, <2>9 DEF SlotKept
  <2>10. NoSlotDeleted
    BY <2>2, <2>5, <2>6 DEF NoSlotDeleted
  <2> QED BY <2>7, <2>8, <2>9, <2>10
<1>3. CASE UNCHANGED mem
  BY <1>3 DEF SlotKept, NoSlotDeleted
<1> QED BY <1>1, <1>2, <1>3
        DEF ReflectionNext, ReflectionStep, ReflectionScheduled, ReflectionForSubject,
            SelectCluster, NoCluster, ReflectionAbort, storeVars


\* A step that only adds to the uncommitted work of transaction w.
LEMMA OwnRegister ==
    ASSUME RegisterInv, NEW w \in Workers, UNCHANGED <<mem, req>>,
           \A v \in Workers \ {w} : writes'[v] = writes[v],
           SummarySlots(View(w)'), FillsOf(w)'
    PROVE  RegisterInv'
<1>1. SummarySlots(mem)' /\ RequestInv'
  BY DEF RegisterInv, RequestInv, SummarySlots
<1>2. ASSUME NEW v \in Workers \ {w} PROVE SummarySlots(View(v)') /\ FillsOf(v)'
  <2>1. View(v)' = View(v)
    BY DEF View
  <2>2. FillsOf(v)' <=> FillsOf(v)
    BY DEF FillsOf, NewIn
  <2> QED BY <2>1, <2>2 DEF RegisterInv
<1> QED BY <1>1, <1>2 DEF RegisterInv

\* reinforce changes neither slot nor pointer of a row.
LEMMA ReinforceRegister ==
    ASSUME IInv, HistoryInv, RegisterInv, NEW w \in Workers, CaptureReinforce(w), UNCHANGED req
    PROVE  RegisterInv'
<1> DEFINE m == tx[w].match
           V == View(w)
           U == View(w)'
           x == [V[m] EXCEPT !.reinforced = @ + 1]
<1>0. writes \in [Workers -> Table] /\ V \in Table /\ m \in Ids
  BY ViewType DEF IInv, TypeOK, StoreTypeOK, CaptureTypeOK, Tx, CaptureReinforce
<1>1. UNCHANGED mem
  BY DEF CaptureReinforce
<1>2. m \in Undeleted(V) => SameMarks(x, V[m]) /\ x # NoRow /\ V[m] # NoRow
  <2> HAVE m \in Undeleted(V)
  <2>1. V[m] \in Row
    BY <1>0, RowType
  <2> HIDE DEF V, m
  <2>2. SameMarks(x, V[m])
    BY <2>1 DEF SameMarks, Row
  <2> HIDE DEF x
  <2> QED BY <2>1, <2>2, NoRowAssumption DEF SameMarks
<1>3. /\ m \in Undeleted(V) => writes'[w] = [writes[w] EXCEPT ![m] = x]
      /\ m \notin Undeleted(V) => writes'[w] = writes[w]
      /\ \A v \in Workers \ {w} : writes'[v] = writes[v]
  BY <1>0 DEF CaptureReinforce, reinforce
<1> HIDE DEF x
<1>4. \A i \in Ids :
         \/ writes'[w][i] = writes[w][i] /\ U[i] = V[i]
         \/ /\ V[i] # NoRow /\ SameMarks(writes'[w][i], V[i])
            /\ writes'[w][i] # NoRow /\ U[i] = writes'[w][i]
  <2> TAKE i \in Ids
  <2>1. CASE m \in Undeleted(V) /\ i = m
    <3>1. writes'[w][i] = x
      BY <1>0, <1>3, <2>1 DEF Table
    <3>2. View(w)'[i] = writes'[w][i]
      BY <1>2, <2>1, <3>1 DEF View
    <3> QED BY <1>2, <2>1, <3>1, <3>2
  <2>2. CASE ~(m \in Undeleted(V) /\ i = m)
    <3>1. writes'[w][i] = writes[w][i]
      BY <1>0, <1>3, <2>2 DEF Table
    <3> QED BY <1>1, <3>1 DEF View
  <2> QED BY <2>1, <2>2
<1>5. \A i \in Ids : /\ V[i] = IF writes[w][i] # NoRow THEN writes[w][i] ELSE mem[i]
  BY DEF View
<1>6. SummarySlots(V) /\ FillsOf(w)
  BY DEF RegisterInv
<1> HIDE DEF U, V, m
<1>7. SummarySlots(U)
  <2>1. \A i \in Ids : \/ U[i] = V[i]
                       \/ V[i] # NoRow /\ U[i] # NoRow /\ SameMarks(U[i], V[i])
    BY <1>4
  <2> QED BY <1>6, <2>1, SummariesKept DEF SameMarks
<1>8. FillsOf(w)'
  <2>1. ASSUME NEW i \in Ids, writes'[w][i] # NoRow
        PROVE  /\ mem[i] # NoRow => writes'[w][i].attribute = mem[i].attribute
               /\ mem[i] = NoRow => /\ writes[w][i] # NoRow
                                    /\ writes'[w][i].attribute = writes[w][i].attribute
                                    /\ writes'[w][i].superseded_by = writes[w][i].superseded_by
               /\ mem[i].superseded_by = NoId /\ writes'[w][i].superseded_by # NoId =>
                     writes[w][i] # NoRow /\ writes[w][i].superseded_by # NoId
    <3>1. CASE writes'[w][i] = writes[w][i]
      BY <1>6, <2>1, <3>1 DEF FillsOf, Rows
    <3>2. CASE V[i] # NoRow /\ SameMarks(writes'[w][i], V[i])
      BY <1>5, <1>6, <3>2 DEF FillsOf, Rows, SameMarks
    <3> QED BY <1>4, <3>1, <3>2
  <2>2. \A i \in Ids : writes[w][i] # NoRow => writes'[w][i] # NoRow
    BY <1>4
  <2>3. \A a \in SingleValued : NewIn(mem', writes'[w], a) = NewIn(mem, writes[w], a)
    BY <1>1, <2>1, <2>2 DEF NewIn
  <2>4. \A i \in Rows(mem) : writes'[w][i] # NoRow => writes'[w][i].attribute = mem[i].attribute
    BY <2>1 DEF Rows
  <2>5. \A a \in SingleValued :
           NewIn(mem', writes'[w], a) # {} =>
              \E i \in NewIn(mem', writes'[w], a) : writes'[w][i].superseded_by = NoId
    <3> SUFFICES ASSUME NEW a \in SingleValued, NewIn(mem, writes[w], a) # {}
                 PROVE  \E i \in NewIn(mem, writes[w], a) : writes'[w][i].superseded_by = NoId
      BY <2>3
    <3>1. PICK i \in NewIn(mem, writes[w], a) : writes[w][i].superseded_by = NoId
      BY <1>6 DEF FillsOf
    <3>2. i \in Ids /\ mem[i] = NoRow /\ writes[w][i] # NoRow
      BY DEF NewIn
    <3>3. writes'[w][i].superseded_by = NoId
      BY <2>1, <2>2, <3>1, <3>2
    <3> QED BY <3>3
  <2>6. ASSUME NEW i \in Rows(mem), writes'[w][i] # NoRow, mem[i].attribute \in SingleValued,
               mem[i].superseded_by = NoId, writes'[w][i].superseded_by # NoId
        PROVE  NewIn(mem', writes'[w], mem[i].attribute) # {}
    <3>1. writes[w][i] # NoRow /\ writes[w][i].superseded_by # NoId
      BY <2>1, <2>6 DEF Rows
    <3>2. NewIn(mem, writes[w], mem[i].attribute) # {}
      BY <1>6, <2>6, <3>1 DEF FillsOf
    <3> QED BY <2>3, <2>6, <3>2
  <2> QED BY <1>1, <2>4, <2>5, <2>6 DEF FillsOf
<1> QED BY <1>1, <1>3, <1>7, <1>8, OwnRegister DEF U

\* An insertion retires a value only where it adds one, and the one it adds is live.
LEMMA InsertRegister ==
    ASSUME IInv, HistoryInv, RegisterInv, NEW w \in Workers, CaptureInsert(w), UNCHANGED req
    PROVE  RegisterInv'
<1> DEFINE n == FreshId
           R == Retired(w)
           S == Staled(w)
           V == View(w)
           U == View(w)'
           slot == SlotOf(Current(w))
<1>1. /\ n \in Ids /\ mem[n] = NoRow /\ V[n] = NoRow /\ writes[w][n] = NoRow
      /\ \A i \in R \cup S : i \in Ids /\ i # n /\ V[i] # NoRow
      /\ \A i \in R : V[i].attribute = slot /\ slot \in SingleValued
  BY InsertRows
<1>2. /\ UNCHANGED mem /\ \A v \in Workers \ {w} : writes'[v] = writes[v]
      /\ writes'[w][n] # NoRow /\ U[n] = writes'[w][n] /\ writes'[w][n].attribute = slot
      /\ writes'[w][n].stale = FALSE /\ writes'[w][n].superseded_by = NoId
      /\ writes'[w][n].consolidated_into = NoId
  BY InsertEffect
<1>3. \A i \in R \cup S :
         /\ writes'[w][i] # NoRow /\ U[i] = writes'[w][i]
         /\ writes'[w][i].attribute = V[i].attribute
         /\ writes'[w][i].consolidated_into = V[i].consolidated_into
         /\ i \notin R => writes'[w][i].superseded_by = V[i].superseded_by
         /\ writes'[w][i].stale = TRUE => V[i].stale = TRUE \/ i \in S
  <2> TAKE i \in R \cup S
  <2>1. /\ writes'[w][i] # NoRow /\ U[i] = writes'[w][i]
        /\ writes'[w][i].attribute = V[i].attribute
        /\ writes'[w][i].consolidated_into = V[i].consolidated_into
        /\ writes'[w][i].superseded_by = IF i \in R THEN n ELSE V[i].superseded_by
    BY InsertEffect
  <2>2. writes'[w][i].stale = TRUE => V[i].stale = TRUE \/ i \in S
    BY InsertEffect
  <2> QED BY <2>1, <2>2
<1>4. \A i \in Ids : i # n /\ i \notin R \cup S => writes'[w][i] = writes[w][i] /\ U[i] = V[i]
  BY InsertEffect
<1>5. \A i \in Ids : V[i] = IF writes[w][i] # NoRow THEN writes[w][i] ELSE mem[i]
  BY DEF View
<1>6. SummarySlots(V) /\ FillsOf(w)
  BY DEF RegisterInv
<1>7. \A i \in S : V[i].attribute \notin SingleValued
  <2> TAKE i \in S
  <2>1. PICK s \in R : V[s].consolidated_into = i
    BY DEF Staled, StaleTargets
  <2>2. s \in Rows(V) /\ i # NoId
    BY <1>1, MemoriesAssumption DEF Rows
  <2> HIDE DEF V, R, S
  <2> QED BY <1>6, <2>1, <2>2 DEF SummarySlots
<1> HIDE DEF n, R, S, V, U, slot
<1>8. SummarySlots(U)
  <2>1. \A i \in Ids : V[i] # NoRow => U[i] # NoRow /\ U[i].attribute = V[i].attribute
    BY <1>1, <1>3, <1>4
  <2>2. ASSUME NEW i \in Ids, U[i] # NoRow
        PROVE  /\ U[i].stale = TRUE => \/ U[i].attribute \notin SingleValued
                                       \/ V[i] # NoRow /\ V[i].stale = TRUE
               /\ U[i].consolidated_into # NoId =>
                     V[i] # NoRow /\ V[i].consolidated_into = U[i].consolidated_into
    <3>1. CASE i = n
      BY <1>2, <3>1
    <3>2. CASE i \in R \cup S
      BY <1>1, <1>3, <1>7, <3>2
    <3>3. CASE i # n /\ i \notin R \cup S
      BY <1>4, <2>2, <3>3
    <3> QED BY <3>1, <3>2, <3>3
  <2> QED BY <1>6, <2>1, <2>2, SummariesKept
<1>9. FillsOf(w)'
  <2>1. \A i \in Ids : writes[w][i] # NoRow => /\ writes'[w][i] # NoRow
                                               /\ writes'[w][i].attribute = writes[w][i].attribute
    BY <1>1, <1>3, <1>4, <1>5
  <2>2. \A a \in SingleValued : NewIn(mem, writes[w], a) \subseteq NewIn(mem', writes'[w], a)
    BY <1>2, <2>1 DEF NewIn
  <2>3. \A a \in SingleValued : \A i \in NewIn(mem', writes'[w], a) :
           i = n \/ i \in NewIn(mem, writes[w], a)
    BY <1>1, <1>2, <1>3, <1>4, <1>5 DEF NewIn
  <2>4. slot \in SingleValued => n \in NewIn(mem', writes'[w], slot)
    BY <1>1, <1>2 DEF NewIn
  <2>5. \A i \in Rows(mem) : writes'[w][i] # NoRow => writes'[w][i].attribute = mem[i].attribute
    <3> SUFFICES ASSUME NEW i \in Ids, mem[i] # NoRow, writes'[w][i] # NoRow
                 PROVE  writes'[w][i].attribute = mem[i].attribute
      BY DEF Rows
    <3>1. V[i].attribute = mem[i].attribute /\ (writes[w][i] # NoRow => V[i] = writes[w][i])
      BY <1>5, <1>6 DEF FillsOf, Rows
    <3> QED BY <1>1, <1>3, <1>4, <3>1
  <2>6. \A a \in SingleValued :
           NewIn(mem', writes'[w], a) # {} =>
              \E i \in NewIn(mem', writes'[w], a) : writes'[w][i].superseded_by = NoId
    <3> SUFFICES ASSUME NEW a \in SingleValued, NewIn(mem', writes'[w], a) # {}
                 PROVE  \E i \in NewIn(mem', writes'[w], a) : writes'[w][i].superseded_by = NoId
      OBVIOUS
    <3>1. CASE a = slot
      BY <1>2, <2>4, <3>1
    <3>2. CASE a # slot
      <4>1. NewIn(mem, writes[w], a) # {}
        <5>1. n \notin NewIn(mem', writes'[w], a)
          BY <1>2, <3>2 DEF NewIn
        <5> QED BY <2>3, <5>1
      <4>2. PICK i \in NewIn(mem, writes[w], a) : writes[w][i].superseded_by = NoId
        BY <1>6, <4>1 DEF FillsOf
      <4>3. i \in Ids /\ V[i] = writes[w][i] /\ V[i].attribute = a /\ i # n
        BY <1>1, <1>5 DEF NewIn
      <4>4. i \notin R
        BY <1>1, <3>2, <4>3
      <4>5. writes'[w][i].superseded_by = NoId
        BY <1>3, <1>4, <4>2, <4>3, <4>4
      <4> QED BY <2>2, <4>5
    <3> QED BY <3>1, <3>2
  <2>7. ASSUME NEW i \in Rows(mem), writes'[w][i] # NoRow, mem[i].attribute \in SingleValued,
               mem[i].superseded_by = NoId, writes'[w][i].superseded_by # NoId
        PROVE  NewIn(mem', writes'[w], mem[i].attribute) # {}
    <3>0. i \in Ids /\ i # n /\ mem[i] # NoRow
      BY <1>1 DEF Rows
    <3>1. CASE i \in R
      <4>1. V[i].attribute = mem[i].attribute
        BY <1>5, <1>6, <3>0 DEF FillsOf, Rows
      <4> QED BY <1>1, <2>4, <3>1, <4>1
    <3>2. CASE i \notin R
      <4>1. writes[w][i] # NoRow /\ writes[w][i].superseded_by # NoId
        BY <1>3, <1>4, <1>5, <2>7, <3>0, <3>2
      <4>2. NewIn(mem, writes[w], mem[i].attribute) # {}
        BY <1>6, <2>7, <4>1 DEF FillsOf
      <4> QED BY <2>2, <2>7, <4>2
    <3> QED BY <3>1, <3>2
  <2> QED BY <1>2, <2>5, <2>6, <2>7 DEF FillsOf
<1> QED BY <1>2, <1>8, <1>9, OwnRegister DEF U

\* A commit or a rollback leaves no transaction, and a table that a transaction saw.
LEMMA EndRegister ==
    ASSUME IInv, IInv', HistoryInv, RegisterInv, NEW w \in Workers,
           CaptureCommit(w) \/ CaptureRollback(w), UNCHANGED req
    PROVE  RegisterInv'
<1>1. /\ tx[w].pc \in Holding /\ EndTx(w) /\ mem' \in {mem, View(w)}
  BY DEF CaptureCommit, CaptureRollback, Holding
<1>2. \A v \in Workers : \A i \in Ids : writes'[v][i] = NoRow
  BY <1>1, EndLeaves
<1>3. \A v \in Workers : View(v)' = mem'
  BY <1>2 DEF View, IInv, TypeOK, StoreTypeOK, Table
<1>4. SummarySlots(mem')
  BY <1>1 DEF RegisterInv
<1>5. RequestInv'
  <2>1. Rows(mem) \subseteq Rows(mem')
    BY <1>1, ViewAt DEF Rows
  <2> QED BY <2>1 DEF RegisterInv, RequestInv
<1>6. \A v \in Workers : FillsOf(v)'
  BY <1>2 DEF FillsOf, NewIn, Rows
<1> QED BY <1>3, <1>4, <1>5, <1>6 DEF RegisterInv

\* Every step of every actor preserves the invariant.
LEMMA NextRegister == IInv /\ HistoryInv /\ RegisterInv /\ [Next]_vars => RegisterInv'
<1> SUFFICES ASSUME IInv, HistoryInv, RegisterInv, [Next]_vars PROVE RegisterInv'
  OBVIOUS
<1>0. IInv'
  BY NextIInv
<1>1. ASSUME UNCHANGED storeVars, RequestInv' PROVE RegisterInv'
  <2>1. UNCHANGED <<mem, writes>> /\ \A w \in Workers : View(w)' = View(w)
    BY <1>1 DEF storeVars, View
  <2>2. \A w \in Workers : FillsOf(w)' <=> FillsOf(w)
    BY <2>1 DEF FillsOf
  <2> QED BY <1>1, <2>1, <2>2 DEF RegisterInv
<1>2. CASE UNCHANGED vars
  <2>1. UNCHANGED storeVars /\ RequestInv'
    BY <1>2 DEF vars, storeVars, governanceVars, RegisterInv, RequestInv
  <2> QED BY <1>1, <2>1
<1>3. ASSUME NEW w \in Workers, CaptureNext(w), UNCHANGED <<governanceVars, reflectionVars>>
      PROVE  RegisterInv'
  <2>0. UNCHANGED req
    BY <1>3 DEF governanceVars
  <2>1. CASE UNCHANGED storeVars
    <3>1. RequestInv'
      BY <2>0, <2>1 DEF storeVars, RegisterInv, RequestInv
    <3> QED BY <1>1, <2>1, <3>1
  <2>2. CASE CaptureReinforce(w) \/ CaptureInsert(w)
    BY <2>0, <2>2, ReinforceRegister, InsertRegister
  <2>3. CASE CaptureCommit(w) \/ CaptureRollback(w)
    BY <1>0, <2>0, <2>3, EndRegister
  <2> QED BY <1>3, <2>1, <2>2, <2>3
          DEF CaptureNext, CaptureStep, CaptureStart, CaptureLock, CaptureLockTimeout,
              CaptureTombstones, CaptureFindSimilar, CaptureIgnore
<1>4. ASSUME NEW r \in Requests, GovernanceNext(r) PROVE RegisterInv'
  <2>1. \A i \in Ids : SlotKept(i)
    BY <1>4, GovernanceSlots
  <2>2. UNCHANGED writes
    BY <1>4, GovernanceOutside
  <2>3. /\ Rows(mem) \subseteq Rows(mem') /\ SummarySlots(mem')
        /\ \A w \in Workers : SummarySlots(View(w)') /\ FillsOf(w)'
    BY <2>1, <2>2, OutsideRegister
  <2>4. RequestInv'
    <3> SUFFICES ASSUME NEW q \in Requests, req'[q].pc # "idle" PROVE req'[q].id \in Rows(mem)
      BY <2>3 DEF RequestInv
    <3>0. req \in [Requests -> Request]
      BY DEF IInv, TypeOK, GovernanceTypeOK
    <3>1. CASE q # r
      <4>1. req'[q] = req[q]
        BY <1>4, <3>0, <3>1
           DEF GovernanceNext, DeleteCheck, PatchCheck, RequestStep, DeleteInvalidate,
               PatchInvalidate, invalidate_summaries_for, DeleteCommit, PatchCommit, Mutate,
               RequestAbort
      <4> QED BY <4>1 DEF RegisterInv, RequestInv
    <3>2. CASE q = r
      <4>1. ASSUME NEW i \in Ids, DeleteCheck(r, i) \/ \E f \in Facts : PatchCheck(r, i, f)
            PROVE  req'[r].id \in Rows(mem)
        <5>1. i \in Undeleted(mem)
          BY <4>1 DEF DeleteCheck, PatchCheck, ensure_owned
        <5>2. req'[r].id = i
          BY <3>0, <4>1 DEF DeleteCheck, PatchCheck
        <5> QED BY <5>1, <5>2 DEF Undeleted
      <4>2. CASE DeleteInvalidate(r) \/ PatchInvalidate(r)
        <5>1. req[r].pc # "idle" /\ req'[r].id = req[r].id
          <6>1. \A to : [req EXCEPT ![r].pc = to][r].id = req[r].id
            BY <3>0 DEF Request
          <6> QED BY <4>2, <6>1 DEF DeleteInvalidate, PatchInvalidate, invalidate_summaries_for
        <5> QED BY <3>2, <5>1 DEF RegisterInv, RequestInv
      <4>3. CASE DeleteCommit(r) \/ PatchCommit(r) \/ RequestAbort(r)
        <5>1. req'[r] = IdleRequest
          BY <3>0, <4>3 DEF DeleteCommit, PatchCommit, Mutate, RequestAbort
        <5>2. IdleRequest.pc = "idle"
          BY DEF IdleRequest
        <5> QED BY <3>2, <5>1, <5>2
      <4> QED BY <1>4, <3>2, <4>1, <4>2, <4>3 DEF GovernanceNext, RequestStep
    <3> QED BY <3>1, <3>2
  <2> QED BY <2>3, <2>4 DEF RegisterInv
<1>5. ASSUME NEW k \in Runs, ReflectionNext(k), UNCHANGED <<captureVars, governanceVars>>
      PROVE  RegisterInv'
  <2>1. \A i \in Ids : SlotKept(i)
    BY <1>5, ReflectionSlots
  <2>2. UNCHANGED writes /\ UNCHANGED req
    BY <1>5, ReflectionOutside DEF governanceVars
  <2>3. /\ Rows(mem) \subseteq Rows(mem') /\ SummarySlots(mem')
        /\ \A w \in Workers : SummarySlots(View(w)') /\ FillsOf(w)'
    BY <2>1, <2>2, OutsideRegister
  <2>4. RequestInv'
    BY <2>2, <2>3 DEF RegisterInv, RequestInv
  <2> QED BY <2>3, <2>4 DEF RegisterInv
<1> QED BY <1>2, <1>3, <1>4, <1>5 DEF Next

\* An empty store has empty slots.
LEMMA InitRegister == Init => RegisterInv
<1> SUFFICES ASSUME Init PROVE RegisterInv
  OBVIOUS
<1>1. /\ \A i \in Ids : mem[i] = NoRow
      /\ \A w \in Workers : \A i \in Ids : writes[w][i] = NoRow /\ View(w)[i] = NoRow
  BY DEF Init, StoreInit, NoWrites, View
<1>2. SummarySlots(mem) /\ \A w \in Workers : SummarySlots(View(w)) /\ FillsOf(w)
  BY <1>1 DEF SummarySlots, FillsOf, NewIn, Rows
<1>3. RequestInv
  BY DEF Init, GovernanceInit, IdleRequest, RequestInv
<1> QED BY <1>2, <1>3 DEF RegisterInv

\* What every state of the store satisfies.
LEMMA RegisterAlways == Spec => [](IInv /\ HistoryInv /\ RegisterInv)
<1>1. IInv /\ HistoryInv /\ RegisterInv /\ [Next]_vars => RegisterInv'
  BY NextRegister
<1> QED BY <1>1, InitRegister, HistoryAlways, PTL DEF Spec


\* What the registers show of the table.
Spent == [a \in SingleValued |-> Filled(mem, a)]
Shown == [a \in SingleValued |-> Filled(mem, a) \cap Live(mem)]
Removed == [a \in SingleValued |-> Filled(mem, a) \ Undeleted(mem)]

\* Steps that neither delete a value nor move one in or out leave the registers alone.
LEMMA RegisterRests ==
    ASSUME IInv, \A i \in Ids : SlotKept(i), NoSlotDeleted
    PROVE  UNCHANGED <<Spent, Shown, Removed>>
<1>1. ASSUME NEW a \in SingleValued
      PROVE  /\ Filled(mem', a) = Filled(mem, a)
             /\ \A i \in Filled(mem, a) : /\ i \in Undeleted(mem') <=> i \in Undeleted(mem)
                                          /\ i \in Live(mem') <=> i \in Live(mem)
  <2>1. Filled(mem', a) = Filled(mem, a)
    BY NoRowAssumption DEF SlotKept, Filled, Rows
  <2>2. ASSUME NEW i \in Filled(mem, a)
        PROVE  /\ i \in Undeleted(mem') <=> i \in Undeleted(mem)
               /\ i \in Live(mem') <=> i \in Live(mem)
    <3>1. i \in Ids /\ mem[i] # NoRow /\ mem[i].attribute = a
      BY DEF Filled, Rows
    <3>2. mem'[i] # NoRow /\ mem'[i].deleted = mem[i].deleted
      BY <3>1, NoRowAssumption DEF SlotKept, NoSlotDeleted
    <3>3. mem'[i].superseded_by = mem[i].superseded_by
      BY <3>1 DEF SlotKept
    <3> QED BY <3>1, <3>2, <3>3 DEF Live, Undeleted, Rows
  <2> QED BY <2>1, <2>2
<1>2. ASSUME NEW a \in SingleValued
      PROVE  /\ Filled(mem', a) = Filled(mem, a)
             /\ Filled(mem', a) \cap Live(mem') = Filled(mem, a) \cap Live(mem)
             /\ Filled(mem', a) \ Undeleted(mem') = Filled(mem, a) \ Undeleted(mem)
  BY <1>1
<1> QED BY <1>2 DEF Spent, Shown, Removed

\* A delete takes one value from one register, or none.
LEMMA DeleteRefines ==
    ASSUME IInv, NEW j \in Ids, OneDeleted(j)
    PROVE  Register!Next \/ UNCHANGED <<Spent, Shown, Removed>>
<1> DEFINE a == mem[j].attribute
<1>1. /\ j \in Undeleted(mem) /\ mem[j] \in Row /\ mem[j] # NoRow /\ mem \in Table
      /\ mem' = [mem EXCEPT ![j] = [mem[j] EXCEPT !.deleted = TRUE]]
  BY RowType, NoRowAssumption DEF OneDeleted, IInv, TypeOK, StoreTypeOK
<1>2. /\ mem'[j] # NoRow /\ mem'[j].deleted = TRUE /\ mem'[j].attribute = a
      /\ \A i \in Ids \ {j} : mem'[i] = mem[i]
  <2>1. mem'[j] = [mem[j] EXCEPT !.deleted = TRUE] /\ \A i \in Ids \ {j} : mem'[i] = mem[i]
    BY <1>1 DEF Table
  <2>2. mem'[j] \in Row /\ mem'[j].deleted = TRUE /\ mem'[j].attribute = mem[j].attribute
    <3> DEFINE x == mem[j]
               y == [x EXCEPT !.deleted = TRUE]
    <3>1. mem'[j] = y /\ x \in Row
      BY <1>1, <2>1
    <3> HIDE DEF x
    <3>2. y \in Row /\ y.deleted = TRUE /\ y.attribute = x.attribute
      <4>1. x \in Row
        BY <3>1
      <4> QED BY <4>1 DEF Row
    <3> HIDE DEF y
    <3>3. mem'[j] \in Row /\ mem'[j].deleted = TRUE /\ mem'[j].attribute = x.attribute
      BY <3>1, <3>2
    <3> QED BY <3>3 DEF x
  <2> QED BY <2>1, <2>2, NoRowAssumption
<1>3. /\ \A b \in SingleValued : Filled(mem', b) = Filled(mem, b)
      /\ Undeleted(mem') = Undeleted(mem) \ {j} /\ Live(mem') = Live(mem) \ {j}
      /\ j \in Filled(mem, a) /\ \A b \in SingleValued \ {a} : j \notin Filled(mem, b)
  <2>1. \A b \in SingleValued : Filled(mem', b) = Filled(mem, b)
    BY <1>1, <1>2 DEF Filled, Rows
  <2>2. Undeleted(mem') = Undeleted(mem) \ {j}
    BY <1>1, <1>2 DEF Undeleted, Rows
  <2>3. Live(mem') = Live(mem) \ {j}
    BY <1>2, <2>2 DEF Live, Undeleted, Rows
  <2>4. j \in Filled(mem, a) /\ \A b \in SingleValued \ {a} : j \notin Filled(mem, b)
    BY <1>1 DEF Filled, Rows
  <2> QED BY <2>1, <2>2, <2>3, <2>4
<1> HIDE DEF a
<1>4. CASE a \in SingleValued
  <2>1. j \in Spent[a] \ Removed[a]
    BY <1>1, <1>3, <1>4 DEF Spent, Removed
  <2>2. Spent' = Spent
    BY <1>3 DEF Spent
  <2>3. Shown' = [Shown EXCEPT ![a] = @ \ {j}]
    BY <1>3, <1>4 DEF Shown
  <2>4. Removed' = [Removed EXCEPT ![a] = @ \cup {j}]
    <3>1. \A b \in SingleValued :
             Filled(mem, b) \ (Undeleted(mem) \ {j})
               = IF b = a THEN (Filled(mem, b) \ Undeleted(mem)) \cup {j}
                 ELSE Filled(mem, b) \ Undeleted(mem)
      BY <1>3
    <3> QED BY <1>3, <1>4, <3>1 DEF Removed
  <2>5. Register!Delete(a, j)
    BY <2>1, <2>2, <2>3, <2>4 DEF Register!Delete, Spent, Shown, Removed
  <2> QED BY <1>4, <2>5 DEF Register!Next
<1>5. CASE a \notin SingleValued
  BY <1>3, <1>5 DEF Spent, Shown, Removed
<1> QED BY <1>4, <1>5

\* A commit gives each slot the transaction filled its last value, and leaves the
\* others alone.
LEMMA CommitRefines ==
    ASSUME IInv, IInv', HistoryInv, RegisterInv, NEW w \in Workers, CaptureCommit(w)
    PROVE  Register!Next \/ UNCHANGED <<Spent, Shown, Removed>>
<1> DEFINE New(a) == NewIn(mem, writes[w], a)
           S == {a \in SingleValued : New(a) # {}}
<1>0. mem' = View(w) /\ FillsOf(w) /\ VersionOf(w)
  BY DEF CaptureCommit, RegisterInv, HistoryInv, VersionInv
<1>1. ASSUME NEW i \in Ids, mem[i] # NoRow
      PROVE  /\ mem'[i] # NoRow /\ mem'[i].attribute = mem[i].attribute
             /\ mem'[i].deleted <=> mem[i].deleted
             /\ mem[i].superseded_by # NoId => mem'[i].superseded_by # NoId
             /\ mem[i].attribute \in SingleValued /\ New(mem[i].attribute) = {} =>
                   (mem[i].superseded_by = NoId => mem'[i].superseded_by = NoId)
  <2>1. CASE writes[w][i] = NoRow
    BY <1>0, <1>1, <2>1, ViewAt
  <2>2. CASE writes[w][i] # NoRow
    <3>1. mem'[i] = writes[w][i] /\ mem'[i].deleted = FALSE /\ ~mem[i].deleted
      BY <1>0, <1>1, <2>2, ViewAt DEF VersionOf, IInv, WritesUndeleted
    <3>2. /\ mem'[i].attribute = mem[i].attribute
          /\ mem[i].superseded_by # NoId => mem'[i].superseded_by # NoId
      BY <1>0, <1>1, <2>2, <3>1 DEF FillsOf, VersionOf, Rows
    <3>3. mem[i].attribute \in SingleValued /\ New(mem[i].attribute) = {} =>
             (mem[i].superseded_by = NoId => mem'[i].superseded_by = NoId)
      BY <1>0, <1>1, <2>2, <3>1 DEF FillsOf, Rows
    <3> QED BY <2>2, <3>1, <3>2, <3>3
  <2> QED BY <2>1, <2>2
<1>2. ASSUME NEW i \in Ids, mem[i] = NoRow
      PROVE  mem'[i] = writes[w][i] /\ (mem'[i] # NoRow => mem'[i].deleted = FALSE)
  BY <1>0, <1>2, ViewAt DEF VersionOf
<1>3. ASSUME NEW a \in SingleValued
      PROVE  /\ Filled(mem', a) = Filled(mem, a) \cup New(a)
             /\ New(a) \cap Filled(mem, a) = {}
             /\ New(a) \subseteq Undeleted(mem')
             /\ \A i \in Filled(mem, a) : i \in Undeleted(mem') <=> i \in Undeleted(mem)
             /\ New(a) = {} => \A i \in Filled(mem, a) : i \in Live(mem') <=> i \in Live(mem)
  <2>1. Filled(mem', a) = Filled(mem, a) \cup New(a) /\ New(a) \cap Filled(mem, a) = {}
    <3>1. ASSUME NEW i \in Ids, mem[i] # NoRow
          PROVE  /\ i \in Filled(mem', a) <=> i \in Filled(mem, a)
                 /\ i \notin New(a)
      BY <1>1, <3>1 DEF Filled, Rows, NewIn
    <3>2. ASSUME NEW i \in Ids, mem[i] = NoRow
          PROVE  /\ i \in Filled(mem', a) <=> i \in New(a)
                 /\ i \notin Filled(mem, a)
      BY <1>2, <3>2 DEF Filled, Rows, NewIn
    <3>3. Filled(mem', a) \subseteq Ids /\ Filled(mem, a) \subseteq Ids /\ New(a) \subseteq Ids
      BY DEF Filled, Rows, NewIn
    <3> HIDE DEF New
    <3> QED BY <3>1, <3>2, <3>3
  <2>2. New(a) \subseteq Undeleted(mem')
    BY <1>2 DEF NewIn, Undeleted, Rows
  <2>3. \A i \in Filled(mem, a) : i \in Undeleted(mem') <=> i \in Undeleted(mem)
    BY <1>1 DEF Filled, Undeleted, Rows
  <2>4. ASSUME New(a) = {}, NEW i \in Filled(mem, a) PROVE i \in Live(mem') <=> i \in Live(mem)
    <3>1. i \in Ids /\ mem[i] # NoRow /\ mem[i].attribute = a
      BY DEF Filled, Rows
    <3>2. mem[i].superseded_by = NoId <=> mem'[i].superseded_by = NoId
      BY <1>1, <2>4, <3>1
    <3> QED BY <2>3, <3>2 DEF Live
  <2> QED BY <2>1, <2>2, <2>3, <2>4
<1>4. ASSUME NEW a \in SingleValued
      PROVE  /\ Filled(mem', a) \ Undeleted(mem') = Filled(mem, a) \ Undeleted(mem)
             /\ New(a) = {} => /\ Filled(mem', a) = Filled(mem, a)
                               /\ Filled(mem', a) \cap Live(mem') = Filled(mem, a) \cap Live(mem)
  BY <1>3
<1>5. ASSUME NEW a \in SingleValued, New(a) # {}
      PROVE  \E v \in Filled(mem', a) \ Filled(mem, a) : Filled(mem', a) \cap Live(mem') = {v}
  <2>1. PICK v \in New(a) : writes[w][v].superseded_by = NoId
    BY <1>0, <1>5 DEF FillsOf
  <2>2. v \in Filled(mem', a) \ Filled(mem, a)
    BY <1>3
  <2>3. v \in Live(mem')
    <3>1. v \in Undeleted(mem') /\ v \in Ids /\ mem[v] = NoRow
      BY <1>3 DEF NewIn
    <3> QED BY <1>2, <2>1, <3>1 DEF Live
  <2>4. \A i \in Filled(mem', a) \cap Live(mem') : i = v
    <3>1. OneLivePerSlot(mem')
      BY DEF IInv, SlotSingleValued
    <3> QED BY <2>2, <2>3, <3>1 DEF OneLivePerSlot, Filled
  <2> QED BY <2>2, <2>3, <2>4
<1> HIDE DEF New
<1>6. CASE S = {}
  <2>1. \A a \in SingleValued : New(a) = {}
    BY <1>6
  <2> QED BY <1>4, <2>1 DEF Spent, Shown, Removed
<1>7. CASE S # {}
  <2>1. UNCHANGED Removed
    BY <1>4 DEF Removed
  <2>2. Spent' \in [SingleValued -> SUBSET Ids] /\ Shown' \in [SingleValued -> SUBSET Ids]
    BY DEF Spent, Shown, Filled, Rows
  <2>3. \A a \in S : /\ Spent[a] \subseteq Spent'[a]
                     /\ \E v \in Spent'[a] \ Spent[a] : Shown'[a] = {v}
    BY <1>3, <1>5 DEF Spent, Shown
  <2>4. \A a \in SingleValued \ S : Spent'[a] = Spent[a] /\ Shown'[a] = Shown[a]
    BY <1>4 DEF Spent, Shown
  <2>5. S \in SUBSET SingleValued
    OBVIOUS
  <2> HIDE DEF S
  <2>6. Register!Fill(S)
    BY <1>7, <2>1, <2>2, <2>3, <2>4 DEF Register!Fill, Spent, Shown, Removed
  <2> QED BY <2>5, <2>6 DEF Register!Next
<1> QED BY <1>6, <1>7

\* Every step is a step of the registers or leaves them alone.
LEMMA StepRefines ==
    ASSUME IInv, HistoryInv, RegisterInv, [Next]_vars
    PROVE  Register!Next \/ UNCHANGED <<Spent, Shown, Removed>>
<1>0. IInv'
  BY NextIInv
<1>1. CASE UNCHANGED mem
  BY <1>1 DEF Spent, Shown, Removed
<1>2. ASSUME NEW w \in Workers, CaptureNext(w) PROVE CaptureCommit(w) \/ UNCHANGED mem
  BY <1>2 DEF CaptureNext, CaptureStep, CaptureStart, CaptureLock, CaptureLockTimeout,
        CaptureTombstones, CaptureFindSimilar, CaptureIgnore, CaptureReinforce,
        CaptureInsert, CaptureRollback, storeVars
<1>3. ASSUME NEW w \in Workers, CaptureCommit(w)
      PROVE  Register!Next \/ UNCHANGED <<Spent, Shown, Removed>>
  BY <1>0, <1>3, CommitRefines
<1>4. ASSUME NEW r \in Requests, GovernanceNext(r)
      PROVE  Register!Next \/ UNCHANGED <<Spent, Shown, Removed>>
  BY <1>4, GovernanceSlots, RegisterRests, DeleteRefines
<1>5. ASSUME NEW k \in Runs, ReflectionNext(k)
      PROVE  Register!Next \/ UNCHANGED <<Spent, Shown, Removed>>
  BY <1>5, ReflectionSlots, RegisterRests
<1>6. CASE UNCHANGED vars
  BY <1>1, <1>6 DEF vars, storeVars
<1> QED BY <1>1, <1>2, <1>3, <1>4, <1>5, <1>6 DEF Next

\* For every set of slots, workers, requests and runs, the single-valued slots of the
\* table behave as registers: a value leaves only for a newer one, in the commit that
\* shows it, or because it is deleted, and never comes back (supersede_slot).
THEOREM SlotsAreRegisters == Spec => ImplementsRegister
<1>1. Init => Register!Init
  <2> SUFFICES ASSUME Init PROVE Register!Init
    OBVIOUS
  <2>1. \A i \in Ids : mem[i] = NoRow
    BY DEF Init, StoreInit, NoWrites
  <2>2. \A a \in SingleValued : Filled(mem, a) = {}
    BY <2>1 DEF Filled, Rows
  <2> QED BY <2>2 DEF Register!Init
<1>2. IInv /\ HistoryInv /\ RegisterInv /\ [Next]_vars =>
        [Register!Next]_<<[a \in SingleValued |-> Filled(mem, a)],
                          [a \in SingleValued |-> Filled(mem, a) \cap Live(mem)],
                          [a \in SingleValued |-> Filled(mem, a) \ Undeleted(mem)]>>
  BY StepRefines DEF Spent, Shown, Removed
<1> QED BY <1>1, <1>2, RegisterAlways, PTL DEF Spec, ImplementsRegister, Register!Spec
=============================================================================
