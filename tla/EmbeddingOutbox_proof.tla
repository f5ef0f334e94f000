------------------------ MODULE EmbeddingOutbox_proof ------------------------
(***************************************************************************)
(* Proofs about EmbeddingOutbox, for every set of memories, contents,      *)
(* generations and workers, and every number of writes, also those that    *)
(* race a backfill or an activation.                                       *)
(*                                                                         *)
(* The argument goes cell by cell, a cell being a memory in a generation:  *)
(* its job rows and its vector.  Every transaction replaces the rows and   *)
(* the vector of a cell together, and what CellOK says of the two, of the  *)
(* memory and of the generation survives each way the code has to do so.   *)
(***************************************************************************)
EXTENDS EmbeddingOutbox, TLAPS

Rows == [Contents -> Row]

BudgetOK(row) ==
  /\ row.att <= MaxAttempts
  /\ row.status = "pending" => row.att < MaxAttempts
  /\ row.status = "dead_letter" => row.att = MaxAttempts

CellOK(r, gs, rows, v) ==
  /\ v.status = "ready" => /\ v.content \in Contents
                           /\ r # NoMemory /\ v.content = r.content
                           /\ \A c \in Contents : ~Live(rows[c])
                           /\ rows[v.content].status = "succeeded"
  /\ \A c, d \in Contents : Live(rows[c]) /\ Live(rows[d]) => c = d
  /\ \A c \in Contents : BudgetOK(rows[c])
  /\ gs = "absent" => v = NoVector /\ \A c \in Contents : rows[c] = NoRow

CellsOK == \A m \in Memories, g \in Gens : CellOK(mem[m], gen[g], jobs[m][g], vec[m][g])

\* A memory, and what a backfill has read of it to schedule, has a text.
TextsOK ==
  /\ \A m \in Memories : mem[m] = NoMemory \/ mem[m].content \in Contents
  /\ \A m \in Memories, g \in Gens : <<m, g>> \in backfill.todo => backfill.copy[m].content \in Contents

\* The inductive invariant.
IInv == TypeOK /\ CellsOK /\ TextsOK

-----------------------------------------------------------------------------
(* Rows: what each change of a row returns, and that it keeps the budget.  *)

Status == {"absent", "pending", "running", "succeeded", "superseded", "dead_letter"}

LEMMA Constants ==
  /\ NoRow \in Row /\ NewRow \in Row /\ NoVector \in Vector /\ NoMemory \in Memory
  /\ NoWorker \notin Workers /\ NoContent \notin Contents
  /\ MaxAttempts \in Nat /\ MaxAttempts > 0
  BY ConstantsAssumption DEF NoRow, NewRow, Row, NoVector, Vector, NoMemory, Memory

LEMMA FreshRows ==
  /\ ~Live(NoRow) /\ BudgetOK(NoRow)
  /\ Live(NewRow) /\ BudgetOK(NewRow)
  BY Constants DEF NoRow, NewRow, Live, BudgetOK

LEMMA ClosedRow ==
  ASSUME NEW row \in Row, NEW status \in Status
  PROVE  /\ Closed(row, status) \in Row
         /\ Closed(row, status).status = status
         /\ Closed(row, status).att = row.att
  BY DEF Closed, Row, Status

LEMMA SupersededRow ==
  ASSUME NEW row \in Row, BudgetOK(row)
  PROVE  /\ Superseded(row) \in Row
         /\ ~Live(Superseded(row)) /\ BudgetOK(Superseded(row))
         /\ ~Live(row) => Superseded(row) = row
  BY ClosedRow DEF Superseded, Live, BudgetOK, Status, Row

LEMMA RecoveredRow ==
  ASSUME NEW row \in Row, BudgetOK(row)
  PROVE  /\ Recovered(row) \in Row /\ BudgetOK(Recovered(row))
         /\ ~Live(row) => Recovered(row) = row
<1>1. [row EXCEPT !.status = "pending", !.owner = NoWorker] \in Row
  BY DEF Row
<1>2. /\ [row EXCEPT !.status = "pending", !.owner = NoWorker].status = "pending"
      /\ [row EXCEPT !.status = "pending", !.owner = NoWorker].att = row.att
  BY DEF Row
<1>3. row.att \in Nat
  BY DEF Row
<1>4. CASE ~(row.status = "running" /\ row.due)
  BY <1>4 DEF Recovered
<1>5. CASE row.status = "running" /\ row.due /\ row.att >= MaxAttempts
  BY <1>3, <1>5, Constants, ClosedRow DEF Recovered, Live, BudgetOK, Status
<1>6. CASE row.status = "running" /\ row.due /\ ~(row.att >= MaxAttempts)
  BY <1>1, <1>2, <1>3, <1>6, Constants DEF Recovered, Live, BudgetOK
<1> QED BY <1>4, <1>5, <1>6

LEMMA ClaimedRow ==
  ASSUME NEW row \in Row, NEW w \in Workers, row.att < MaxAttempts
  PROVE  Claimed(row, w) \in Row /\ BudgetOK(Claimed(row, w))
<1>1. row.att \in Nat /\ row.att + 1 \in Nat
  BY DEF Row
<1>2. \A n \in Nat : LET next == [row EXCEPT !.status = "running", !.att = n, !.owner = w, !.due = FALSE]
                    IN  next \in Row /\ next.status = "running" /\ next.att = n
  BY DEF Row
<1>3. /\ Claimed(row, w) \in Row
      /\ Claimed(row, w).status = "running" /\ Claimed(row, w).att = row.att + 1
  BY <1>1, <1>2 DEF Claimed
<1> QED BY <1>1, <1>3, Constants DEF BudgetOK

LEMMA FailedRow ==
  ASSUME NEW row \in Row, BudgetOK(row)
  PROVE  Failed(row) \in Row /\ BudgetOK(Failed(row))
<1>1. row.att \in Nat
  BY DEF Row
<1> QED BY <1>1, Constants, ClosedRow DEF Failed, BudgetOK, Status

LEMMA DueRow ==
  ASSUME NEW row \in Row, BudgetOK(row)
  PROVE  [row EXCEPT !.due = TRUE] \in Row /\ BudgetOK([row EXCEPT !.due = TRUE])
  BY DEF Row, BudgetOK

LEMMA ClosedBudget ==
  ASSUME NEW row \in Row, BudgetOK(row), NEW status \in {"succeeded", "superseded"}
  PROVE  Closed(row, status) \in Row /\ BudgetOK(Closed(row, status)) /\ ~Live(Closed(row, status))
  BY ClosedRow DEF BudgetOK, Status, Live

-----------------------------------------------------------------------------
(* Cells: the ways a transaction changes the rows and the vector of one    *)
(* memory in one generation, and the memory or the generation with them.   *)

LEMMA ScheduledCell ==
  ASSUME NEW r, NEW gs, NEW rows \in Rows, NEW v \in Vector,
         CellOK(r, gs, rows, v), gs # "absent", NEW c \in Contents
  PROVE  /\ ScheduledRows(v, rows, c) \in Rows /\ ScheduledVector(v, c) \in Vector
         /\ CellOK(r, gs, ScheduledRows(v, rows, c), ScheduledVector(v, c))
         /\ \A s : s # NoMemory /\ s.content = c =>
              CellOK(s, gs, ScheduledRows(v, rows, c), ScheduledVector(v, c))
<1>1. CASE UpToDate(v, c)
  BY <1>1 DEF UpToDate, ScheduledRows, ScheduledVector, CellOK
<1>2. CASE ~UpToDate(v, c)
  <2> DEFINE after == ScheduledRows(v, rows, c)
  <2>1. ScheduledVector(v, c) \in Vector /\ ScheduledVector(v, c).status # "ready"
    BY <1>2 DEF UpToDate, ScheduledVector, Vector
  <2>2. after = [d \in Contents |-> IF d # c THEN Superseded(rows[d])
                                    ELSE IF Live(rows[d]) THEN rows[d] ELSE NewRow]
    BY <1>2 DEF ScheduledRows
  <2>3. \A d \in Contents : rows[d] \in Row /\ BudgetOK(rows[d])
    BY DEF Rows, CellOK
  <2>4. \A d \in Contents : after[d] \in Row /\ BudgetOK(after[d]) /\ (Live(after[d]) => d = c)
    BY <2>2, <2>3, SupersededRow, Constants, FreshRows
  <2>5. after \in Rows
    BY <2>2, <2>4 DEF Rows
  <2> QED BY <2>1, <2>4, <2>5 DEF CellOK
<1> QED BY <1>1, <1>2

LEMMA CancelledCell ==
  ASSUME NEW r, NEW gs, NEW rows \in Rows, NEW v, CellOK(r, gs, rows, v), NEW after,
         \A c \in Contents : after[c] = Superseded(rows[c])
  PROVE  /\ \A c \in Contents : after[c] \in Row
         /\ CellOK(r, gs, after, v)
         /\ \A s : CellOK(s, gs, after, NoVector)
<1>1. \A c \in Contents : rows[c] \in Row /\ BudgetOK(rows[c])
  BY DEF Rows, CellOK
<1>2. \A c \in Contents : /\ after[c] \in Row /\ BudgetOK(after[c]) /\ ~Live(after[c])
                          /\ ~Live(rows[c]) => after[c] = rows[c]
  BY <1>1, SupersededRow
<1>3. NoVector.status # "ready"
  BY DEF NoVector
<1> QED BY <1>2, <1>3, FreshRows DEF CellOK

LEMMA EmptiedCell ==
  ASSUME NEW s, NEW gs, NEW rows, \A c \in Contents : rows[c] = NoRow
  PROVE  CellOK(s, gs, rows, NoVector)
  BY FreshRows DEF CellOK, NoVector

LEMMA RequeuedCell ==
  ASSUME NEW s, NEW gs, gs # "absent", NEW rows, NEW c,
         \A d \in Contents : rows[d] = IF d = c THEN NewRow ELSE NoRow
  PROVE  CellOK(s, gs, rows, NoVector)
  BY FreshRows DEF CellOK, NoVector

LEMMA WithdrawnCell ==
  ASSUME NEW r, NEW gs, NEW rows, NEW v, CellOK(r, gs, rows, v),
         NEW s, NEW u, u.status # "ready", gs = "absent" => u = v
  PROVE  CellOK(s, gs, rows, u)
  BY DEF CellOK

LEMMA RegisteredCell ==
  ASSUME NEW r, NEW gs, NEW rows, NEW v, CellOK(r, gs, rows, v),
         NEW hs, hs # "absent" \/ hs = gs
  PROVE  CellOK(r, hs, rows, v)
  BY DEF CellOK

\* A worker's or a clock's step: only live rows change.
LEMMA WorkedCell ==
  ASSUME NEW r, NEW gs, NEW rows, NEW v, CellOK(r, gs, rows, v), NEW after,
         \A c \in Contents : after[c] = rows[c] \/ (Live(rows[c]) /\ BudgetOK(after[c]))
  PROVE  CellOK(r, gs, after, v)
  BY FreshRows DEF CellOK

LEMMA PublishedCell ==
  ASSUME NEW r \in Memory, NEW gs, NEW rows, NEW v, CellOK(r, gs, rows, v),
         NEW c \in Contents, Live(rows[c]), r.content = c, NEW after,
         ~Live(after[c]), BudgetOK(after[c]), after[c].status = "succeeded",
         \A d \in Contents \ {c} : after[d] = rows[d]
  PROVE  CellOK(r, gs, after, [status |-> "ready", content |-> c])
<1>1. r # NoMemory
  BY Constants DEF NoMemory
<1> QED BY <1>1, FreshRows DEF CellOK

-----------------------------------------------------------------------------
(* The store: the rows and vectors of every cell, typed and in order.      *)

StoreOK ==
  /\ mem \in [Memories -> Memory] /\ gen \in [Gens -> GenStatus]
  /\ jobs \in [Memories -> [Gens -> Rows]] /\ vec \in [Memories -> [Gens -> Vector]]
  /\ CellsOK

LEMMA IndexedGens ==
  ASSUME NEW g \in Indexing
  PROVE  g \in Gens /\ gen[g] # "absent"
  BY DEF Indexing

\* A store whose memories were embedded when they were written is in order.
LEMMA StoreInit == Init => StoreOK
<1> SUFFICES ASSUME Init PROVE StoreOK
  OBVIOUS
<1> DEFINE done(held, m, g) == g \in Bootstrapped /\ held[m] # NoContent
           first(held) == [m \in Memories |-> [content |-> held[m], embed |-> held[m] # NoContent]]
           rows(held) == [m \in Memories |-> [g \in Gens |-> [c \in Contents |->
                            IF done(held, m, g) /\ c = held[m] THEN EmbeddedRow ELSE NoRow]]]
           ready(c) == [status |-> "ready", content |-> c]
<1>1. PICK held \in Held :
        /\ mem = first(held)
        /\ gen = [g \in Gens |-> IF g \in Bootstrapped THEN "active" ELSE "absent"]
        /\ jobs = rows(held)
        /\ vec = [m \in Memories |-> [g \in Gens |->
                   IF done(held, m, g) THEN ready(held[m]) ELSE NoVector]]
  BY DEF Init
<1>2. held \in [Memories -> Contents \cup {NoContent}] /\ gen \in [Gens -> GenStatus]
  BY <1>1 DEF Held, GenStatus
<1>3. EmbeddedRow \in Row /\ EmbeddedRow.status = "succeeded" /\ ~Live(EmbeddedRow) /\ BudgetOK(EmbeddedRow)
  BY Constants DEF EmbeddedRow, Row, Live, BudgetOK
<1>4. \A c \in Contents : ready(c) \in Vector /\ ready(c).status = "ready" /\ ready(c).content = c
  BY DEF Vector
<1>5. mem \in [Memories -> Memory]
  BY <1>1, <1>2 DEF Memory
<1>6. ASSUME NEW m \in Memories, NEW g \in Gens
      PROVE  /\ jobs[m][g] \in Rows /\ vec[m][g] \in Vector
             /\ CellOK(mem[m], gen[g], jobs[m][g], vec[m][g])
  <2>1. /\ mem[m] = [content |-> held[m], embed |-> held[m] # NoContent]
        /\ \A c \in Contents : jobs[m][g][c] = IF done(held, m, g) /\ c = held[m] THEN EmbeddedRow ELSE NoRow
        /\ jobs[m][g] = [c \in Contents |-> jobs[m][g][c]]
        /\ vec[m][g] = IF done(held, m, g) THEN ready(held[m]) ELSE NoVector
    BY <1>1
  <2>2. jobs[m][g] \in Rows
    BY <1>3, <2>1, Constants DEF Rows
  <2>3. CASE ~done(held, m, g)
    <3>1. vec[m][g] = NoVector /\ \A c \in Contents : jobs[m][g][c] = NoRow
      BY <2>1, <2>3
    <3> QED BY <2>2, <3>1, EmptiedCell, Constants
  <2>4. CASE done(held, m, g)
    <3>1. held[m] \in Contents /\ held[m] # NoContent /\ gen[g] = "active"
      BY <1>1, <1>2, <2>4
    <3>2. /\ vec[m][g] = ready(held[m]) /\ jobs[m][g][held[m]] = EmbeddedRow
          /\ \A c \in Contents : jobs[m][g][c] \in {EmbeddedRow, NoRow}
      BY <2>1, <2>4, <3>1
    <3>3. mem[m] # NoMemory /\ mem[m].content = held[m]
      BY <2>1, <3>1 DEF NoMemory
    <3> HIDE DEF ready
    <3>4. \A c \in Contents : ~Live(jobs[m][g][c]) /\ BudgetOK(jobs[m][g][c])
      BY <1>3, <3>2, FreshRows
    <3>5. CellOK(mem[m], gen[g], jobs[m][g], vec[m][g])
      BY <1>3, <1>4, <3>1, <3>2, <3>3, <3>4 DEF CellOK
    <3> QED BY <1>4, <2>2, <3>1, <3>2, <3>5
  <2> QED BY <2>3, <2>4
<1>7. jobs \in [Memories -> [Gens -> Rows]] /\ vec \in [Memories -> [Gens -> Vector]]
  <2>1. /\ jobs = [m \in Memories |-> [g \in Gens |-> jobs[m][g]]]
        /\ vec = [m \in Memories |-> [g \in Gens |-> vec[m][g]]]
    BY <1>1
  <2> QED BY <1>6, <2>1
<1> QED BY <1>2, <1>5, <1>6, <1>7 DEF StoreOK, CellsOK

LEMMA StoreUpsert ==
  ASSUME StoreOK, NEW m \in Memories, NEW c \in Contents, NEW embed \in BOOLEAN, Upsert(m, c, embed)
  PROVE  StoreOK'
<1> DEFINE r == [content |-> c, embed |-> embed]
<1>1. r \in Memory /\ r.content = c /\ r.embed = embed /\ r # NoMemory
  BY Constants DEF Memory, NoMemory
<1> HIDE DEF r
<1>2. /\ mem' = [mem EXCEPT ![m] = r] /\ gen' = gen
      /\ vec' = [vec EXCEPT ![m] = VectorsAfter(m, r)]
      /\ jobs' = [jobs EXCEPT ![m] = RowsAfter(m, r)]
  BY DEF Upsert, r
<1>3. ASSUME NEW g \in Gens
      PROVE  /\ RowsAfter(m, r)[g] \in Rows /\ VectorsAfter(m, r)[g] \in Vector
             /\ CellOK(r, gen[g], RowsAfter(m, r)[g], VectorsAfter(m, r)[g])
  <2>1. /\ jobs[m][g] \in Rows /\ vec[m][g] \in Vector /\ mem[m] \in Memory /\ gen[g] \in GenStatus
        /\ CellOK(mem[m], gen[g], jobs[m][g], vec[m][g])
    BY DEF StoreOK, CellsOK
  <2>2. CASE ~r.embed
    <3>1. /\ VectorsAfter(m, r)[g] = NoVector
          /\ RowsAfter(m, r)[g] = [d \in Contents |-> Superseded(jobs[m][g][d])]
      BY <2>2 DEF VectorsAfter, RowsAfter
    <3>2. \A d \in Contents : RowsAfter(m, r)[g][d] = Superseded(jobs[m][g][d])
      BY <3>1
    <3>3. /\ \A d \in Contents : RowsAfter(m, r)[g][d] \in Row
          /\ CellOK(r, gen[g], RowsAfter(m, r)[g], NoVector)
      BY <2>1, <3>2, CancelledCell
    <3> QED BY <3>1, <3>3, Constants DEF Rows
  <2>3. CASE r.embed /\ g \in Indexing
    <3>1. /\ VectorsAfter(m, r)[g] = ScheduledVector(vec[m][g], c)
          /\ RowsAfter(m, r)[g] = ScheduledRows(vec[m][g], jobs[m][g], c)
      BY <1>1, <2>3 DEF VectorsAfter, RowsAfter
    <3>2. gen[g] # "absent"
      BY <2>3, IndexedGens
    <3>3. /\ ScheduledRows(vec[m][g], jobs[m][g], c) \in Rows /\ ScheduledVector(vec[m][g], c) \in Vector
          /\ \A s : s # NoMemory /\ s.content = c =>
               CellOK(s, gen[g], ScheduledRows(vec[m][g], jobs[m][g], c), ScheduledVector(vec[m][g], c))
      BY <2>1, <3>2, ScheduledCell
    <3> QED BY <1>1, <3>1, <3>3
  <2>4. CASE r.embed /\ g \notin Indexing
    <3>1. VectorsAfter(m, r)[g] = Withdrawn(m, g) /\ RowsAfter(m, r)[g] = jobs[m][g]
      BY <2>4 DEF VectorsAfter, RowsAfter
    <3>2. Withdrawn(m, g) \in Vector
      BY <2>1 DEF Withdrawn, Vector
    <3>3. Withdrawn(m, g).status # "ready" /\ (gen[g] = "absent" => Withdrawn(m, g) = vec[m][g])
      <4>1. gen[g] = "absent" \/ gen[g] = "retired"
        BY <2>1, <2>4 DEF Indexing, GenStatus
      <4>2. gen[g] = "absent" => vec[m][g].status # "ready"
        BY <2>1 DEF CellOK, NoVector
      <4> QED BY <2>1, <4>1, <4>2 DEF Withdrawn, Vector
    <3> QED BY <2>1, <3>1, <3>2, <3>3, WithdrawnCell
  <2> QED BY <1>1, <2>2, <2>3, <2>4
<1>4. RowsAfter(m, r) \in [Gens -> Rows] /\ VectorsAfter(m, r) \in [Gens -> Vector]
  BY <1>3 DEF RowsAfter, VectorsAfter
<1>5. ASSUME NEW n \in Memories, NEW g \in Gens
      PROVE  CellOK(mem'[n], gen'[g], jobs'[n][g], vec'[n][g])
  <2>1. CASE n = m
    <3>1. mem'[n] = r /\ jobs'[n] = RowsAfter(m, r) /\ vec'[n] = VectorsAfter(m, r)
      BY <1>2, <2>1 DEF StoreOK
    <3> QED BY <1>2, <1>3, <3>1
  <2>2. CASE n # m
    <3>1. mem'[n] = mem[n] /\ jobs'[n] = jobs[n] /\ vec'[n] = vec[n]
      BY <1>2, <2>2 DEF StoreOK
    <3> QED BY <1>2, <3>1 DEF StoreOK, CellsOK
  <2> QED BY <2>1, <2>2
<1> QED BY <1>1, <1>2, <1>4, <1>5 DEF StoreOK, CellsOK

LEMMA StoreDelete ==
  ASSUME StoreOK, NEW m \in Memories, Delete(m)
  PROVE  StoreOK'
<1>1. /\ mem' = [mem EXCEPT ![m] = NoMemory] /\ gen' = gen
      /\ vec' = [vec EXCEPT ![m] = NoVectors] /\ jobs' = [jobs EXCEPT ![m] = NoRows]
  BY DEF Delete
<1>2. NoRows \in [Gens -> Rows] /\ NoVectors \in [Gens -> Vector]
  BY Constants DEF NoRows, NoVectors, Rows
<1>3. ASSUME NEW n \in Memories, NEW g \in Gens
      PROVE  CellOK(mem'[n], gen'[g], jobs'[n][g], vec'[n][g])
  <2>1. CASE n = m
    <3>1. vec'[n][g] = NoVector /\ \A c \in Contents : jobs'[n][g][c] = NoRow
      BY <1>1, <2>1 DEF StoreOK, NoRows, NoVectors
    <3> QED BY <3>1, EmptiedCell
  <2>2. CASE n # m
    <3>1. mem'[n] = mem[n] /\ jobs'[n] = jobs[n] /\ vec'[n] = vec[n]
      BY <1>1, <2>2 DEF StoreOK
    <3> QED BY <1>1, <3>1 DEF StoreOK, CellsOK
  <2> QED BY <2>1, <2>2
<1> QED BY <1>1, <1>2, <1>3, Constants DEF StoreOK, CellsOK

LEMMA StoreRetain ==
  ASSUME StoreOK, NEW gone \in SUBSET Memories, NEW flipped \in SUBSET Memories, Retain(gone, flipped)
  PROVE  StoreOK'
<1>1. /\ mem' = [m \in Memories |-> Retained(m, gone, flipped)] /\ gen' = gen
      /\ vec' = [m \in Memories |-> NoVectors]
      /\ jobs' = [m \in Memories |-> RequeuedRows(Retained(m, gone, flipped))]
  BY DEF Retain
<1>2. ASSUME NEW m \in Memories
      PROVE  Retained(m, gone, flipped) \in Memory
  <2>1. mem[m] \in Memory
    BY DEF StoreOK
  <2> QED BY <2>1, Constants DEF Retained, Memory
<1>3. NoVectors \in [Gens -> Vector]
  BY Constants DEF NoVectors
<1>4. ASSUME NEW r
      PROVE  RequeuedRows(r) \in [Gens -> Rows]
  BY Constants DEF RequeuedRows, Rows
<1>5. ASSUME NEW m \in Memories, NEW g \in Gens
      PROVE  CellOK(mem'[m], gen'[g], jobs'[m][g], vec'[m][g])
  <2> DEFINE r == Retained(m, gone, flipped)
  <2>1. vec'[m][g] = NoVector /\ jobs'[m] = RequeuedRows(r)
    BY <1>1 DEF NoVectors
  <2> HIDE DEF r
  <2>2. \A c \in Contents : jobs'[m][g][c] = IF r.embed /\ g \in Indexing /\ c = r.content THEN NewRow ELSE NoRow
    BY <2>1 DEF RequeuedRows
  <2>3. CASE r.embed /\ g \in Indexing
    <3>1. gen'[g] # "absent" /\ \A c \in Contents : jobs'[m][g][c] = IF c = r.content THEN NewRow ELSE NoRow
      BY <1>1, <2>2, <2>3, IndexedGens
    <3> QED BY <2>1, <3>1, RequeuedCell
  <2>4. CASE ~(r.embed /\ g \in Indexing)
    BY <2>1, <2>2, <2>4, EmptiedCell
  <2> QED BY <2>3, <2>4
<1> QED BY <1>1, <1>2, <1>3, <1>4, <1>5 DEF StoreOK, CellsOK

LEMMA StoreBackfillSchedule ==
  ASSUME StoreOK, backfill.copy \in [Memories -> Memory],
         \A m \in Memories, g \in Gens : <<m, g>> \in backfill.todo => backfill.copy[m].content \in Contents,
         NEW m \in Memories, NEW g \in Gens, BackfillSchedule(m, g)
  PROVE  StoreOK'
<1> DEFINE c == backfill.copy[m].content
<1>1. CASE mem[m] = NoMemory \/ gen[g] = "absent"
  BY <1>1 DEF BackfillSchedule, StoreOK, CellsOK
<1>2. CASE ~(mem[m] = NoMemory \/ gen[g] = "absent")
  <2>1. /\ mem' = mem /\ gen' = gen /\ <<m, g>> \in backfill.todo
        /\ vec' = [vec EXCEPT ![m][g] = ScheduledVector(vec[m][g], c)]
        /\ jobs' = [jobs EXCEPT ![m][g] = ScheduledRows(vec[m][g], jobs[m][g], c)]
    BY <1>2 DEF BackfillSchedule
  <2>2. c \in Contents
    BY <2>1
  <2> HIDE DEF c
  <2>3. /\ jobs[m][g] \in Rows /\ vec[m][g] \in Vector /\ mem[m] \in Memory /\ gen[g] \in GenStatus
        /\ CellOK(mem[m], gen[g], jobs[m][g], vec[m][g])
    BY DEF StoreOK, CellsOK
  <2>4. /\ ScheduledRows(vec[m][g], jobs[m][g], c) \in Rows /\ ScheduledVector(vec[m][g], c) \in Vector
        /\ CellOK(mem[m], gen[g], ScheduledRows(vec[m][g], jobs[m][g], c), ScheduledVector(vec[m][g], c))
    <3>1. gen[g] # "absent" /\ mem[m] = mem[m]
      BY <1>2
    <3> QED BY <2>2, <2>3, <3>1, ScheduledCell
  <2>5. ASSUME NEW n \in Memories, NEW h \in Gens
        PROVE  CellOK(mem'[n], gen'[h], jobs'[n][h], vec'[n][h])
    <3>1. CASE n = m /\ h = g
      <4>1. /\ jobs'[n][h] = ScheduledRows(vec[m][g], jobs[m][g], c)
            /\ vec'[n][h] = ScheduledVector(vec[m][g], c)
        BY <2>1, <3>1 DEF StoreOK
      <4> QED BY <2>1, <2>4, <3>1, <4>1
    <3>2. CASE ~(n = m /\ h = g)
      <4>1. jobs'[n][h] = jobs[n][h] /\ vec'[n][h] = vec[n][h]
        BY <2>1, <3>2 DEF StoreOK
      <4> QED BY <2>1, <4>1 DEF StoreOK, CellsOK
    <3> QED BY <3>1, <3>2
  <2>6. jobs' \in [Memories -> [Gens -> Rows]] /\ vec' \in [Memories -> [Gens -> Vector]]
    BY <2>1, <2>4 DEF StoreOK
  <2> QED BY <2>1, <2>5, <2>6 DEF StoreOK, CellsOK
<1> QED BY <1>1, <1>2

LEMMA StoreBackfillCancel ==
  ASSUME StoreOK, NEW m \in Memories, BackfillCancel(m)
  PROVE  StoreOK'
<1> DEFINE after == [g \in Gens |-> [c \in Contents |-> Superseded(jobs[m][g][c])]]
<1>1. mem' = mem /\ gen' = gen /\ vec' = vec /\ jobs' = [jobs EXCEPT ![m] = after]
  BY DEF BackfillCancel
<1>2. \A g \in Gens, c \in Contents : after[g][c] = Superseded(jobs[m][g][c])
  OBVIOUS
<1>3. ASSUME NEW g \in Gens
      PROVE  /\ \A c \in Contents : after[g][c] \in Row
             /\ CellOK(mem[m], gen[g], after[g], vec[m][g])
  <2>1. jobs[m][g] \in Rows /\ CellOK(mem[m], gen[g], jobs[m][g], vec[m][g])
    BY DEF StoreOK, CellsOK
  <2>2. \A c \in Contents : after[g][c] = Superseded(jobs[m][g][c])
    BY <1>2
  <2> HIDE DEF after
  <2> QED BY <2>1, <2>2, CancelledCell
<1>4. after \in [Gens -> Rows]
  BY <1>3 DEF Rows
<1> HIDE DEF after
<1>5. ASSUME NEW n \in Memories, NEW g \in Gens
      PROVE  CellOK(mem'[n], gen'[g], jobs'[n][g], vec'[n][g])
  <2>1. CASE n = m
    BY <1>1, <1>3, <2>1 DEF StoreOK
  <2>2. CASE n # m
    <3>1. jobs'[n] = jobs[n]
      BY <1>1, <2>2 DEF StoreOK
    <3> QED BY <1>1, <3>1 DEF StoreOK, CellsOK
  <2> QED BY <2>1, <2>2
<1> QED BY <1>1, <1>4, <1>5 DEF StoreOK, CellsOK

LEMMA StoreBackfillDrop ==
  ASSUME StoreOK, NEW m \in Memories, BackfillDrop(m)
  PROVE  StoreOK'
<1>1. mem' = mem /\ gen' = gen /\ jobs' = jobs /\ vec' = [vec EXCEPT ![m] = NoVectors]
  BY DEF BackfillDrop
<1>2. NoVectors \in [Gens -> Vector]
  BY Constants DEF NoVectors
<1>3. ASSUME NEW n \in Memories, NEW g \in Gens
      PROVE  CellOK(mem'[n], gen'[g], jobs'[n][g], vec'[n][g])
  <2>1. CellOK(mem[n], gen[g], jobs[n][g], vec[n][g])
    BY DEF StoreOK, CellsOK
  <2>2. CASE n = m
    <3>1. vec'[n][g] = NoVector
      BY <1>1, <2>2 DEF StoreOK, NoVectors
    <3>2. NoVector.status # "ready" /\ (gen[g] = "absent" => NoVector = vec[n][g])
      BY <2>1 DEF CellOK, NoVector
    <3> QED BY <1>1, <2>1, <3>1, <3>2, WithdrawnCell
  <2>3. CASE n # m
    <3>1. vec'[n] = vec[n]
      BY <1>1, <2>3 DEF StoreOK
    <3> QED BY <1>1, <2>1, <3>1
  <2> QED BY <2>2, <2>3
<1> QED BY <1>1, <1>2, <1>3 DEF StoreOK, CellsOK

LEMMA StoreRegister ==
  ASSUME StoreOK, NEW g \in Gens, Register(g) \/ Activate(g)
  PROVE  StoreOK'
<1>1. mem' = mem /\ jobs' = jobs /\ vec' = vec
  BY DEF Register, Activate
<1>2. /\ gen' \in [Gens -> GenStatus]
      /\ \A h \in Gens : gen'[h] # "absent" \/ gen'[h] = gen[h]
  BY DEF Register, Activate, StoreOK, GenStatus
<1>3. ASSUME NEW n \in Memories, NEW h \in Gens
      PROVE  CellOK(mem'[n], gen'[h], jobs'[n][h], vec'[n][h])
  <2>1. CellOK(mem[n], gen[h], jobs[n][h], vec[n][h])
    BY DEF StoreOK, CellsOK
  <2> QED BY <1>1, <1>2, <2>1, RegisteredCell
<1> QED BY <1>1, <1>2, <1>3 DEF StoreOK, CellsOK

LEMMA StorePrune ==
  ASSUME StoreOK, NEW g \in Gens, Prune(g)
  PROVE  StoreOK'
<1>1. /\ mem' = mem /\ gen' = [gen EXCEPT ![g] = "absent"]
      /\ vec' = [m \in Memories |-> [vec[m] EXCEPT ![g] = NoVector]]
      /\ jobs' = [m \in Memories |-> [jobs[m] EXCEPT ![g] = [c \in Contents |-> NoRow]]]
  BY DEF Prune
<1>2. /\ gen' \in [Gens -> GenStatus]
      /\ vec' \in [Memories -> [Gens -> Vector]] /\ jobs' \in [Memories -> [Gens -> Rows]]
  BY <1>1, Constants DEF StoreOK, GenStatus, Rows
<1>3. ASSUME NEW n \in Memories, NEW h \in Gens
      PROVE  CellOK(mem'[n], gen'[h], jobs'[n][h], vec'[n][h])
  <2>1. CASE h = g
    <3>1. vec'[n][h] = NoVector /\ \A c \in Contents : jobs'[n][h][c] = NoRow
      BY <1>1, <2>1 DEF StoreOK
    <3> QED BY <3>1, EmptiedCell
  <2>2. CASE h # g
    <3>1. gen'[h] = gen[h] /\ vec'[n][h] = vec[n][h] /\ jobs'[n][h] = jobs[n][h]
      BY <1>1, <2>2 DEF StoreOK
    <3> QED BY <1>1, <3>1 DEF StoreOK, CellsOK
  <2> QED BY <2>1, <2>2
<1> QED BY <1>1, <1>2, <1>3 DEF StoreOK, CellsOK

-----------------------------------------------------------------------------
(* The steps of workers and clocks, on live rows only.                     *)

LEMMA StoreWorked ==
  ASSUME StoreOK, mem' = mem, gen' = gen, vec' = vec, jobs' \in [Memories -> [Gens -> Rows]],
         \A m \in Memories, g \in Gens, c \in Contents :
           \/ jobs'[m][g][c] = jobs[m][g][c]
           \/ Live(jobs[m][g][c]) /\ BudgetOK(jobs'[m][g][c])
  PROVE  StoreOK'
<1>1. ASSUME NEW m \in Memories, NEW g \in Gens
      PROVE  CellOK(mem'[m], gen'[g], jobs'[m][g], vec'[m][g])
  <2>1. CellOK(mem[m], gen[g], jobs[m][g], vec[m][g])
    BY DEF StoreOK, CellsOK
  <2>2. \A c \in Contents : \/ jobs'[m][g][c] = jobs[m][g][c]
                            \/ Live(jobs[m][g][c]) /\ BudgetOK(jobs'[m][g][c])
    OBVIOUS
  <2>3. CellOK(mem[m], gen[g], jobs'[m][g], vec[m][g])
    BY <2>1, <2>2, FreshRows DEF CellOK
  <2> QED BY <2>3
<1> QED BY <1>1 DEF StoreOK, CellsOK

LEMMA RowsOfStore ==
  ASSUME StoreOK, NEW m \in Memories, NEW g \in Gens, NEW c \in Contents
  PROVE  jobs[m][g][c] \in Row /\ BudgetOK(jobs[m][g][c])
  BY DEF StoreOK, CellsOK, CellOK, Rows

LEMMA RowOfWorker ==
  ASSUME StoreOK, NEW w \in Workers, NEW k \in Key
  PROVE  /\ k[1] \in Memories /\ k[2] \in Contents /\ GenOf[w] \in Gens
         /\ RowAt(w, k) = jobs[k[1]][GenOf[w]][k[2]]
         /\ RowAt(w, k) \in Row /\ BudgetOK(RowAt(w, k))
<1>1. k[1] \in Memories /\ k[2] \in Contents /\ GenOf[w] \in Gens
  BY ConstantsAssumption DEF Key
<1> QED BY <1>1, RowsOfStore DEF RowAt

LEMMA RowIsSet ==
  ASSUME StoreOK, NEW w \in Workers, NEW k \in Key, NEW row \in Row, SetRow(w, k, row)
  PROVE  /\ jobs' \in [Memories -> [Gens -> Rows]]
         /\ \A m \in Memories, g \in Gens, c \in Contents :
              jobs'[m][g][c] = IF m = k[1] /\ g = GenOf[w] /\ c = k[2] THEN row ELSE jobs[m][g][c]
  BY RowOfWorker DEF SetRow, StoreOK, Rows

LEMMA StoreSetRow ==
  ASSUME StoreOK, mem' = mem, gen' = gen, vec' = vec,
         NEW w \in Workers, NEW k \in Key, NEW row \in Row, SetRow(w, k, row),
         row = RowAt(w, k) \/ (Live(RowAt(w, k)) /\ BudgetOK(row))
  PROVE  StoreOK'
  BY RowIsSet, RowOfWorker, StoreWorked

LEMMA StoreTouch ==
  ASSUME StoreOK, mem' = mem, gen' = gen, vec' = vec, NEW w \in Workers, NEW k \in Key, Touch(w, k)
  PROVE  StoreOK'
<1>1. /\ Recovered(RowAt(w, k)) \in Row /\ BudgetOK(Recovered(RowAt(w, k)))
      /\ ~Live(RowAt(w, k)) => Recovered(RowAt(w, k)) = RowAt(w, k)
  BY RowOfWorker, RecoveredRow
<1> QED BY <1>1, StoreSetRow DEF Touch

LEMMA StoreClosed ==
  ASSUME StoreOK, mem' = mem, gen' = gen, vec' = vec, NEW w \in Workers, NEW k \in Key,
         Owns(w, k), NEW status \in {"succeeded", "superseded"}, SetRow(w, k, Closed(RowAt(w, k), status))
  PROVE  StoreOK'
<1>1. Closed(RowAt(w, k), status) \in Row /\ BudgetOK(Closed(RowAt(w, k), status))
  BY RowOfWorker, ClosedBudget
<1>2. Live(RowAt(w, k))
  BY DEF Owns, Live
<1> QED BY <1>1, <1>2, StoreSetRow

LEMMA ClaimableRows ==
  ASSUME StoreOK, NEW w \in Workers
  PROVE  /\ Claimable(w) \subseteq Key /\ Exhausted(w) \subseteq Key
         /\ \A k \in Claimable(w) : Live(RowAt(w, k)) /\ RowAt(w, k).att < MaxAttempts
         /\ \A k \in Exhausted(w) : Live(RowAt(w, k))
  BY RowOfWorker DEF Claimable, Exhausted, DueIn, Live, BudgetOK

LEMMA StoreClaims ==
  ASSUME StoreOK, mem' = mem, gen' = gen, vec' = vec, NEW w \in Workers,
         NEW taken \in SUBSET Claimable(w), NEW closed \in SUBSET Exhausted(w),
         jobs' = RowsClaimed(w, taken, closed)
  PROVE  StoreOK'
<1> DEFINE RowAfter(m, g, c) ==
             IF g # GenOf[w] THEN jobs[m][g][c]
             ELSE IF <<m, c>> \in taken THEN Claimed(jobs[m][g][c], w)
             ELSE IF <<m, c>> \in closed THEN Recovered(jobs[m][g][c]) ELSE jobs[m][g][c]
<1>1. ASSUME NEW m \in Memories, NEW g \in Gens, NEW c \in Contents
      PROVE  /\ RowAfter(m, g, c) \in Row
             /\ \/ RowAfter(m, g, c) = jobs[m][g][c]
                \/ Live(jobs[m][g][c]) /\ BudgetOK(RowAfter(m, g, c))
  <2>1. jobs[m][g][c] \in Row /\ BudgetOK(jobs[m][g][c])
    BY RowsOfStore
  <2>2. CASE g = GenOf[w] /\ <<m, c>> \in taken
    <3>1. <<m, c>> \in Claimable(w) /\ RowAt(w, <<m, c>>) = jobs[m][g][c]
      BY <2>2 DEF RowAt
    <3>2. Live(jobs[m][g][c]) /\ jobs[m][g][c].att < MaxAttempts
      BY <3>1, ClaimableRows
    <3> QED BY <2>1, <2>2, <3>2, ClaimedRow
  <2>3. CASE g = GenOf[w] /\ <<m, c>> \notin taken /\ <<m, c>> \in closed
    <3>1. <<m, c>> \in Exhausted(w) /\ RowAt(w, <<m, c>>) = jobs[m][g][c]
      BY <2>3 DEF RowAt
    <3>2. Live(jobs[m][g][c])
      BY <3>1, ClaimableRows
    <3> QED BY <2>1, <2>3, <3>2, RecoveredRow
  <2>4. CASE g # GenOf[w] \/ (<<m, c>> \notin taken /\ <<m, c>> \notin closed)
    BY <2>1, <2>4
  <2> QED BY <2>2, <2>3, <2>4
<1>2. \A m \in Memories, g \in Gens, c \in Contents : jobs'[m][g][c] = RowAfter(m, g, c)
  BY ConstantsAssumption DEF RowsClaimed, StoreOK, Rows
<1>3. jobs' \in [Memories -> [Gens -> [Contents -> Row]]]
  <2>1. \A m \in Memories, c \in Contents : /\ GenOf[w] \in Gens
          /\ (IF <<m, c>> \in taken THEN Claimed(jobs[m][GenOf[w]][c], w)
              ELSE IF <<m, c>> \in closed THEN Recovered(jobs[m][GenOf[w]][c])
              ELSE jobs[m][GenOf[w]][c]) \in Row
    BY <1>1, ConstantsAssumption
  <2>2. \A m \in Memories : [c \in Contents |->
          IF <<m, c>> \in taken THEN Claimed(jobs[m][GenOf[w]][c], w)
          ELSE IF <<m, c>> \in closed THEN Recovered(jobs[m][GenOf[w]][c])
          ELSE jobs[m][GenOf[w]][c]] \in Rows
    BY <2>1 DEF Rows
  <2> QED BY <2>1, <2>2 DEF RowsClaimed, StoreOK, Rows
<1> HIDE DEF RowAfter
<1> QED BY <1>1, <1>2, <1>3, StoreWorked DEF Rows

LEMMA StoreClaim ==
  ASSUME StoreOK, NEW w \in Workers,
         EndClaims(w) \/ \E k \in Key : Claim(w, k)
  PROVE  StoreOK'
<1>1. mem' = mem /\ gen' = gen /\ vec' = vec
  BY DEF EndClaims, Claim
<1>2. ASSUME NEW k \in Key, Claim(w, k)
      PROVE  StoreOK'
  <2>1. {k} \in SUBSET Claimable(w)
    BY <1>2 DEF Claim
  <2>2. PICK closed \in SUBSET Exhausted(w) : jobs' = RowsClaimed(w, {k}, closed)
    BY <1>2 DEF Claim
  <2> QED BY <1>1, <2>1, <2>2, StoreClaims
<1>3. CASE EndClaims(w) /\ jobs' = RowsClaimed(w, {}, Exhausted(w))
  BY <1>1, <1>3, StoreClaims
<1>4. CASE EndClaims(w) /\ jobs' = jobs
  BY <1>1, <1>4 DEF StoreOK, CellsOK
<1>5. EndClaims(w) => jobs' = RowsClaimed(w, {}, Exhausted(w)) \/ jobs' = jobs
  BY DEF EndClaims
<1> QED BY <1>2, <1>3, <1>4, <1>5

LEMMA StoreSame ==
  ASSUME StoreOK, mem' = mem, gen' = gen, vec' = vec, jobs' = jobs
  PROVE  StoreOK'
  BY DEF StoreOK, CellsOK

LEMMA StoreSupersede ==
  ASSUME StoreOK, NEW w \in Workers, NEW k \in Key, Supersede(w, k)
  PROVE  StoreOK'
<1>1. mem' = mem /\ gen' = gen /\ vec' = vec
  BY DEF Supersede
<1>2. CASE Owns(w, k)
  <2>1. SetRow(w, k, Closed(RowAt(w, k), "superseded"))
    BY <1>2 DEF Supersede
  <2> QED BY <1>1, <1>2, <2>1, StoreClosed
<1>3. CASE ~Owns(w, k)
  BY <1>1, <1>3, StoreTouch DEF Supersede
<1> QED BY <1>2, <1>3

LEMMA StoreFail ==
  ASSUME StoreOK, NEW w \in Workers, NEW k \in Key, Fail(w, k)
  PROVE  StoreOK'
<1>1. mem' = mem /\ gen' = gen /\ vec' = vec
  BY DEF Fail
<1>2. CASE jobs' = jobs
  BY <1>1, <1>2, StoreSame
<1>3. CASE Owns(w, k) /\ SetRow(w, k, Failed(RowAt(w, k)))
  <2>1. Failed(RowAt(w, k)) \in Row /\ BudgetOK(Failed(RowAt(w, k)))
    BY RowOfWorker, FailedRow
  <2>2. Live(RowAt(w, k))
    BY <1>3 DEF Owns, Live
  <2> QED BY <1>1, <1>3, <2>1, <2>2, StoreSetRow
<1>4. CASE Touch(w, k)
  BY <1>1, <1>4, StoreTouch
<1> QED BY <1>2, <1>3, <1>4 DEF Fail

LEMMA StoreBeat ==
  ASSUME StoreOK, NEW w \in Workers, NEW k \in Key, Beat(w, k)
  PROVE  StoreOK'
<1>1. mem' = mem /\ gen' = gen /\ vec' = vec
  BY DEF Beat
<1> QED BY <1>1, StoreTouch, StoreSame DEF Beat

LEMMA StoreFallDue ==
  ASSUME StoreOK, NEW m \in Memories, NEW g \in Gens, NEW c \in Contents, FallDue(m, g, c)
  PROVE  StoreOK'
<1> DEFINE row == [jobs[m][g][c] EXCEPT !.due = TRUE]
<1>1. row \in Row /\ BudgetOK(row)
  BY RowsOfStore, DueRow
<1> HIDE DEF row
<1>2. mem' = mem /\ gen' = gen /\ vec' = vec /\ jobs' = [jobs EXCEPT ![m][g][c] = row]
  BY DEF FallDue, row
<1>3. jobs' \in [Memories -> [Gens -> Rows]]
  BY <1>1, <1>2 DEF StoreOK, Rows
<1>4. \A n \in Memories, h \in Gens, d \in Contents :
        jobs'[n][h][d] = IF n = m /\ h = g /\ d = c THEN row ELSE jobs[n][h][d]
  BY <1>2 DEF StoreOK, Rows
<1>5. Live(jobs[m][g][c])
  BY DEF FallDue
<1> QED BY <1>1, <1>2, <1>3, <1>4, <1>5, StoreWorked

LEMMA StorePublish ==
  ASSUME StoreOK, NEW w \in Workers, NEW k \in Key, Publish(w, k)
  PROVE  StoreOK'
<1>1. mem' = mem /\ gen' = gen
  BY DEF Publish
<1>2. CASE jobs' = jobs /\ vec' = vec
  BY <1>1, <1>2, StoreSame
<1>3. CASE vec' = vec /\ Owns(w, k) /\ SetRow(w, k, Closed(RowAt(w, k), "superseded"))
  BY <1>1, <1>3, StoreClosed
<1>4. CASE /\ Owns(w, k) /\ Matches(k) /\ SetRow(w, k, Closed(RowAt(w, k), "succeeded"))
           /\ vec' = [vec EXCEPT ![k[1]][GenOf[w]] = [status |-> "ready", content |-> k[2]]]
  <2> DEFINE row == Closed(RowAt(w, k), "succeeded")
             v == [status |-> "ready", content |-> k[2]]
  <2>1. k[1] \in Memories /\ k[2] \in Contents /\ GenOf[w] \in Gens
    BY RowOfWorker
  <2>2. row \in Row /\ BudgetOK(row) /\ ~Live(row) /\ row.status = "succeeded"
    BY RowOfWorker, ClosedBudget, ClosedRow DEF Status
  <2>3. v \in Vector
    BY <2>1 DEF Vector
  <2>4. mem[k[1]].content = k[2] /\ Live(jobs[k[1]][GenOf[w]][k[2]])
    BY <1>4, RowOfWorker DEF Matches, Owns, Live
  <2> HIDE DEF row
  <2>5. /\ jobs' \in [Memories -> [Gens -> Rows]]
        /\ \A m \in Memories, g \in Gens, c \in Contents :
             jobs'[m][g][c] = IF m = k[1] /\ g = GenOf[w] /\ c = k[2] THEN row ELSE jobs[m][g][c]
    BY <1>4, <2>2, RowIsSet DEF row
  <2>6. /\ vec' \in [Memories -> [Gens -> Vector]]
        /\ \A m \in Memories, g \in Gens :
             vec'[m][g] = IF m = k[1] /\ g = GenOf[w] THEN v ELSE vec[m][g]
    BY <1>4, <2>1, <2>3 DEF StoreOK
  <2>7. ASSUME NEW m \in Memories, NEW g \in Gens
        PROVE  CellOK(mem'[m], gen'[g], jobs'[m][g], vec'[m][g])
    <3>1. CellOK(mem[m], gen[g], jobs[m][g], vec[m][g]) /\ mem[m] \in Memory
      BY DEF StoreOK, CellsOK
    <3>2. CASE m = k[1] /\ g = GenOf[w]
      <4>1. /\ jobs'[m][g][k[2]] = row /\ vec'[m][g] = [status |-> "ready", content |-> k[2]]
            /\ \A d \in Contents \ {k[2]} : jobs'[m][g][d] = jobs[m][g][d]
        BY <2>1, <2>5, <2>6, <3>2
      <4>2. Live(jobs[m][g][k[2]]) /\ mem[m].content = k[2]
        BY <2>4, <3>2
      <4>3. CellOK(mem[m], gen[g], jobs'[m][g], [status |-> "ready", content |-> k[2]])
        BY <2>1, <2>2, <3>1, <4>1, <4>2, PublishedCell
      <4> QED BY <1>1, <4>1, <4>3
    <3>3. CASE ~(m = k[1] /\ g = GenOf[w])
      <4>1. vec'[m][g] = vec[m][g] /\ \A c \in Contents : jobs'[m][g][c] = jobs[m][g][c]
        BY <2>5, <2>6, <3>3
      <4>2. CellOK(mem[m], gen[g], jobs'[m][g], vec[m][g])
        BY <3>1, <4>1, FreshRows DEF CellOK
      <4> QED BY <1>1, <4>1, <4>2
    <3> QED BY <3>2, <3>3
  <2> QED BY <1>1, <2>5, <2>6, <2>7 DEF StoreOK, CellsOK
<1> QED BY <1>2, <1>3, <1>4 DEF Publish

-----------------------------------------------------------------------------
(* What is not the store: batches, the backfill, the gate, and the texts.  *)

Backfills == [copy : [Memories -> Memory], todo : SUBSET (Memories \X Gens),
              cancel : SUBSET Memories, drop : SUBSET Memories]

Gates == [passed : 0..2, gens : SUBSET Gens]

SideOK ==
  /\ worker \in [Workers -> Batch]
  /\ backfill \in Backfills /\ gate \in Gates
  /\ raced \subseteq Memories
  /\ ops \in Nat

LEMMA Parts == IInv <=> StoreOK /\ SideOK /\ TextsOK
  BY DEF IInv, TypeOK, StoreOK, SideOK, Rows, Backfills, Gates

LEMMA BatchParts ==
  ASSUME NEW b \in Batch, NEW k \in Key
  PROVE  /\ [b EXCEPT !.claimed = @ \cup {k}] \in Batch
         /\ [b EXCEPT !.claimed = @ \ {k}, !.prepared = @ \cup {k}] \in Batch
         /\ [b EXCEPT !.claimed = @ \ {k}, !.mismatch = {k}] \in Batch
         /\ [b EXCEPT !.mismatch = {}] \in Batch
         /\ [b EXCEPT !.lost = @ \cup {k}] \in Batch
         /\ [b EXCEPT !.prepared = @ \ {k}, !.lost = @ \ {k}] \in Batch
  BY DEF Batch

LEMMA BatchPhases ==
  ASSUME NEW b \in Batch, NEW f \in {"claiming", "checking", "embedding", "publishing", "failing"}
  PROVE  [b EXCEPT !.phase = f] \in Batch
  BY DEF Batch

LEMMA EmptyBatch == NoBatch \in Batch
  BY DEF NoBatch, Batch

LEMMA CheckedBatch ==
  ASSUME NEW b \in Batch
  PROVE  Checked(b) \in Batch
  BY BatchPhases, EmptyBatch DEF Checked

LEMMA DoneBatch ==
  ASSUME NEW b \in Batch, NEW k \in Key
  PROVE  Done(b, k) \in Batch
  BY BatchParts, EmptyBatch DEF Done

LEMMA WorkerStep ==
  ASSUME worker \in [Workers -> Batch], NEW w \in Workers,
         \/ EndClaims(w) \/ EmbedEnds(w) \/ Crash(w)
         \/ \E k \in Key : \/ Claim(w, k) \/ Check(w, k) \/ Supersede(w, k)
                           \/ Publish(w, k) \/ Fail(w, k) \/ Beat(w, k)
  PROVE  worker' \in [Workers -> Batch]
<1>1. worker[w] \in Batch
  OBVIOUS
<1>2. ASSUME NEW b \in Batch, worker' = [worker EXCEPT ![w] = b]
      PROVE  worker' \in [Workers -> Batch]
  BY <1>2
<1>3. CASE EndClaims(w) \/ EmbedEnds(w)
  <2>1. PICK f \in {"claiming", "checking", "embedding", "publishing", "failing"} :
          worker' = [worker EXCEPT ![w].phase = f]
    BY <1>1, <1>3 DEF EndClaims, EmbedEnds, Batch
  <2> QED BY <1>1, <2>1, BatchPhases
<1>4. CASE Crash(w)
  BY <1>2, <1>4, EmptyBatch DEF Crash
<1>5. ASSUME NEW k \in Key, Claim(w, k)
      PROVE  worker' \in [Workers -> Batch]
  BY <1>1, <1>5, BatchParts DEF Claim
<1>6. ASSUME NEW k \in Key, Check(w, k)
      PROVE  worker' \in [Workers -> Batch]
  <2>1. worker' = [worker EXCEPT ![w] = Checked(Compared(worker[w], k))]
    BY <1>6 DEF Check
  <2>2. Checked(Compared(worker[w], k)) \in Batch
    BY <1>1, BatchParts, CheckedBatch DEF Compared
  <2> QED BY <1>2, <2>1, <2>2
<1>7. ASSUME NEW k \in Key, Supersede(w, k)
      PROVE  worker' \in [Workers -> Batch]
  <2>1. CASE worker' = [worker EXCEPT ![w] = NoBatch]
    BY <1>2, <2>1, EmptyBatch
  <2>2. CASE worker' = [worker EXCEPT ![w] = Checked([worker[w] EXCEPT !.mismatch = {}])]
    <3>1. [worker[w] EXCEPT !.mismatch = {}] \in Batch
      BY <1>1, BatchParts
    <3>2. Checked([worker[w] EXCEPT !.mismatch = {}]) \in Batch
      BY <3>1, CheckedBatch
    <3> QED BY <1>2, <2>2, <3>2
  <2> QED BY <1>7, <2>1, <2>2 DEF Supersede
<1>8. ASSUME NEW k \in Key, Publish(w, k) \/ Fail(w, k)
      PROVE  worker' \in [Workers -> Batch]
  <2>1. worker' = [worker EXCEPT ![w] = Done(worker[w], k)]
    BY <1>8 DEF Publish, Fail
  <2> QED BY <1>1, <1>2, <2>1, DoneBatch
<1>9. ASSUME NEW k \in Key, Beat(w, k)
      PROVE  worker' \in [Workers -> Batch]
  BY <1>1, <1>9, BatchParts DEF Beat
<1> QED BY <1>3, <1>4, <1>5, <1>6, <1>7, <1>8, <1>9

LEMMA NothingUnderWay == NoBackfill \in Backfills /\ NoBackfill.todo = {} /\ NoGate \in Gates
  BY Constants DEF NoBackfill, NoGate, Backfills, Gates

\* b is as far as a, or further on.
Shrinks(a, b) ==
  /\ b \in Backfills
  /\ b.todo = {} \/ (b.todo \subseteq a.todo /\ b.copy = a.copy)

LEMMA RemainingShrinks ==
  ASSUME NEW a \in Backfills, NEW b \in Backfills, Shrinks(a, b)
  PROVE  Shrinks(a, Remaining(b))
  BY NothingUnderWay DEF Shrinks, Remaining

LEMMA BackfillShrinks ==
  ASSUME SideOK, NEW t,
         \/ backfill' = NoBackfill \/ backfill' = backfill
         \/ backfill' = Remaining([backfill EXCEPT !.todo = @ \ {t}])
         \/ backfill' = [backfill EXCEPT !.cancel = @ \ {t}]
         \/ backfill' = Remaining([backfill EXCEPT !.drop = @ \ {t}])
  PROVE  Shrinks(backfill, backfill')
<1>1. backfill \in Backfills
  BY DEF SideOK
<1>2. \A a \in Backfills : /\ [a EXCEPT !.todo = @ \ {t}] \in Backfills /\ Shrinks(a, [a EXCEPT !.todo = @ \ {t}])
                           /\ [a EXCEPT !.cancel = @ \ {t}] \in Backfills /\ Shrinks(a, [a EXCEPT !.cancel = @ \ {t}])
                           /\ [a EXCEPT !.drop = @ \ {t}] \in Backfills /\ Shrinks(a, [a EXCEPT !.drop = @ \ {t}])
  BY DEF Backfills, Shrinks
<1>3. \A a \in Backfills : Shrinks(a, a) /\ Shrinks(a, NoBackfill)
  BY NothingUnderWay DEF Shrinks
<1> QED BY <1>1, <1>2, <1>3, RemainingShrinks

LEMMA BackfillIsRead ==
  ASSUME StoreOK, TextsOK, BackfillRead
  PROVE  /\ backfill' \in Backfills
         /\ \A m \in Memories, g \in Gens : <<m, g>> \in backfill'.todo => backfill'.copy[m].content \in Contents
<1> DEFINE kept == {m \in Memories : mem[m].embed}
           rest == {m \in Memories : mem[m] # NoMemory} \ kept
<1>1. backfill' = [copy |-> mem, todo |-> kept \X Indexing, cancel |-> rest, drop |-> rest]
  BY DEF BackfillRead
<1>2. /\ mem \in [Memories -> Memory] /\ Indexing \subseteq Gens
      /\ kept \subseteq Memories /\ rest \subseteq Memories
  BY DEF StoreOK, Indexing
<1>3. \A m \in kept : mem[m].content \in Contents
  BY DEF TextsOK, NoMemory
<1> HIDE DEF kept, rest
<1> QED BY <1>1, <1>2, <1>3 DEF Backfills

LEMMA GateStep ==
  ASSUME SideOK, NEW g \in Gens, CheckCoverage(g) \/ CheckOutstanding(g) \/ Activate(g)
  PROVE  gate' \in Gates
  BY NothingUnderWay DEF Gates, SideOK, CheckCoverage, CheckOutstanding, Activate

\* Which variables a step leaves alone.
LEMMA WriteFrame ==
  ASSUME SideOK, Write
  PROVE  /\ worker' = worker /\ backfill' = backfill /\ gate' = gate
         /\ raced' \subseteq Memories /\ ops' \in Nat
<1>1. ASSUME NEW m \in Memories, NEW c \in Contents, NEW embed \in BOOLEAN, Upsert(m, c, embed)
      PROVE  /\ UNCHANGED <<worker, backfill, gate>> /\ Counted /\ Written({m})
  BY <1>1 DEF Upsert
<1>2. ASSUME NEW m \in Memories, Delete(m)
      PROVE  /\ UNCHANGED <<worker, backfill, gate>> /\ Counted /\ Written({m})
  BY <1>2 DEF Delete
<1>3. ASSUME NEW gone, NEW flipped, Retain(gone, flipped)
      PROVE  /\ UNCHANGED <<worker, backfill, gate>> /\ Counted /\ Written(Memories)
  BY <1>3 DEF Retain
<1>4. /\ UNCHANGED <<worker, backfill, gate>> /\ Counted
      /\ \E ms \in SUBSET Memories : Written(ms)
  BY <1>1, <1>2, <1>3 DEF Write
<1> QED BY <1>4 DEF SideOK, Written, Counted

LEMMA SideStep ==
  ASSUME StoreOK, SideOK, TextsOK, Next
  PROVE  SideOK'
<1>1. CASE Write
  BY <1>1, WriteFrame DEF SideOK
<1>2. ASSUME NEW g \in Gens, Register(g) \/ CheckCoverage(g) \/ CheckOutstanding(g) \/ Activate(g) \/ Prune(g)
      PROVE  SideOK'
  <2>1. worker' = worker /\ backfill' = backfill /\ raced' = raced /\ ops' \in Nat
    BY <1>2 DEF Register, CheckCoverage, CheckOutstanding, Activate, Prune, Counted, SideOK
  <2>2. gate' \in Gates
    BY <1>2, GateStep DEF Register, Prune, SideOK
  <2> QED BY <2>1, <2>2 DEF SideOK
<1>3. CASE BackfillRead
  BY <1>3, BackfillIsRead DEF BackfillRead, Counted, SideOK
<1>4. CASE Abandon
  BY <1>4, NothingUnderWay DEF Abandon, SideOK
<1>5. ASSUME NEW m \in Memories, BackfillCancel(m) \/ BackfillDrop(m)
      PROVE  SideOK'
  <2>1. \/ backfill' = [backfill EXCEPT !.cancel = @ \ {m}]
        \/ backfill' = Remaining([backfill EXCEPT !.drop = @ \ {m}])
    BY <1>5 DEF BackfillCancel, BackfillDrop
  <2> QED BY <1>5, <2>1, BackfillShrinks DEF BackfillCancel, BackfillDrop, SideOK, Shrinks
<1>6. ASSUME NEW m \in Memories, NEW g \in Gens, BackfillSchedule(m, g)
      PROVE  SideOK'
  <2>1. backfill' = NoBackfill \/ backfill' = Remaining([backfill EXCEPT !.todo = @ \ {<<m, g>>}])
    BY <1>6 DEF BackfillSchedule
  <2> QED BY <1>6, <2>1, BackfillShrinks DEF BackfillSchedule, SideOK, Shrinks
<1>7. ASSUME NEW w \in Workers,
             \/ EndClaims(w) \/ EmbedEnds(w) \/ Crash(w)
             \/ \E k \in Key : \/ Claim(w, k) \/ Check(w, k) \/ Supersede(w, k)
                               \/ Publish(w, k) \/ Fail(w, k) \/ Beat(w, k)
      PROVE  SideOK'
  <2>1. backfill' = backfill /\ gate' = gate /\ raced' = raced /\ ops' = ops
    BY <1>7 DEF EndClaims, EmbedEnds, Crash, Claim, Check, Supersede, Publish, Fail, Beat
  <2> QED BY <1>7, <2>1, WorkerStep DEF SideOK
<1>8. ASSUME NEW m \in Memories, NEW g \in Gens, NEW c \in Contents, FallDue(m, g, c)
      PROVE  SideOK'
  BY <1>8 DEF FallDue, SideOK
<1> QED BY <1>1, <1>2, <1>3, <1>4, <1>5, <1>6, <1>7, <1>8 DEF Next, Administer, Work, TimePasses

LEMMA TextsStep ==
  ASSUME StoreOK, SideOK, TextsOK, Next
  PROVE  TextsOK'
<1> DEFINE Backfilled == \A m \in Memories, g \in Gens :
             <<m, g>> \in backfill'.todo => backfill'.copy[m].content \in Contents
<1>1. CASE Write
  <2>1. backfill' = backfill
    BY <1>1, WriteFrame
  <2>2. \A m \in Memories : mem'[m] = NoMemory \/ mem'[m].content \in Contents
    <3>1. mem \in [Memories -> Memory] /\ \A m \in Memories : mem[m] = NoMemory \/ mem[m].content \in Contents
      BY DEF StoreOK, TextsOK
    <3>2. ASSUME NEW n \in Memories, NEW c \in Contents, NEW embed \in BOOLEAN, Upsert(n, c, embed)
          PROVE  \A m \in Memories : mem'[m] = NoMemory \/ mem'[m].content \in Contents
      BY <3>1, <3>2 DEF Upsert
    <3>3. ASSUME NEW n \in Memories, Delete(n)
          PROVE  \A m \in Memories : mem'[m] = NoMemory \/ mem'[m].content \in Contents
      BY <3>1, <3>3 DEF Delete
    <3>4. ASSUME NEW gone \in SUBSET Memories, NEW flipped \in SUBSET Memories, Retain(gone, flipped)
          PROVE  \A m \in Memories : mem'[m] = NoMemory \/ mem'[m].content \in Contents
      BY <3>1, <3>4 DEF Retain, Retained, Memory
    <3> QED BY <1>1, <3>2, <3>3, <3>4 DEF Write
  <2> QED BY <2>1, <2>2 DEF TextsOK
<1>2. ASSUME mem' = mem, Backfilled
      PROVE  TextsOK'
  BY <1>2 DEF TextsOK
<1>3. CASE BackfillRead
  BY <1>2, <1>3, BackfillIsRead DEF BackfillRead
<1>4. ASSUME Shrinks(backfill, backfill')
      PROVE  Backfilled
  BY <1>4 DEF TextsOK, Shrinks
<1>5. ASSUME backfill' = backfill
      PROVE  Backfilled
  BY <1>5 DEF TextsOK
<1>6. ASSUME NEW m \in Memories, BackfillCancel(m) \/ BackfillDrop(m)
      PROVE  TextsOK'
  <2>1. \/ backfill' = [backfill EXCEPT !.cancel = @ \ {m}]
        \/ backfill' = Remaining([backfill EXCEPT !.drop = @ \ {m}])
    BY <1>6 DEF BackfillCancel, BackfillDrop
  <2>2. mem' = mem
    BY <1>6 DEF BackfillCancel, BackfillDrop
  <2> QED BY <1>2, <1>4, <2>1, <2>2, BackfillShrinks
<1>7. ASSUME NEW m \in Memories, NEW g \in Gens, BackfillSchedule(m, g)
      PROVE  TextsOK'
  <2>1. backfill' = NoBackfill \/ backfill' = Remaining([backfill EXCEPT !.todo = @ \ {<<m, g>>}])
    BY <1>7 DEF BackfillSchedule
  <2>2. mem' = mem
    BY <1>7 DEF BackfillSchedule
  <2> QED BY <1>2, <1>4, <2>1, <2>2, BackfillShrinks
<1>8. CASE Abandon
  <2>1. mem' = mem /\ (backfill' = NoBackfill \/ backfill' = backfill)
    BY <1>8 DEF Abandon
  <2> QED BY <1>2, <1>4, <2>1, BackfillShrinks
<1>9. ASSUME NEW g \in Gens, Register(g) \/ CheckCoverage(g) \/ CheckOutstanding(g) \/ Activate(g) \/ Prune(g)
      PROVE  mem' = mem /\ backfill' = backfill
  BY <1>9 DEF Register, CheckCoverage, CheckOutstanding, Activate, Prune
<1>10. ASSUME NEW w \in Workers,
              \/ EndClaims(w) \/ EmbedEnds(w) \/ Crash(w)
              \/ \E k \in Key : \/ Claim(w, k) \/ Check(w, k) \/ Supersede(w, k)
                                \/ Publish(w, k) \/ Fail(w, k) \/ Beat(w, k)
       PROVE  mem' = mem /\ backfill' = backfill
  BY <1>10 DEF EndClaims, EmbedEnds, Crash, Claim, Check, Supersede, Publish, Fail, Beat
<1>11. ASSUME NEW m \in Memories, NEW g \in Gens, NEW c \in Contents, FallDue(m, g, c)
       PROVE  mem' = mem /\ backfill' = backfill
  BY <1>11 DEF FallDue
<1> HIDE DEF Backfilled
<1> QED BY <1>1, <1>2, <1>3, <1>5, <1>6, <1>7, <1>8, <1>9, <1>10, <1>11 DEF Next, Administer, Work, TimePasses

-----------------------------------------------------------------------------
(* The invariant, and what follows from it.                                *)

LEMMA StoreStep ==
  ASSUME StoreOK, SideOK, TextsOK, Next
  PROVE  StoreOK'
<1>1. CASE Write
  BY <1>1, StoreUpsert, StoreDelete, StoreRetain DEF Write
<1>2. ASSUME NEW g \in Gens, Register(g) \/ CheckCoverage(g) \/ CheckOutstanding(g) \/ Activate(g) \/ Prune(g)
      PROVE  StoreOK'
  <2>1. CASE CheckCoverage(g) \/ CheckOutstanding(g)
    BY <2>1, StoreSame DEF CheckCoverage, CheckOutstanding
  <2> QED BY <1>2, <2>1, StoreRegister, StorePrune
<1>3. CASE BackfillRead \/ Abandon
  BY <1>3, StoreSame DEF BackfillRead, Abandon
<1>4. ASSUME NEW m \in Memories, BackfillCancel(m) \/ BackfillDrop(m)
      PROVE  StoreOK'
  BY <1>4, StoreBackfillCancel, StoreBackfillDrop
<1>5. ASSUME NEW m \in Memories, NEW g \in Gens, BackfillSchedule(m, g)
      PROVE  StoreOK'
  <2>1. backfill.copy \in [Memories -> Memory]
    BY DEF SideOK, Backfills
  <2>2. \A n \in Memories, h \in Gens : <<n, h>> \in backfill.todo => backfill.copy[n].content \in Contents
    BY DEF TextsOK
  <2> QED BY <1>5, <2>1, <2>2, StoreBackfillSchedule
<1>6. ASSUME NEW w \in Workers, EndClaims(w) \/ \E k \in Key : Claim(w, k)
      PROVE  StoreOK'
  BY <1>6, StoreClaim
<1>7. ASSUME NEW w \in Workers, EmbedEnds(w) \/ Crash(w) \/ \E k \in Key : Check(w, k)
      PROVE  StoreOK'
  BY <1>7, StoreSame DEF EmbedEnds, Crash, Check
<1>8. ASSUME NEW w \in Workers, NEW k \in Key, Supersede(w, k) \/ Publish(w, k) \/ Fail(w, k) \/ Beat(w, k)
      PROVE  StoreOK'
  BY <1>8, StoreSupersede, StorePublish, StoreFail, StoreBeat
<1>9. ASSUME NEW m \in Memories, NEW g \in Gens, NEW c \in Contents, FallDue(m, g, c)
      PROVE  StoreOK'
  BY <1>9, StoreFallDue
<1> QED BY <1>1, <1>2, <1>3, <1>4, <1>5, <1>6, <1>7, <1>8, <1>9 DEF Next, Administer, Work, TimePasses

LEMMA InvInit == Init => IInv
<1> SUFFICES ASSUME Init PROVE IInv
  OBVIOUS
<1>1. /\ worker = [w \in Workers |-> NoBatch] /\ backfill = NoBackfill /\ gate = NoGate
      /\ raced = {} /\ ops = 0
  BY DEF Init
<1>2. SideOK
  BY <1>1, NothingUnderWay, EmptyBatch DEF SideOK
<1>3. TextsOK
  <2>1. PICK held \in Held : mem = [m \in Memories |-> [content |-> held[m], embed |-> held[m] # NoContent]]
    BY DEF Init
  <2>2. ASSUME NEW m \in Memories
        PROVE  mem[m] = NoMemory \/ mem[m].content \in Contents
    BY <2>1 DEF Held, NoMemory
  <2> QED BY <1>1, <2>2, NothingUnderWay DEF TextsOK
<1> QED BY <1>2, <1>3, StoreInit, Parts

LEMMA InvStep == IInv /\ [Next]_vars => IInv'
<1> SUFFICES ASSUME IInv, [Next]_vars PROVE IInv'
  OBVIOUS
<1>1. CASE Next
  <2>1. StoreOK' /\ SideOK' /\ TextsOK'
    BY <1>1, Parts, StoreStep, SideStep, TextsStep
  <2> QED BY <2>1 DEF IInv, TypeOK, StoreOK, SideOK, Rows, Backfills, Gates
<1>2. CASE UNCHANGED vars
  BY <1>2 DEF vars, IInv, TypeOK, CellsOK, TextsOK
<1> QED BY <1>1, <1>2

LEMMA InvHolds == Spec => []IInv
  BY InvInit, InvStep, PTL DEF Spec

(* Every reachable state has the shape the tables and the batches allow. *)
THEOREM TypeCorrect == Spec => []TypeOK
<1>1. IInv => TypeOK
  BY DEF IInv
<1> QED BY <1>1, InvHolds, PTL

(* A search is never answered from a vector of a text the memory no longer
   has, also while a backfill schedules records it read long ago. *)
THEOREM NoStaleVector == Spec => []ReadyIsCurrent
<1>1. IInv => ReadyIsCurrent
  BY DEF IInv, CellsOK, CellOK, ReadyIsCurrent, Ready
<1> QED BY <1>1, InvHolds, PTL

(* A memory has one outstanding job in a generation, and none beside a ready
   vector, whatever writers, backfills and workers overlap. *)
THEOREM OneJobAtATime == Spec => []OneLiveJob
<1>1. IInv => OneLiveJob
  BY DEF IInv, CellsOK, CellOK, OneLiveJob, Ready
<1> QED BY <1>1, InvHolds, PTL

(* A job is claimed MaxAttempts times at most, whatever leases end, and is
   given up only then. *)
THEOREM BudgetKept == Spec => []AttemptBudget
<1>1. IInv => AttemptBudget
  BY DEF IInv, CellsOK, CellOK, BudgetOK, AttemptBudget
<1> QED BY <1>1, InvHolds, PTL

-----------------------------------------------------------------------------
(* Who publishes.  Every other step leaves a vector as it is, or withdraws *)
(* it; so a vector that appears is a worker's, and it held the lease.      *)

NoneAppears == \A m \in Memories, g \in Gens : Ready(m, g)' => Ready(m, g)

LEMMA WritesPublishNothing ==
  ASSUME StoreOK, Write
  PROVE  NoneAppears
<1>1. ASSUME NEW n \in Memories, NEW c \in Contents, NEW embed \in BOOLEAN, Upsert(n, c, embed)
      PROVE  NoneAppears
  <2> DEFINE r == [content |-> c, embed |-> embed]
  <2>1. vec' = [vec EXCEPT ![n] = VectorsAfter(n, r)]
    BY <1>1 DEF Upsert
  <2> HIDE DEF r
  <2>2. ASSUME NEW g \in Gens
        PROVE  VectorsAfter(n, r)[g].status = "ready" => vec[n][g].status = "ready"
    <3>1. vec[n][g] \in Vector
      BY DEF StoreOK
    <3> QED BY <3>1 DEF VectorsAfter, ScheduledVector, Withdrawn, NoVector, Vector
  <2> QED BY <2>1, <2>2 DEF NoneAppears, Ready, StoreOK
<1>2. ASSUME NEW n \in Memories, Delete(n)
      PROVE  NoneAppears
  BY <1>2 DEF Delete, NoneAppears, Ready, StoreOK, NoVectors, NoVector
<1>3. ASSUME NEW gone \in SUBSET Memories, NEW flipped \in SUBSET Memories, Retain(gone, flipped)
      PROVE  NoneAppears
  BY <1>3 DEF Retain, NoneAppears, Ready, NoVectors, NoVector
<1> QED BY <1>1, <1>2, <1>3 DEF Write

LEMMA AdministratorPublishesNothing ==
  ASSUME StoreOK, Administer
  PROVE  NoneAppears
<1>1. CASE vec' = vec
  BY <1>1 DEF NoneAppears, Ready
<1>2. ASSUME NEW g \in Gens, Prune(g)
      PROVE  NoneAppears
  BY <1>2 DEF Prune, NoneAppears, Ready, StoreOK, NoVector
<1>3. ASSUME NEW n \in Memories, BackfillDrop(n)
      PROVE  NoneAppears
  BY <1>3 DEF BackfillDrop, NoneAppears, Ready, StoreOK, NoVectors, NoVector
<1>4. ASSUME NEW n \in Memories, NEW h \in Gens, BackfillSchedule(n, h)
      PROVE  NoneAppears
  <2>1. vec[n][h] \in Vector
    BY DEF StoreOK
  <2>2. ASSUME NEW c
        PROVE  ScheduledVector(vec[n][h], c).status = "ready" => vec[n][h].status = "ready"
    BY <2>1 DEF ScheduledVector, Vector
  <2>3. vec' = vec \/ \E c : vec' = [vec EXCEPT ![n][h] = ScheduledVector(vec[n][h], c)]
    BY <1>4 DEF BackfillSchedule
  <2> QED BY <1>1, <2>2, <2>3 DEF NoneAppears, Ready, StoreOK
<1>5. ASSUME NEW g \in Gens, Register(g) \/ CheckCoverage(g) \/ CheckOutstanding(g) \/ Activate(g)
      PROVE  vec' = vec
  BY <1>5 DEF Register, CheckCoverage, CheckOutstanding, Activate
<1>6. ASSUME NEW n \in Memories, BackfillCancel(n)
      PROVE  vec' = vec
  BY <1>6 DEF BackfillCancel
<1>7. BackfillRead \/ Abandon => vec' = vec
  BY DEF BackfillRead, Abandon
<1> QED BY <1>1, <1>2, <1>3, <1>4, <1>5, <1>6, <1>7 DEF Administer

(* A vector appears only under a live lease of the job for its content, and
   for a job the heartbeat has not lost: no late answer is published. *)
THEOREM NothingLateIsPublished == Spec => PublishedUnderLease
<1> DEFINE Leased == \A m \in Memories, g \in Gens :
             ~Ready(m, g) /\ Ready(m, g)' =>
               LET c == vec'[m][g].content
                   row == jobs[m][g][c]
               IN  /\ row.status = "running" /\ ~row.due
                   /\ <<m, c>> \in worker[row.owner].prepared \ worker[row.owner].lost
                   /\ GenOf[row.owner] = g
<1>1. ASSUME NoneAppears
      PROVE  Leased
  BY <1>1 DEF NoneAppears
<1>2. ASSUME IInv, NEW w \in Workers, NEW k \in Key, Publish(w, k)
      PROVE  Leased
  <2>1. StoreOK
    BY <1>2, Parts
  <2>2. CASE vec' = vec
    BY <1>1, <2>2 DEF NoneAppears, Ready
  <2>3. CASE /\ k \notin worker[w].lost /\ Owns(w, k)
             /\ vec' = [vec EXCEPT ![k[1]][GenOf[w]] = [status |-> "ready", content |-> k[2]]]
    <3>1. /\ k[1] \in Memories /\ k[2] \in Contents /\ GenOf[w] \in Gens
          /\ RowAt(w, k) = jobs[k[1]][GenOf[w]][k[2]] /\ k = <<k[1], k[2]>>
      BY <2>1, RowOfWorker DEF Key
    <3>2. ASSUME NEW m \in Memories, NEW g \in Gens, ~Ready(m, g) /\ Ready(m, g)'
          PROVE  m = k[1] /\ g = GenOf[w] /\ vec'[m][g].content = k[2]
      BY <2>1, <2>3, <3>1, <3>2 DEF Ready, StoreOK
    <3>3. /\ RowAt(w, k).status = "running" /\ ~RowAt(w, k).due /\ RowAt(w, k).owner = w
          /\ k \in worker[w].prepared \ worker[w].lost
      BY <1>2, <2>3 DEF Owns, Publish
    <3> QED BY <3>1, <3>2, <3>3
  <2> QED BY <1>2, <2>2, <2>3 DEF Publish
<1>3. ASSUME IInv, NEW w \in Workers,
             \/ EndClaims(w) \/ EmbedEnds(w) \/ Crash(w)
             \/ \E k \in Key : Claim(w, k) \/ Check(w, k) \/ Supersede(w, k) \/ Fail(w, k) \/ Beat(w, k)
      PROVE  NoneAppears
  BY <1>3 DEF EndClaims, EmbedEnds, Crash, Claim, Check, Supersede, Fail, Beat, NoneAppears, Ready
<1>4. ASSUME NEW m \in Memories, NEW g \in Gens, NEW c \in Contents, FallDue(m, g, c)
      PROVE  NoneAppears
  BY <1>4 DEF FallDue, NoneAppears, Ready
<1>5. ASSUME IInv, Next
      PROVE  Leased
  <2>1. StoreOK
    BY <1>5, Parts
  <2> HIDE DEF Leased
  <2> QED BY <1>1, <1>2, <1>3, <1>4, <1>5, <2>1, WritesPublishNothing, AdministratorPublishesNothing
          DEF Next, Work, TimePasses
<1>6. ASSUME UNCHANGED vars
      PROVE  Leased
  BY <1>1, <1>6 DEF vars, NoneAppears, Ready
<1>7. IInv /\ [Next]_vars => [Leased]_vars
  <2> HIDE DEF Leased
  <2> QED BY <1>5, <1>6
<1> QED BY <1>7, InvHolds, PTL DEF Spec, PublishedUnderLease

-----------------------------------------------------------------------------
(* No memory is forgotten.  Again the argument goes cell by cell, for the  *)
(* memories no write of which fell between the reads and the writes of a   *)
(* backfill or of an activation; what these read is still true of them.    *)

Known == Memories \ raced

CellCovered(r, gs, rows, v) ==
  /\ (gs = "active" /\ r.embed) =>
       v.status = "ready" \/ Live(rows[r.content]) \/ rows[r.content].status = "dead_letter"
  /\ ~r.embed => v = NoVector /\ \A c \in Contents : ~Live(rows[c])
  /\ gs = "active" => \A c \in Contents : Live(rows[c]) => c = r.content

StoreCovered == \A m \in Known, g \in Gens : CellCovered(mem[m], gen[g], jobs[m][g], vec[m][g])

\* What an activation checked, and what a backfill read, is still so.
PlanCovers(m, g) ==
  /\ g \in gate.gens /\ mem[m].embed => Ready(m, g)
  /\ <<m, g>> \in backfill.todo => mem[m].embed /\ backfill.copy[m].content = mem[m].content
  /\ m \in backfill.cancel \cup backfill.drop => ~mem[m].embed

PlanOK == \A m \in Known, g \in Gens : PlanCovers(m, g)

Owned(row, w) == row.status = "running" /\ row.owner = w

\* A job found to be of another text is not in the active generation, or no
\* longer the worker's: the write that changed the text superseded it.
MismatchOK ==
  \A w \in Workers, k \in Key : k \in worker[w].mismatch =>
    /\ worker[w].phase = "checking"
    /\ gen[GenOf[w]] = "active" /\ k[1] \in Known => ~Owned(RowAt(w, k), w)

\* The inductive invariant behind Covered and ActivationIsComplete.
CoverInv == IInv /\ StoreCovered /\ PlanOK /\ MismatchOK

LEMMA KnownText ==
  ASSUME TextsOK, NEW m \in Memories, mem[m].embed
  PROVE  mem[m].content \in Contents
  BY DEF TextsOK, NoMemory

LEMMA CoverImplies ==
  ASSUME StoreCovered
  PROVE  Covered
<1>1. ASSUME NEW m \in Memories \ raced, NEW g \in Gens
      PROVE  /\ Serves(m, g) => Tracked(m, g)
             /\ ~mem[m].embed => /\ vec[m][g] = NoVector
                                  /\ \A c \in Contents : ~Live(jobs[m][g][c])
  <2>1. CellCovered(mem[m], gen[g], jobs[m][g], vec[m][g])
    BY DEF StoreCovered, Known
  <2> QED BY <2>1 DEF CellCovered, Serves, Tracked, Settles, Ready
<1> QED BY <1>1 DEF Covered

-----------------------------------------------------------------------------
(* Covered cells: what the transactions make of them.                      *)

LEMMA ScheduledIsCovered ==
  ASSUME NEW r, NEW s, NEW gs, NEW rows \in Rows, NEW v \in Vector,
         CellOK(r, gs, rows, v), s.embed, s.content \in Contents
  PROVE  CellCovered(s, gs, ScheduledRows(v, rows, s.content), ScheduledVector(v, s.content))
<1>1. CASE UpToDate(v, s.content)
  BY <1>1 DEF UpToDate, ScheduledRows, ScheduledVector, CellOK, CellCovered
<1>2. CASE ~UpToDate(v, s.content)
  <2> DEFINE after == ScheduledRows(v, rows, s.content)
  <2>1. after = [d \in Contents |-> IF d # s.content THEN Superseded(rows[d])
                                    ELSE IF Live(rows[d]) THEN rows[d] ELSE NewRow]
    BY <1>2 DEF ScheduledRows
  <2>2. \A d \in Contents : rows[d] \in Row /\ BudgetOK(rows[d])
    BY DEF Rows, CellOK
  <2>3. \A d \in Contents : Live(after[d]) => d = s.content
    BY <2>1, <2>2, SupersededRow
  <2>4. Live(after[s.content])
    BY <2>1, FreshRows
  <2> HIDE DEF after
  <2>5. CellCovered(s, gs, after, ScheduledVector(v, s.content))
    BY <2>3, <2>4 DEF CellCovered
  <2> QED BY <2>5 DEF after
<1> QED BY <1>1, <1>2

LEMMA UnembeddedIsCovered ==
  ASSUME NEW s, ~s.embed, NEW gs, NEW rows, \A c \in Contents : ~Live(rows[c])
  PROVE  CellCovered(s, gs, rows, NoVector)
  BY DEF CellCovered

LEMMA RequeuedIsCovered ==
  ASSUME NEW s, s.embed, s.content \in Contents, NEW gs, NEW rows,
         \A d \in Contents : rows[d] = IF d = s.content THEN NewRow ELSE NoRow
  PROVE  CellCovered(s, gs, rows, NoVector)
  BY FreshRows DEF CellCovered

LEMMA UnservedIsCovered ==
  ASSUME NEW s, s.embed, NEW gs, gs # "active", NEW rows, NEW v
  PROVE  CellCovered(s, gs, rows, v)
  BY DEF CellCovered

\* Another status of the generation: one becomes active only where it is ready.
LEMMA TurnedIsCovered ==
  ASSUME NEW r, NEW gs, NEW rows, NEW v, CellCovered(r, gs, rows, v), CellOK(r, gs, rows, v),
         NEW hs, hs = "active" => gs = "active" \/ (r.embed => v.status = "ready")
  PROVE  CellCovered(r, hs, rows, v)
  BY DEF CellCovered, CellOK

\* What a worker or a clock makes of a row of a generation.
Worked(gs, row, after) ==
  \/ after = row
  \/ Live(row) /\ (Live(after) \/ after.status = "dead_letter" \/ gs # "active")

LEMMA WorkedIsCovered ==
  ASSUME NEW r, NEW gs, NEW rows, NEW v, CellCovered(r, gs, rows, v), NEW after,
         r.embed => r.content \in Contents,
         \A c \in Contents : Worked(gs, rows[c], after[c])
  PROVE  CellCovered(r, gs, after, v)
<1>1. \A c \in Contents : ~Live(rows[c]) => after[c] = rows[c]
  BY DEF Worked
<1>2. ~r.embed => v = NoVector /\ \A c \in Contents : ~Live(after[c])
  BY <1>1 DEF CellCovered
<1>3. gs = "active" => \A c \in Contents : Live(after[c]) => c = r.content
  BY <1>1 DEF CellCovered
<1>4. ASSUME gs = "active", r.embed, v.status # "ready"
      PROVE  Live(after[r.content]) \/ after[r.content].status = "dead_letter"
  <2>1. r.content \in Contents /\ (Live(rows[r.content]) \/ rows[r.content].status = "dead_letter")
    BY <1>4 DEF CellCovered
  <2> QED BY <1>4, <2>1 DEF Worked, Live
<1> QED BY <1>2, <1>3, <1>4 DEF CellCovered

LEMMA PublishedIsCovered ==
  ASSUME NEW r, NEW gs, NEW rows, NEW v, CellCovered(r, gs, rows, v),
         NEW c \in Contents, Live(rows[c]), r.content = c, NEW after, ~Live(after[c]),
         \A d \in Contents \ {c} : after[d] = rows[d], NEW u, u.status = "ready"
  PROVE  CellCovered(r, gs, after, u)
<1>1. ~(~r.embed)
  BY DEF CellCovered
<1>2. \A d \in Contents : Live(after[d]) => Live(rows[d])
  OBVIOUS
<1> QED BY <1>1, <1>2 DEF CellCovered

-----------------------------------------------------------------------------
(* Covered stores: the writers.  A write while a backfill or an activation *)
(* is under way takes its memories out of Known; otherwise there is no     *)
(* plan that it could upset.                                               *)

LEMMA QuietPlan ==
  ASSUME Quiet
  PROVE  backfill.todo = {} /\ backfill.cancel = {} /\ backfill.drop = {} /\ gate.gens = {}
  BY DEF Quiet, NoBackfill, NoGate

\* Who a write leaves known: the memories it did not touch, or all when quiet.
LEMMA StillKnown ==
  ASSUME NEW ms, Written(ms)
  PROVE  Known' \subseteq Known /\ (Quiet \/ Known' \cap ms = {})
  BY DEF Written, Known

LEMMA PlanWritten ==
  ASSUME PlanOK, backfill' = backfill, gate' = gate, NEW ms, Written(ms),
         \A m \in Memories \ ms : mem'[m] = mem[m] /\ vec'[m] = vec[m]
  PROVE  PlanOK'
<1>1. CASE Quiet
  <2>1. /\ backfill'.todo = {} /\ backfill'.cancel = {} /\ backfill'.drop = {} /\ gate'.gens = {}
    BY <1>1, QuietPlan
  <2> QED BY <2>1 DEF PlanOK, PlanCovers
<1>2. CASE ~Quiet
  <2>1. ASSUME NEW m \in Known', NEW g \in Gens
        PROVE  PlanCovers(m, g)'
    <3>1. m \in Known /\ mem'[m] = mem[m] /\ vec'[m] = vec[m]
      BY <1>2, StillKnown DEF Known
    <3>2. PlanCovers(m, g)
      BY <3>1 DEF PlanOK
    <3> QED BY <3>1, <3>2 DEF PlanCovers, Ready
  <2> QED BY <2>1 DEF PlanOK
<1> QED BY <1>1, <1>2

LEMMA CoverUpsert ==
  ASSUME StoreOK, StoreCovered, PlanOK,
         NEW m \in Memories, NEW c \in Contents, NEW embed \in BOOLEAN, Upsert(m, c, embed)
  PROVE  StoreCovered' /\ PlanOK'
<1> DEFINE r == [content |-> c, embed |-> embed]
<1>1. r.content = c /\ r.embed = embed
  OBVIOUS
<1> HIDE DEF r
<1>2. /\ mem' = [mem EXCEPT ![m] = r] /\ gen' = gen
      /\ vec' = [vec EXCEPT ![m] = VectorsAfter(m, r)]
      /\ jobs' = [jobs EXCEPT ![m] = RowsAfter(m, r)]
      /\ backfill' = backfill /\ gate' = gate /\ Written({m})
  BY DEF Upsert, r
<1>3. \A n \in Memories \ {m} : mem'[n] = mem[n] /\ jobs'[n] = jobs[n] /\ vec'[n] = vec[n]
  BY <1>2 DEF StoreOK
<1>4. PlanOK'
  BY <1>2, <1>3, PlanWritten
<1>5. ASSUME NEW g \in Gens
      PROVE  CellCovered(r, gen[g], RowsAfter(m, r)[g], VectorsAfter(m, r)[g])
  <2>1. /\ jobs[m][g] \in Rows /\ vec[m][g] \in Vector
        /\ CellOK(mem[m], gen[g], jobs[m][g], vec[m][g])
    BY DEF StoreOK, CellsOK
  <2>2. CASE ~r.embed
    <3>1. /\ VectorsAfter(m, r)[g] = NoVector
          /\ RowsAfter(m, r)[g] = [d \in Contents |-> Superseded(jobs[m][g][d])]
      BY <2>2 DEF VectorsAfter, RowsAfter
    <3>2. \A d \in Contents : ~Live(RowsAfter(m, r)[g][d])
      BY <3>1, RowsOfStore, SupersededRow
    <3> QED BY <2>2, <3>1, <3>2, UnembeddedIsCovered
  <2>3. CASE r.embed /\ g \in Indexing
    <3>1. /\ VectorsAfter(m, r)[g] = ScheduledVector(vec[m][g], r.content)
          /\ RowsAfter(m, r)[g] = ScheduledRows(vec[m][g], jobs[m][g], r.content)
      BY <2>3 DEF VectorsAfter, RowsAfter
    <3> QED BY <1>1, <2>1, <2>3, <3>1, ScheduledIsCovered
  <2>4. CASE r.embed /\ g \notin Indexing
    <3>1. gen[g] # "active"
      BY <2>4 DEF Indexing
    <3> QED BY <2>4, <3>1, UnservedIsCovered
  <2> QED BY <1>1, <2>2, <2>3, <2>4
<1>6. ASSUME NEW n \in Known', NEW g \in Gens
      PROVE  CellCovered(mem'[n], gen'[g], jobs'[n][g], vec'[n][g])
  <2>1. n \in Known /\ n \in Memories
    BY <1>2, StillKnown DEF Known
  <2>2. CASE n = m
    <3>1. mem'[n] = r /\ jobs'[n] = RowsAfter(m, r) /\ vec'[n] = VectorsAfter(m, r)
      BY <1>2, <2>2 DEF StoreOK
    <3> QED BY <1>2, <1>5, <3>1
  <2>3. CASE n # m
    <3>1. mem'[n] = mem[n] /\ jobs'[n] = jobs[n] /\ vec'[n] = vec[n]
      BY <1>3, <2>1, <2>3
    <3> QED BY <1>2, <2>1, <3>1 DEF StoreCovered
  <2> QED BY <2>2, <2>3
<1> QED BY <1>4, <1>6 DEF StoreCovered

LEMMA CoverDelete ==
  ASSUME StoreOK, StoreCovered, PlanOK, NEW m \in Memories, Delete(m)
  PROVE  StoreCovered' /\ PlanOK'
<1>1. /\ mem' = [mem EXCEPT ![m] = NoMemory] /\ gen' = gen
      /\ vec' = [vec EXCEPT ![m] = NoVectors] /\ jobs' = [jobs EXCEPT ![m] = NoRows]
      /\ backfill' = backfill /\ gate' = gate /\ Written({m})
  BY DEF Delete
<1>2. \A n \in Memories \ {m} : mem'[n] = mem[n] /\ jobs'[n] = jobs[n] /\ vec'[n] = vec[n]
  BY <1>1 DEF StoreOK
<1>3. PlanOK'
  BY <1>1, <1>2, PlanWritten
<1>4. ASSUME NEW n \in Known', NEW g \in Gens
      PROVE  CellCovered(mem'[n], gen'[g], jobs'[n][g], vec'[n][g])
  <2>1. n \in Known /\ n \in Memories
    BY <1>1, StillKnown DEF Known
  <2>2. CASE n = m
    <3>1. /\ ~mem'[n].embed /\ vec'[n][g] = NoVector
          /\ \A c \in Contents : jobs'[n][g][c] = NoRow
      BY <1>1, <2>2 DEF StoreOK, NoRows, NoVectors, NoMemory
    <3> QED BY <3>1, FreshRows, UnembeddedIsCovered
  <2>3. CASE n # m
    <3>1. mem'[n] = mem[n] /\ jobs'[n] = jobs[n] /\ vec'[n] = vec[n]
      BY <1>2, <2>1, <2>3
    <3> QED BY <1>1, <2>1, <3>1 DEF StoreCovered
  <2> QED BY <2>2, <2>3
<1> QED BY <1>3, <1>4 DEF StoreCovered

LEMMA CoverRetain ==
  ASSUME StoreOK, TextsOK', StoreCovered, PlanOK,
         NEW gone \in SUBSET Memories, NEW flipped \in SUBSET Memories, Retain(gone, flipped)
  PROVE  StoreCovered' /\ PlanOK'
<1>1. /\ mem' = [m \in Memories |-> Retained(m, gone, flipped)] /\ gen' = gen
      /\ vec' = [m \in Memories |-> NoVectors]
      /\ jobs' = [m \in Memories |-> RequeuedRows(Retained(m, gone, flipped))]
      /\ backfill' = backfill /\ gate' = gate /\ Written(Memories)
  BY DEF Retain
<1>2. PlanOK'
  BY <1>1, PlanWritten
<1>3. ASSUME NEW m \in Memories, NEW g \in Gens
      PROVE  CellCovered(mem'[m], gen'[g], jobs'[m][g], vec'[m][g])
  <2> DEFINE r == Retained(m, gone, flipped)
  <2>1. mem'[m] = r /\ vec'[m][g] = NoVector /\ jobs'[m] = RequeuedRows(r)
    BY <1>1 DEF NoVectors
  <2> HIDE DEF r
  <2>2. \A c \in Contents : jobs'[m][g][c] = IF r.embed /\ g \in Indexing /\ c = r.content THEN NewRow ELSE NoRow
    BY <2>1 DEF RequeuedRows
  <2>3. CASE r.embed /\ g \in Indexing
    <3>1. \A c \in Contents : jobs'[m][g][c] = IF c = r.content THEN NewRow ELSE NoRow
      BY <2>2, <2>3
    <3>2. r.content \in Contents
      BY <2>1, <2>3 DEF TextsOK, NoMemory
    <3> QED BY <2>1, <2>3, <3>1, <3>2, RequeuedIsCovered
  <2>4. CASE r.embed /\ g \notin Indexing
    <3>1. gen'[g] # "active"
      BY <1>1, <2>4 DEF Indexing
    <3> QED BY <2>1, <2>4, <3>1, UnservedIsCovered
  <2>5. CASE ~r.embed
    <3>1. \A c \in Contents : ~Live(jobs'[m][g][c])
      BY <2>2, <2>5, FreshRows
    <3> QED BY <2>1, <2>5, <3>1, UnembeddedIsCovered
  <2> QED BY <2>3, <2>4, <2>5
<1> QED BY <1>2, <1>3 DEF StoreCovered, Known

LEMMA CoverWrite ==
  ASSUME StoreOK, TextsOK', StoreCovered, PlanOK, Write
  PROVE  StoreCovered' /\ PlanOK'
  BY CoverUpsert, CoverDelete, CoverRetain DEF Write

-----------------------------------------------------------------------------
(* Covered stores: the administrator.                                      *)

\* A plan that only gets shorter, over a store whose ready vectors stay.
LEMMA PlanShrinks ==
  ASSUME PlanOK, mem' = mem, raced' = raced, gate'.gens \subseteq gate.gens,
         backfill'.todo = {} \/ (backfill'.todo \subseteq backfill.todo /\ backfill'.copy = backfill.copy),
         backfill'.cancel \subseteq backfill.cancel, backfill'.drop \subseteq backfill.drop,
         \A m \in Known, g \in Gens : g \in gate'.gens /\ mem[m].embed /\ Ready(m, g) => Ready(m, g)'
  PROVE  PlanOK'
<1>1. ASSUME NEW m \in Known', NEW g \in Gens
      PROVE  PlanCovers(m, g)'
  <2>1. m \in Known
    BY DEF Known
  <2>2. PlanCovers(m, g)
    BY <2>1 DEF PlanOK
  <2>3. g \in gate'.gens /\ mem'[m].embed => Ready(m, g)'
    BY <2>1, <2>2 DEF PlanCovers
  <2>4. <<m, g>> \in backfill'.todo => mem'[m].embed /\ backfill'.copy[m].content = mem'[m].content
    BY <2>2 DEF PlanCovers
  <2>5. m \in backfill'.cancel \cup backfill'.drop => ~mem'[m].embed
    BY <2>2 DEF PlanCovers
  <2> QED BY <2>3, <2>4, <2>5 DEF PlanCovers
<1> QED BY <1>1 DEF PlanOK

LEMMA BackfillAdvances ==
  ASSUME SideOK, NEW t,
         \/ backfill' = NoBackfill \/ backfill' = backfill
         \/ backfill' = Remaining([backfill EXCEPT !.todo = @ \ {t}])
         \/ backfill' = [backfill EXCEPT !.cancel = @ \ {t}]
         \/ backfill' = Remaining([backfill EXCEPT !.drop = @ \ {t}])
  PROVE  /\ backfill'.todo = {} \/ (backfill'.todo \subseteq backfill.todo /\ backfill'.copy = backfill.copy)
         /\ backfill'.cancel \subseteq backfill.cancel /\ backfill'.drop \subseteq backfill.drop
<1>1. backfill \in Backfills
  BY DEF SideOK
<1>2. NoBackfill.todo = {} /\ NoBackfill.cancel = {} /\ NoBackfill.drop = {}
  BY DEF NoBackfill
<1>3. CASE backfill' = NoBackfill \/ backfill' = backfill
  BY <1>2, <1>3
<1>4. ASSUME NEW b \in Backfills, backfill' = Remaining(b)
      PROVE  backfill' = NoBackfill \/ backfill' = b
  BY <1>4 DEF Remaining
<1>5. /\ [backfill EXCEPT !.todo = @ \ {t}] \in Backfills
      /\ [backfill EXCEPT !.drop = @ \ {t}] \in Backfills
  BY <1>1 DEF Backfills
<1>6. CASE \/ backfill' = [backfill EXCEPT !.todo = @ \ {t}]
           \/ backfill' = [backfill EXCEPT !.cancel = @ \ {t}]
           \/ backfill' = [backfill EXCEPT !.drop = @ \ {t}]
  BY <1>1, <1>6 DEF Backfills
<1> QED BY <1>3, <1>4, <1>5, <1>6

LEMMA CoverRegister ==
  ASSUME StoreOK, StoreCovered, PlanOK, NEW g \in Gens, Register(g)
  PROVE  StoreCovered' /\ PlanOK'
<1>1. /\ mem' = mem /\ jobs' = jobs /\ vec' = vec /\ raced' = raced
      /\ backfill' = backfill /\ gate' = gate
  BY DEF Register
<1>2. \A h \in Gens : gen'[h] = "active" => gen[h] = "active"
  BY DEF Register, StoreOK
<1>3. PlanOK'
  BY <1>1 DEF PlanOK, PlanCovers, Known, Ready
<1>4. ASSUME NEW m \in Known', NEW h \in Gens
      PROVE  CellCovered(mem'[m], gen'[h], jobs'[m][h], vec'[m][h])
  <2>1. /\ CellCovered(mem[m], gen[h], jobs[m][h], vec[m][h])
        /\ CellOK(mem[m], gen[h], jobs[m][h], vec[m][h])
    BY <1>1 DEF StoreCovered, StoreOK, CellsOK, Known
  <2>2. CellCovered(mem[m], gen'[h], jobs[m][h], vec[m][h])
    BY <1>2, <2>1, TurnedIsCovered
  <2> QED BY <1>1, <2>2
<1> QED BY <1>3, <1>4 DEF StoreCovered

\* What the checks found still holds when their generation becomes the active one.
LEMMA ActivatedIsReady ==
  ASSUME PlanOK, NEW g \in Gens, Activate(g), NEW m \in Known, NEW h \in Gens, gen'[h] = "active"
  PROVE  h = g /\ (mem[m].embed => Ready(m, h))
<1>1. h = g /\ g \in gate.gens
  BY DEF Activate
<1> QED BY <1>1 DEF PlanOK, PlanCovers

LEMMA CoverActivate ==
  ASSUME StoreOK, StoreCovered, PlanOK, NEW g \in Gens, Activate(g)
  PROVE  StoreCovered' /\ PlanOK'
<1>1. /\ mem' = mem /\ jobs' = jobs /\ vec' = vec /\ raced' = raced
      /\ backfill' = backfill /\ gate' = NoGate
  BY DEF Activate
<1>2. PlanOK'
  <2>1. gate'.gens = {}
    BY <1>1 DEF NoGate
  <2> QED BY <1>1, <2>1 DEF PlanOK, PlanCovers, Known
<1>3. ASSUME NEW m \in Known', NEW h \in Gens
      PROVE  CellCovered(mem'[m], gen'[h], jobs'[m][h], vec'[m][h])
  <2>1. m \in Known
    BY <1>1 DEF Known
  <2>2. /\ CellCovered(mem[m], gen[h], jobs[m][h], vec[m][h])
        /\ CellOK(mem[m], gen[h], jobs[m][h], vec[m][h])
    BY <2>1 DEF StoreCovered, StoreOK, CellsOK, Known
  <2>3. gen'[h] = "active" => (mem[m].embed => vec[m][h].status = "ready")
    BY <2>1, ActivatedIsReady DEF Ready
  <2>4. CellCovered(mem[m], gen'[h], jobs[m][h], vec[m][h])
    BY <2>2, <2>3, TurnedIsCovered
  <2> QED BY <1>1, <2>4
<1> QED BY <1>2, <1>3 DEF StoreCovered

LEMMA CoverPrune ==
  ASSUME StoreOK, StoreCovered, PlanOK, NEW g \in Gens, Prune(g)
  PROVE  StoreCovered' /\ PlanOK'
<1>1. /\ mem' = mem /\ gen' = [gen EXCEPT ![g] = "absent"] /\ raced' = raced
      /\ backfill' = backfill /\ gate' = gate /\ gate = NoGate
      /\ vec' = [m \in Memories |-> [vec[m] EXCEPT ![g] = NoVector]]
      /\ jobs' = [m \in Memories |-> [jobs[m] EXCEPT ![g] = [c \in Contents |-> NoRow]]]
  BY DEF Prune
<1>2. PlanOK'
  <2>1. gate'.gens = {}
    BY <1>1 DEF NoGate
  <2> QED BY <1>1, <2>1 DEF PlanOK, PlanCovers, Known
<1>3. ASSUME NEW m \in Known', NEW h \in Gens
      PROVE  CellCovered(mem'[m], gen'[h], jobs'[m][h], vec'[m][h])
  <2>1. m \in Known /\ m \in Memories
    BY <1>1 DEF Known
  <2>2. CASE h = g
    <3>1. /\ gen'[h] # "active" /\ vec'[m][h] = NoVector
          /\ \A c \in Contents : jobs'[m][h][c] = NoRow
      BY <1>1, <2>1, <2>2 DEF StoreOK
    <3> QED BY <3>1, FreshRows DEF CellCovered
  <2>3. CASE h # g
    <3>1. gen'[h] = gen[h] /\ vec'[m][h] = vec[m][h] /\ jobs'[m][h] = jobs[m][h]
      BY <1>1, <2>1, <2>3 DEF StoreOK
    <3> QED BY <1>1, <2>1, <3>1 DEF StoreCovered
  <2> QED BY <2>2, <2>3
<1> QED BY <1>2, <1>3 DEF StoreCovered

LEMMA CoverSame ==
  ASSUME StoreCovered, mem' = mem, gen' = gen, jobs' = jobs, vec' = vec, raced' = raced
  PROVE  StoreCovered'
  BY DEF StoreCovered, Known

LEMMA CoverChecks ==
  ASSUME StoreCovered, PlanOK, NEW g \in Gens, CheckCoverage(g) \/ CheckOutstanding(g)
  PROVE  StoreCovered' /\ PlanOK'
<1>1. /\ mem' = mem /\ gen' = gen /\ jobs' = jobs /\ vec' = vec /\ raced' = raced /\ backfill' = backfill
  BY DEF CheckCoverage, CheckOutstanding
<1>2. CASE CheckCoverage(g)
  <2>1. \A m \in Memories : mem[m].embed => Ready(m, g)
    BY <1>2 DEF CheckCoverage, FullCoverage
  <2>2. gate'.gens = {g}
    BY <1>2 DEF CheckCoverage
  <2>3. ASSUME NEW m \in Known', NEW h \in Gens
        PROVE  PlanCovers(m, h)'
    <3>1. m \in Memories /\ PlanCovers(m, h)
      BY <1>1 DEF PlanOK, Known
    <3> QED BY <1>1, <2>1, <2>2, <3>1 DEF PlanCovers, Ready
  <2> QED BY <1>1, <2>3, CoverSame DEF PlanOK
<1>3. CASE CheckOutstanding(g)
  <2>1. gate'.gens \subseteq gate.gens
    BY <1>3 DEF CheckOutstanding, NoGate
  <2> QED BY <1>1, <2>1, CoverSame, PlanShrinks DEF Ready
<1> QED BY <1>2, <1>3

LEMMA CoverBackfillRead ==
  ASSUME StoreCovered, PlanOK, BackfillRead
  PROVE  StoreCovered' /\ PlanOK'
<1> DEFINE kept == {m \in Memories : mem[m].embed}
           rest == {m \in Memories : mem[m] # NoMemory} \ kept
<1>1. /\ mem' = mem /\ gen' = gen /\ jobs' = jobs /\ vec' = vec /\ raced' = raced /\ gate' = gate
      /\ backfill' = [copy |-> mem, todo |-> kept \X Indexing, cancel |-> rest, drop |-> rest]
  BY DEF BackfillRead
<1>2. (\A m \in kept : mem[m].embed) /\ \A m \in rest : ~mem[m].embed
  OBVIOUS
<1> HIDE DEF kept, rest
<1>3. ASSUME NEW m \in Known', NEW g \in Gens
      PROVE  PlanCovers(m, g)'
  <2>1. PlanCovers(m, g)
    BY <1>1 DEF PlanOK, Known
  <2> QED BY <1>1, <1>2, <2>1 DEF PlanCovers, Ready
<1> QED BY <1>1, <1>3, CoverSame DEF PlanOK

LEMMA CoverBackfillSchedule ==
  ASSUME StoreOK, SideOK, TextsOK, StoreCovered, PlanOK,
         NEW m \in Memories, NEW g \in Gens, BackfillSchedule(m, g)
  PROVE  StoreCovered' /\ PlanOK'
<1> DEFINE c == backfill.copy[m].content
<1>1. /\ mem' = mem /\ gen' = gen /\ raced' = raced /\ gate' = gate
      /\ backfill' = NoBackfill \/ backfill' = Remaining([backfill EXCEPT !.todo = @ \ {<<m, g>>}])
  BY DEF BackfillSchedule
<1>2. /\ backfill'.todo = {} \/ (backfill'.todo \subseteq backfill.todo /\ backfill'.copy = backfill.copy)
      /\ backfill'.cancel \subseteq backfill.cancel /\ backfill'.drop \subseteq backfill.drop
  BY <1>1, BackfillAdvances
<1>3. CASE jobs' = jobs /\ vec' = vec
  BY <1>1, <1>2, <1>3, CoverSame, PlanShrinks DEF Ready
<1>4. CASE /\ vec' = [vec EXCEPT ![m][g] = ScheduledVector(vec[m][g], c)]
           /\ jobs' = [jobs EXCEPT ![m][g] = ScheduledRows(vec[m][g], jobs[m][g], c)]
  <2>1. /\ jobs[m][g] \in Rows /\ vec[m][g] \in Vector
        /\ CellOK(mem[m], gen[g], jobs[m][g], vec[m][g])
    BY DEF StoreOK, CellsOK
  <2>2. ASSUME m \in Known
        PROVE  mem[m].embed /\ mem[m].content \in Contents /\ c = mem[m].content
    <3>1. <<m, g>> \in backfill.todo /\ PlanCovers(m, g)
      BY <2>2 DEF PlanOK, BackfillSchedule
    <3> QED BY <3>1, KnownText DEF PlanCovers
  <2>3. m \in Known => CellCovered(mem[m], gen[g], ScheduledRows(vec[m][g], jobs[m][g], c),
                                   ScheduledVector(vec[m][g], c))
    <3> HIDE DEF c
    <3> QED BY <2>1, <2>2, ScheduledIsCovered
  <2>4. m \in Known /\ Ready(m, g) => ScheduledVector(vec[m][g], c) = vec[m][g]
    <3> HIDE DEF c
    <3> QED BY <2>1, <2>2 DEF CellOK, Ready, ScheduledVector, UpToDate
  <2> HIDE DEF c
  <2>5. ASSUME NEW n \in Memories, NEW h \in Gens
        PROVE  IF n = m /\ h = g
                 THEN /\ jobs'[n][h] = ScheduledRows(vec[m][g], jobs[m][g], c)
                      /\ vec'[n][h] = ScheduledVector(vec[m][g], c)
                 ELSE jobs'[n][h] = jobs[n][h] /\ vec'[n][h] = vec[n][h]
    BY <1>4 DEF StoreOK
  <2>6. ASSUME NEW n \in Known', NEW h \in Gens
        PROVE  CellCovered(mem'[n], gen'[h], jobs'[n][h], vec'[n][h])
    <3>1. n \in Known /\ n \in Memories
      BY <1>1 DEF Known
    <3>2. CellCovered(mem[n], gen[h], jobs[n][h], vec[n][h])
      BY <3>1 DEF StoreCovered
    <3>3. CASE n = m /\ h = g
      BY <1>1, <2>3, <2>5, <3>1, <3>3
    <3>4. CASE ~(n = m /\ h = g)
      BY <1>1, <2>5, <3>1, <3>2, <3>4
    <3> QED BY <3>3, <3>4
  <2>7. ASSUME NEW n \in Known, NEW h \in Gens, Ready(n, h)
        PROVE  Ready(n, h)'
    <3>1. n \in Memories
      BY DEF Known
    <3>2. vec'[n][h] = vec[n][h]
      BY <2>4, <2>5, <2>7, <3>1
    <3> QED BY <2>7, <3>2 DEF Ready
  <2>8. PlanOK'
    BY <1>1, <1>2, <2>7, PlanShrinks
  <2> QED BY <2>6, <2>8 DEF StoreCovered
<1> QED BY <1>3, <1>4 DEF BackfillSchedule

LEMMA CoverBackfillCancel ==
  ASSUME StoreOK, SideOK, StoreCovered, PlanOK, NEW m \in Memories, BackfillCancel(m)
  PROVE  StoreCovered' /\ PlanOK'
<1> DEFINE after == [g \in Gens |-> [c \in Contents |-> Superseded(jobs[m][g][c])]]
<1>1. /\ mem' = mem /\ gen' = gen /\ vec' = vec /\ raced' = raced /\ gate' = gate
      /\ jobs' = [jobs EXCEPT ![m] = after] /\ m \in backfill.cancel
      /\ backfill' = [backfill EXCEPT !.cancel = @ \ {m}]
  BY DEF BackfillCancel
<1>2. \A g \in Gens, c \in Contents : after[g][c] = Superseded(jobs[m][g][c])
  OBVIOUS
<1> HIDE DEF after
<1>3. PlanOK'
  BY <1>1, BackfillAdvances, PlanShrinks DEF Ready
<1>4. ASSUME NEW n \in Known', NEW g \in Gens
      PROVE  CellCovered(mem'[n], gen'[g], jobs'[n][g], vec'[n][g])
  <2>1. n \in Known /\ n \in Memories /\ CellCovered(mem[n], gen[g], jobs[n][g], vec[n][g])
    BY <1>1 DEF Known, StoreCovered
  <2>2. CASE n = m
    <3>1. ~mem[n].embed
      BY <1>1, <2>1, <2>2 DEF PlanOK, PlanCovers
    <3>2. vec[n][g] = NoVector
      BY <2>1, <3>1 DEF CellCovered
    <3>3. \A c \in Contents : ~Live(jobs'[n][g][c])
      <4>1. \A c \in Contents : jobs'[n][g][c] = Superseded(jobs[n][g][c])
        BY <1>1, <1>2, <2>2 DEF StoreOK
      <4> QED BY <2>1, <4>1, RowsOfStore, SupersededRow
    <3>4. CellCovered(mem[n], gen[g], jobs'[n][g], NoVector)
      BY <3>1, <3>3, UnembeddedIsCovered
    <3> QED BY <1>1, <3>2, <3>4
  <2>3. CASE n # m
    <3>1. jobs'[n] = jobs[n]
      BY <1>1, <2>1, <2>3 DEF StoreOK
    <3> QED BY <1>1, <2>1, <3>1
  <2> QED BY <2>2, <2>3
<1> QED BY <1>3, <1>4 DEF StoreCovered

LEMMA CoverBackfillDrop ==
  ASSUME StoreOK, SideOK, StoreCovered, PlanOK, NEW m \in Memories, BackfillDrop(m)
  PROVE  StoreCovered' /\ PlanOK'
<1>1. /\ mem' = mem /\ gen' = gen /\ jobs' = jobs /\ raced' = raced /\ gate' = gate
      /\ vec' = [vec EXCEPT ![m] = NoVectors] /\ m \in backfill.drop
      /\ backfill' = Remaining([backfill EXCEPT !.drop = @ \ {m}])
  BY DEF BackfillDrop
<1>2. ASSUME NEW n \in Known, NEW g \in Gens
      PROVE  vec'[n][g] = vec[n][g]
  <2>1. n \in Memories /\ CellCovered(mem[n], gen[g], jobs[n][g], vec[n][g])
    BY DEF Known, StoreCovered
  <2>2. CASE n = m
    <3>1. ~mem[n].embed
      BY <1>1, <2>2 DEF PlanOK, PlanCovers
    <3> QED BY <1>1, <2>1, <2>2, <3>1 DEF StoreOK, NoVectors, CellCovered
  <2>3. CASE n # m
    BY <1>1, <2>1, <2>3 DEF StoreOK
  <2> QED BY <2>2, <2>3
<1>3. PlanOK'
  BY <1>1, <1>2, BackfillAdvances, PlanShrinks DEF Ready
<1>4. StoreCovered'
  BY <1>1, <1>2 DEF StoreCovered, Known
<1> QED BY <1>3, <1>4

LEMMA CoverAbandon ==
  ASSUME SideOK, StoreCovered, PlanOK, Abandon
  PROVE  StoreCovered' /\ PlanOK'
<1>1. /\ mem' = mem /\ gen' = gen /\ jobs' = jobs /\ vec' = vec /\ raced' = raced
      /\ gate' = NoGate \/ gate' = gate
      /\ backfill' = NoBackfill \/ backfill' = backfill
  BY DEF Abandon
<1>2. gate'.gens \subseteq gate.gens
  BY <1>1 DEF NoGate
<1> QED BY <1>1, <1>2, BackfillAdvances, CoverSame, PlanShrinks DEF Ready

LEMMA CoverAdminister ==
  ASSUME StoreOK, SideOK, TextsOK, StoreCovered, PlanOK, Administer
  PROVE  StoreCovered' /\ PlanOK'
  BY CoverRegister, CoverActivate, CoverPrune, CoverChecks, CoverBackfillRead, CoverBackfillSchedule,
     CoverBackfillCancel, CoverBackfillDrop, CoverAbandon DEF Administer

-----------------------------------------------------------------------------
(* Covered stores: workers and clocks.                                     *)

\* A worker leaves alone what the administrator and the writers keep.
Frame == mem' = mem /\ gen' = gen /\ backfill' = backfill /\ gate' = gate /\ raced' = raced

LEMMA WorkerFrame ==
  ASSUME NEW w \in Workers,
         \/ EndClaims(w) \/ EmbedEnds(w) \/ Crash(w)
         \/ \E k \in Key : \/ Claim(w, k) \/ Check(w, k) \/ Supersede(w, k)
                           \/ Publish(w, k) \/ Fail(w, k) \/ Beat(w, k)
  PROVE  Frame
  BY DEF Frame, EndClaims, EmbedEnds, Crash, Claim, Check, Supersede, Publish, Fail, Beat

LEMMA PlanFrame ==
  ASSUME PlanOK, Frame, \A m \in Known, g \in Gens : Ready(m, g) => Ready(m, g)'
  PROVE  PlanOK'
  BY PlanShrinks DEF Frame

LEMMA CoverWorked ==
  ASSUME TextsOK, StoreCovered, PlanOK, Frame, vec' = vec,
         \A m \in Known, g \in Gens, c \in Contents : Worked(gen[g], jobs[m][g][c], jobs'[m][g][c])
  PROVE  StoreCovered' /\ PlanOK'
<1>1. ASSUME NEW m \in Known, NEW g \in Gens
      PROVE  CellCovered(mem[m], gen[g], jobs'[m][g], vec[m][g])
  <2>1. CellCovered(mem[m], gen[g], jobs[m][g], vec[m][g])
    BY DEF StoreCovered
  <2>2. mem[m].embed => mem[m].content \in Contents
    BY KnownText DEF Known
  <2>3. \A c \in Contents : Worked(gen[g], jobs[m][g][c], jobs'[m][g][c])
    OBVIOUS
  <2> QED BY <2>1, <2>2, <2>3, WorkedIsCovered
<1>2. StoreCovered'
  BY <1>1 DEF StoreCovered, Frame, Known
<1>3. PlanOK'
  BY PlanFrame DEF Ready
<1> QED BY <1>2, <1>3

LEMMA CoverSetRow ==
  ASSUME StoreOK, TextsOK, StoreCovered, PlanOK, Frame, vec' = vec,
         NEW w \in Workers, NEW k \in Key, NEW row \in Row, SetRow(w, k, row),
         k[1] \in Known => Worked(gen[GenOf[w]], RowAt(w, k), row)
  PROVE  StoreCovered' /\ PlanOK'
<1>1. ASSUME NEW m \in Known, NEW g \in Gens, NEW c \in Contents
      PROVE  Worked(gen[g], jobs[m][g][c], jobs'[m][g][c])
  <2>1. m \in Memories
    BY DEF Known
  <2>2. CASE m = k[1] /\ g = GenOf[w] /\ c = k[2]
    <3>1. jobs'[m][g][c] = row /\ RowAt(w, k) = jobs[m][g][c]
      BY <2>1, <2>2, RowIsSet DEF RowAt
    <3> QED BY <2>2, <3>1
  <2>3. CASE ~(m = k[1] /\ g = GenOf[w] /\ c = k[2])
    <3>1. jobs'[m][g][c] = jobs[m][g][c]
      BY <2>1, <2>3, RowIsSet
    <3> QED BY <3>1 DEF Worked
  <2> QED BY <2>2, <2>3
<1> QED BY <1>1, CoverWorked

\* A lease that ends gives the job back, or gives it up.
LEMMA RecoveredIsWorked ==
  ASSUME NEW row \in Row, NEW gs
  PROVE  Worked(gs, row, Recovered(row))
<1>1. CASE ~(row.status = "running" /\ row.due)
  BY <1>1 DEF Recovered, Worked
<1>2. CASE row.status = "running" /\ row.due /\ row.att >= MaxAttempts
  BY <1>2, ClosedRow DEF Recovered, Worked, Live, Status
<1>3. CASE row.status = "running" /\ row.due /\ ~(row.att >= MaxAttempts)
  <2>1. Recovered(row).status = "pending"
    BY <1>3 DEF Recovered, Row
  <2> QED BY <1>3, <2>1 DEF Worked, Live
<1> QED BY <1>1, <1>2, <1>3

LEMMA CoverTouch ==
  ASSUME StoreOK, TextsOK, StoreCovered, PlanOK, Frame, vec' = vec,
         NEW w \in Workers, NEW k \in Key, Touch(w, k)
  PROVE  StoreCovered' /\ PlanOK'
<1>1. Recovered(RowAt(w, k)) \in Row /\ Worked(gen[GenOf[w]], RowAt(w, k), Recovered(RowAt(w, k)))
  BY RowOfWorker, RecoveredRow, RecoveredIsWorked
<1> QED BY <1>1, CoverSetRow DEF Touch

\* What is closed without a vector is not of the active generation.
LEMMA CoverClosed ==
  ASSUME StoreOK, TextsOK, StoreCovered, PlanOK, Frame, vec' = vec, NEW w \in Workers, NEW k \in Key,
         Owns(w, k), SetRow(w, k, Closed(RowAt(w, k), "superseded")),
         k[1] \in Known => gen[GenOf[w]] # "active"
  PROVE  StoreCovered' /\ PlanOK'
<1>1. Closed(RowAt(w, k), "superseded") \in Row
  BY RowOfWorker, ClosedBudget
<1>2. k[1] \in Known => Worked(gen[GenOf[w]], RowAt(w, k), Closed(RowAt(w, k), "superseded"))
  BY DEF Worked, Owns, Live
<1> QED BY <1>1, <1>2, CoverSetRow

LEMMA CoverClaims ==
  ASSUME StoreOK, TextsOK, StoreCovered, PlanOK, Frame, vec' = vec, NEW w \in Workers,
         NEW taken \in SUBSET Claimable(w), NEW closed \in SUBSET Exhausted(w),
         jobs' = RowsClaimed(w, taken, closed)
  PROVE  StoreCovered' /\ PlanOK'
<1>1. ASSUME NEW m \in Known, NEW g \in Gens, NEW c \in Contents
      PROVE  Worked(gen[g], jobs[m][g][c], jobs'[m][g][c])
  <2>1. m \in Memories /\ jobs[m][g][c] \in Row
    BY RowsOfStore DEF Known
  <2>2. jobs'[m][g][c] = IF g # GenOf[w] THEN jobs[m][g][c]
                         ELSE IF <<m, c>> \in taken THEN Claimed(jobs[m][g][c], w)
                         ELSE IF <<m, c>> \in closed THEN Recovered(jobs[m][g][c]) ELSE jobs[m][g][c]
    BY <2>1, ConstantsAssumption DEF RowsClaimed, StoreOK, Rows
  <2>3. CASE g = GenOf[w] /\ <<m, c>> \in taken
    <3>1. <<m, c>> \in Claimable(w) /\ RowAt(w, <<m, c>>) = jobs[m][g][c]
      BY <2>3 DEF RowAt
    <3>2. Live(jobs[m][g][c])
      BY <3>1, ClaimableRows
    <3>3. Claimed(jobs[m][g][c], w).status = "running"
      BY <2>1 DEF Claimed, Row
    <3> QED BY <2>2, <2>3, <3>2, <3>3 DEF Worked, Live
  <2>4. CASE g = GenOf[w] /\ <<m, c>> \notin taken /\ <<m, c>> \in closed
    BY <2>1, <2>2, <2>4, RecoveredIsWorked
  <2>5. CASE g # GenOf[w] \/ (<<m, c>> \notin taken /\ <<m, c>> \notin closed)
    BY <2>2, <2>5 DEF Worked
  <2> QED BY <2>3, <2>4, <2>5
<1> QED BY <1>1, CoverWorked

LEMMA CoverNothing ==
  ASSUME StoreCovered, PlanOK, Frame, jobs' = jobs, vec' = vec
  PROVE  StoreCovered' /\ PlanOK'
  BY CoverSame, PlanFrame DEF Frame, Ready

LEMMA CoverClaim ==
  ASSUME StoreOK, TextsOK, StoreCovered, PlanOK, NEW w \in Workers,
         EndClaims(w) \/ \E k \in Key : Claim(w, k)
  PROVE  StoreCovered' /\ PlanOK'
<1>1. Frame /\ vec' = vec
  BY WorkerFrame DEF EndClaims, Claim
<1>2. ASSUME NEW k \in Key, Claim(w, k)
      PROVE  StoreCovered' /\ PlanOK'
  <2>1. {k} \in SUBSET Claimable(w)
    BY <1>2 DEF Claim
  <2>2. PICK closed \in SUBSET Exhausted(w) : jobs' = RowsClaimed(w, {k}, closed)
    BY <1>2 DEF Claim
  <2> QED BY <1>1, <2>1, <2>2, CoverClaims
<1>3. CASE jobs' = RowsClaimed(w, {}, Exhausted(w))
  BY <1>1, <1>3, CoverClaims
<1>4. CASE jobs' = jobs
  BY <1>1, <1>4, CoverNothing
<1>5. EndClaims(w) => jobs' = RowsClaimed(w, {}, Exhausted(w)) \/ jobs' = jobs
  BY DEF EndClaims
<1> QED BY <1>2, <1>3, <1>4, <1>5

LEMMA CoverSupersede ==
  ASSUME StoreOK, TextsOK, StoreCovered, PlanOK, MismatchOK,
         NEW w \in Workers, NEW k \in Key, Supersede(w, k)
  PROVE  StoreCovered' /\ PlanOK'
<1>1. Frame /\ vec' = vec
  BY WorkerFrame DEF Supersede
<1>2. CASE Owns(w, k)
  <2>1. SetRow(w, k, Closed(RowAt(w, k), "superseded")) /\ k \in worker[w].mismatch
    BY <1>2 DEF Supersede
  <2>2. k[1] \in Known => gen[GenOf[w]] # "active"
    BY <1>2, <2>1 DEF MismatchOK, Owns, Owned
  <2> QED BY <1>1, <1>2, <2>1, <2>2, CoverClosed
<1>3. CASE ~Owns(w, k)
  BY <1>1, <1>3, CoverTouch DEF Supersede
<1> QED BY <1>2, <1>3

LEMMA CoverFail ==
  ASSUME StoreOK, TextsOK, StoreCovered, PlanOK, NEW w \in Workers, NEW k \in Key, Fail(w, k)
  PROVE  StoreCovered' /\ PlanOK'
<1>1. Frame /\ vec' = vec
  BY WorkerFrame DEF Fail
<1>2. CASE jobs' = jobs
  BY <1>1, <1>2, CoverNothing
<1>3. CASE Owns(w, k) /\ SetRow(w, k, Failed(RowAt(w, k)))
  <2>1. RowAt(w, k) \in Row /\ Failed(RowAt(w, k)) \in Row
    BY RowOfWorker, FailedRow
  <2>2. Failed(RowAt(w, k)).status \in {"pending", "dead_letter"}
    BY <2>1, ClosedRow DEF Failed, Status
  <2>3. Worked(gen[GenOf[w]], RowAt(w, k), Failed(RowAt(w, k)))
    BY <1>3, <2>2 DEF Worked, Owns, Live
  <2> QED BY <1>1, <1>3, <2>1, <2>3, CoverSetRow
<1>4. CASE Touch(w, k)
  BY <1>1, <1>4, CoverTouch
<1> QED BY <1>2, <1>3, <1>4 DEF Fail

LEMMA CoverFallDue ==
  ASSUME StoreOK, TextsOK, StoreCovered, PlanOK,
         NEW m \in Memories, NEW g \in Gens, NEW c \in Contents, FallDue(m, g, c)
  PROVE  StoreCovered' /\ PlanOK'
<1>1. Frame /\ vec' = vec /\ Live(jobs[m][g][c])
  BY DEF FallDue, Frame
<1>2. \A n \in Memories, h \in Gens, d \in Contents :
        jobs'[n][h][d] = IF n = m /\ h = g /\ d = c THEN [jobs[m][g][c] EXCEPT !.due = TRUE] ELSE jobs[n][h][d]
  BY DEF FallDue, StoreOK, Rows
<1>3. Live([jobs[m][g][c] EXCEPT !.due = TRUE])
  BY <1>1, RowsOfStore DEF Live, Row
<1>4. ASSUME NEW n \in Known, NEW h \in Gens, NEW d \in Contents
      PROVE  Worked(gen[h], jobs[n][h][d], jobs'[n][h][d])
  BY <1>1, <1>2, <1>3 DEF Worked, Known
<1> QED BY <1>1, <1>4, CoverWorked

LEMMA CoverPublish ==
  ASSUME StoreOK, TextsOK, StoreCovered, PlanOK, NEW w \in Workers, NEW k \in Key, Publish(w, k)
  PROVE  StoreCovered' /\ PlanOK'
<1>1. Frame
  BY WorkerFrame
<1>2. CASE jobs' = jobs /\ vec' = vec
  BY <1>1, <1>2, CoverNothing
<1>3. CASE /\ vec' = vec /\ Owns(w, k) /\ ~Matches(k)
           /\ SetRow(w, k, Closed(RowAt(w, k), "superseded"))
  <2>1. ASSUME k[1] \in Known, gen[GenOf[w]] = "active"
        PROVE  FALSE
    <3>1. Live(jobs[k[1]][GenOf[w]][k[2]]) /\ k[2] \in Contents /\ GenOf[w] \in Gens
      BY <1>3, RowOfWorker DEF Owns, Live
    <3>2. k[2] = mem[k[1]].content
      BY <2>1, <3>1 DEF StoreCovered, CellCovered
    <3> QED BY <1>3, <3>2 DEF Matches
  <2> QED BY <1>1, <1>3, <2>1, CoverClosed
<1>4. CASE /\ Owns(w, k) /\ Matches(k) /\ SetRow(w, k, Closed(RowAt(w, k), "succeeded"))
           /\ vec' = [vec EXCEPT ![k[1]][GenOf[w]] = [status |-> "ready", content |-> k[2]]]
  <2>1. PICK row \in Row : row = Closed(RowAt(w, k), "succeeded")
    BY RowOfWorker, ClosedBudget
  <2>2. PICK v : v = [status |-> "ready", content |-> k[2]]
    OBVIOUS
  <2>3. /\ k[1] \in Memories /\ k[2] \in Contents /\ GenOf[w] \in Gens
        /\ ~Live(row) /\ v.status = "ready"
        /\ mem[k[1]].content = k[2] /\ Live(jobs[k[1]][GenOf[w]][k[2]])
    BY <1>4, <2>1, <2>2, RowOfWorker, ClosedBudget DEF Matches, Owns, Live
  <2>4. \A m \in Memories, g \in Gens, c \in Contents :
          jobs'[m][g][c] = IF m = k[1] /\ g = GenOf[w] /\ c = k[2] THEN row ELSE jobs[m][g][c]
    BY <1>4, <2>1, RowIsSet
  <2>5. \A m \in Memories, g \in Gens : vec'[m][g] = IF m = k[1] /\ g = GenOf[w] THEN v ELSE vec[m][g]
    BY <1>4, <2>2, <2>3 DEF StoreOK
  <2>6. ASSUME NEW m \in Known, NEW g \in Gens
        PROVE  CellCovered(mem[m], gen[g], jobs'[m][g], vec'[m][g])
    <3>1. m \in Memories /\ CellCovered(mem[m], gen[g], jobs[m][g], vec[m][g])
      BY DEF Known, StoreCovered
    <3>2. CASE m = k[1] /\ g = GenOf[w]
      <4>1. /\ jobs'[m][g][k[2]] = row /\ vec'[m][g] = v
            /\ \A d \in Contents \ {k[2]} : jobs'[m][g][d] = jobs[m][g][d]
        BY <2>3, <2>4, <2>5, <3>1, <3>2
      <4>2. Live(jobs[m][g][k[2]]) /\ mem[m].content = k[2] /\ ~Live(jobs'[m][g][k[2]])
        BY <2>3, <3>2, <4>1
      <4>3. CellCovered(mem[m], gen[g], jobs'[m][g], v)
        BY <2>3, <3>1, <4>1, <4>2, PublishedIsCovered
      <4> QED BY <4>1, <4>3
    <3>3. CASE ~(m = k[1] /\ g = GenOf[w])
      <4>1. vec'[m][g] = vec[m][g] /\ \A c \in Contents : Worked(gen[g], jobs[m][g][c], jobs'[m][g][c])
        BY <2>4, <2>5, <3>1, <3>3 DEF Worked
      <4>2. mem[m].embed => mem[m].content \in Contents
        BY <3>1, KnownText
      <4>3. CellCovered(mem[m], gen[g], jobs'[m][g], vec[m][g])
        BY <3>1, <4>1, <4>2, WorkedIsCovered
      <4> QED BY <4>1, <4>3
    <3> QED BY <3>2, <3>3
  <2>7. ASSUME NEW m \in Known, NEW g \in Gens, Ready(m, g)
        PROVE  Ready(m, g)'
    BY <2>3, <2>5, <2>7 DEF Known, Ready
  <2>8. StoreCovered'
    BY <1>1, <2>6 DEF StoreCovered, Frame, Known
  <2> QED BY <1>1, <2>7, <2>8, PlanFrame
<1> QED BY <1>2, <1>3, <1>4 DEF Publish

LEMMA CoverBeat ==
  ASSUME StoreOK, TextsOK, StoreCovered, PlanOK, NEW w \in Workers, NEW k \in Key, Beat(w, k)
  PROVE  StoreCovered' /\ PlanOK'
<1>1. Frame /\ vec' = vec
  BY WorkerFrame DEF Beat
<1> QED BY <1>1, CoverTouch, CoverNothing DEF Beat

LEMMA CoverStep ==
  ASSUME StoreOK, SideOK, TextsOK, TextsOK', StoreCovered, PlanOK, MismatchOK, Next
  PROVE  StoreCovered' /\ PlanOK'
<1>1. ASSUME NEW w \in Workers, EmbedEnds(w) \/ Crash(w) \/ \E k \in Key : Check(w, k)
      PROVE  StoreCovered' /\ PlanOK'
  <2>1. Frame /\ jobs' = jobs /\ vec' = vec
    BY <1>1, WorkerFrame DEF EmbedEnds, Crash, Check
  <2> QED BY <2>1, CoverNothing
<1> QED BY <1>1, CoverWrite, CoverAdminister, CoverClaim, CoverSupersede, CoverFail, CoverPublish,
          CoverBeat, CoverFallDue DEF Next, Work, TimePasses

-----------------------------------------------------------------------------
(* Who takes a job: only a claim gives a row to a worker, so a job that a  *)
(* worker found to be of another text, and lost, it does not hold again.   *)

Unclaimed(row, after) == after.status = "running" => row.status = "running" /\ after.owner = row.owner

NoGrab == \A m \in Memories, g \in Gens, c \in Contents : Unclaimed(jobs[m][g][c], jobs'[m][g][c])

LEMMA UnclaimedRows ==
  ASSUME NEW row \in Row
  PROVE  /\ Unclaimed(row, row) /\ Unclaimed(row, NoRow) /\ Unclaimed(row, NewRow)
         /\ Unclaimed(row, Superseded(row)) /\ Unclaimed(row, Recovered(row)) /\ Unclaimed(row, Failed(row))
         /\ Unclaimed(row, [row EXCEPT !.due = TRUE])
         /\ \A status \in {"succeeded", "superseded"} : Unclaimed(row, Closed(row, status))
<1>1. \A status \in Status \ {"running"} : Unclaimed(row, Closed(row, status))
  BY ClosedRow DEF Unclaimed
<1>2. Unclaimed(row, row) /\ Unclaimed(row, NoRow) /\ Unclaimed(row, NewRow)
  BY DEF Unclaimed, NoRow, NewRow
<1>3. Unclaimed(row, [row EXCEPT !.due = TRUE])
  BY DEF Unclaimed, Row
<1>4. Unclaimed(row, Superseded(row)) /\ Unclaimed(row, Failed(row))
  BY <1>1, <1>2 DEF Superseded, Failed, Status
<1>5. Unclaimed(row, Recovered(row))
  <2>1. Unclaimed(row, [row EXCEPT !.status = "pending", !.owner = NoWorker])
    BY DEF Unclaimed, Row
  <2> QED BY <1>1, <1>2, <2>1 DEF Recovered, Status
<1> QED BY <1>1, <1>2, <1>3, <1>4, <1>5 DEF Status

LEMMA RowUnclaimed ==
  ASSUME StoreOK, NEW m \in Memories, NEW g \in Gens, NEW c \in Contents, NEW row,
         \/ row = jobs[m][g][c] \/ row = NoRow \/ row = NewRow
         \/ row = Superseded(jobs[m][g][c]) \/ row = [jobs[m][g][c] EXCEPT !.due = TRUE]
  PROVE  Unclaimed(jobs[m][g][c], row)
<1>1. jobs[m][g][c] \in Row
  BY RowsOfStore
<1> QED BY <1>1, UnclaimedRows

LEMMA NoGrabScheduled ==
  ASSUME NEW rows \in Rows, NEW v, NEW c, NEW d \in Contents
  PROVE  Unclaimed(rows[d], ScheduledRows(v, rows, c)[d])
<1>1. rows[d] \in Row
  BY DEF Rows
<1> QED BY <1>1, UnclaimedRows DEF ScheduledRows

LEMMA NoGrabSetRow ==
  ASSUME StoreOK, NEW w \in Workers, NEW k \in Key, NEW row \in Row, SetRow(w, k, row),
         Unclaimed(RowAt(w, k), row)
  PROVE  NoGrab
<1>1. ASSUME NEW m \in Memories, NEW g \in Gens, NEW c \in Contents
      PROVE  Unclaimed(jobs[m][g][c], jobs'[m][g][c])
  <2>1. CASE m = k[1] /\ g = GenOf[w] /\ c = k[2]
    <3>1. jobs'[m][g][c] = row /\ RowAt(w, k) = jobs[m][g][c]
      BY <2>1, RowIsSet DEF RowAt
    <3> QED BY <3>1
  <2>2. CASE ~(m = k[1] /\ g = GenOf[w] /\ c = k[2])
    <3>1. jobs'[m][g][c] = jobs[m][g][c]
      BY <2>2, RowIsSet
    <3> QED BY <3>1 DEF Unclaimed
  <2> QED BY <2>1, <2>2
<1> QED BY <1>1 DEF NoGrab

LEMMA NoGrabWrite ==
  ASSUME StoreOK, Write
  PROVE  NoGrab
<1>1. ASSUME NEW n \in Memories, NEW c \in Contents, NEW embed \in BOOLEAN, Upsert(n, c, embed)
      PROVE  NoGrab
  <2>1. PICK r : jobs' = [jobs EXCEPT ![n] = RowsAfter(n, r)]
    BY <1>1 DEF Upsert
  <2>2. ASSUME NEW m \in Memories, NEW g \in Gens, NEW d \in Contents
        PROVE  Unclaimed(jobs[m][g][d], jobs'[m][g][d])
    <3>1. jobs[m][g] \in Rows /\ jobs[m][g][d] \in Row
      BY DEF StoreOK, Rows
    <3>2. CASE m = n
      <4>1. jobs'[m][g] = RowsAfter(n, r)[g]
        BY <2>1, <3>2 DEF StoreOK
      <4>2. RowsAfter(n, r)[g] = IF ~r.embed THEN [e \in Contents |-> Superseded(jobs[n][g][e])]
                                 ELSE IF g \in Indexing THEN ScheduledRows(vec[n][g], jobs[n][g], r.content)
                                 ELSE jobs[n][g]
        BY DEF RowsAfter
      <4> QED BY <3>1, <3>2, <4>1, <4>2, UnclaimedRows, NoGrabScheduled
    <3>3. CASE m # n
      <4>1. jobs'[m] = jobs[m]
        BY <2>1, <3>3 DEF StoreOK
      <4> QED BY <3>1, <4>1, UnclaimedRows
    <3> QED BY <3>2, <3>3
  <2> QED BY <2>2 DEF NoGrab
<1>2. ASSUME NEW n \in Memories, Delete(n)
      PROVE  NoGrab
  <2>1. \A m \in Memories, g \in Gens, d \in Contents :
          jobs'[m][g][d] = IF m = n THEN NoRow ELSE jobs[m][g][d]
    BY <1>2 DEF Delete, StoreOK, NoRows
  <2>2. ASSUME NEW m \in Memories, NEW g \in Gens, NEW d \in Contents
        PROVE  Unclaimed(jobs[m][g][d], jobs'[m][g][d])
    BY <2>1, RowUnclaimed
  <2> QED BY <2>2 DEF NoGrab
<1>3. ASSUME NEW gone \in SUBSET Memories, NEW flipped \in SUBSET Memories, Retain(gone, flipped)
      PROVE  NoGrab
  <2>1. \A m \in Memories, g \in Gens, d \in Contents : jobs'[m][g][d] \in {NewRow, NoRow}
    BY <1>3 DEF Retain, RequeuedRows
  <2>2. ASSUME NEW m \in Memories, NEW g \in Gens, NEW d \in Contents
        PROVE  Unclaimed(jobs[m][g][d], jobs'[m][g][d])
    BY <2>1, RowUnclaimed
  <2> QED BY <2>2 DEF NoGrab
<1> QED BY <1>1, <1>2, <1>3 DEF Write

LEMMA NoGrabSame ==
  ASSUME jobs' = jobs
  PROVE  NoGrab
  BY DEF NoGrab, Unclaimed

LEMMA NoGrabAdminister ==
  ASSUME StoreOK, Administer
  PROVE  NoGrab
<1>1. ASSUME NEW g \in Gens, Prune(g)
      PROVE  NoGrab
  <2>1. \A m \in Memories, h \in Gens, d \in Contents :
          jobs'[m][h][d] = IF h = g THEN NoRow ELSE jobs[m][h][d]
    BY <1>1 DEF Prune, StoreOK
  <2>2. ASSUME NEW m \in Memories, NEW h \in Gens, NEW d \in Contents
        PROVE  Unclaimed(jobs[m][h][d], jobs'[m][h][d])
    BY <2>1, RowUnclaimed
  <2> QED BY <2>2 DEF NoGrab
<1>2. ASSUME NEW n \in Memories, NEW h \in Gens, BackfillSchedule(n, h)
      PROVE  NoGrab
  <2>1. jobs' = jobs \/ \E c : jobs' = [jobs EXCEPT ![n][h] = ScheduledRows(vec[n][h], jobs[n][h], c)]
    BY <1>2 DEF BackfillSchedule
  <2>2. ASSUME NEW c, jobs' = [jobs EXCEPT ![n][h] = ScheduledRows(vec[n][h], jobs[n][h], c)]
        PROVE  NoGrab
    <3>1. ASSUME NEW m \in Memories, NEW g \in Gens, NEW d \in Contents
          PROVE  Unclaimed(jobs[m][g][d], jobs'[m][g][d])
      <4>1. jobs[m][g] \in Rows /\ jobs[m][g][d] \in Row
        BY DEF StoreOK, Rows
      <4>2. jobs'[m][g] = IF m = n /\ g = h THEN ScheduledRows(vec[m][g], jobs[m][g], c) ELSE jobs[m][g]
        BY <2>2 DEF StoreOK
      <4> QED BY <4>1, <4>2, NoGrabScheduled, UnclaimedRows
    <3> QED BY <3>1 DEF NoGrab
  <2> QED BY <2>1, <2>2, NoGrabSame
<1>3. ASSUME NEW n \in Memories, BackfillCancel(n)
      PROVE  NoGrab
  <2>1. \A m \in Memories, g \in Gens, d \in Contents :
          jobs'[m][g][d] = IF m = n THEN Superseded(jobs[m][g][d]) ELSE jobs[m][g][d]
    BY <1>3 DEF BackfillCancel, StoreOK
  <2>2. ASSUME NEW m \in Memories, NEW g \in Gens, NEW d \in Contents
        PROVE  Unclaimed(jobs[m][g][d], jobs'[m][g][d])
    BY <2>1, RowUnclaimed
  <2> QED BY <2>2 DEF NoGrab
<1>4. ASSUME NEW g \in Gens, Register(g) \/ CheckCoverage(g) \/ CheckOutstanding(g) \/ Activate(g)
      PROVE  jobs' = jobs
  BY <1>4 DEF Register, CheckCoverage, CheckOutstanding, Activate
<1>5. ASSUME NEW n \in Memories, BackfillDrop(n)
      PROVE  jobs' = jobs
  BY <1>5 DEF BackfillDrop
<1>6. BackfillRead \/ Abandon => jobs' = jobs
  BY DEF BackfillRead, Abandon
<1> QED BY <1>1, <1>2, <1>3, <1>4, <1>5, <1>6, NoGrabSame DEF Administer

LEMMA NoGrabTouch ==
  ASSUME StoreOK, NEW w \in Workers, NEW k \in Key, Touch(w, k)
  PROVE  NoGrab
  BY RowOfWorker, RecoveredRow, UnclaimedRows, NoGrabSetRow DEF Touch

LEMMA NoGrabBatch ==
  ASSUME StoreOK, NEW w \in Workers, NEW k \in Key,
         Check(w, k) \/ Supersede(w, k) \/ Publish(w, k) \/ Fail(w, k) \/ Beat(w, k)
  PROVE  NoGrab
<1>1. \/ jobs' = jobs \/ Touch(w, k)
      \/ SetRow(w, k, Closed(RowAt(w, k), "superseded")) \/ SetRow(w, k, Closed(RowAt(w, k), "succeeded"))
      \/ SetRow(w, k, Failed(RowAt(w, k)))
  BY DEF Check, Supersede, Publish, Fail, Beat
<1>2. RowAt(w, k) \in Row /\ BudgetOK(RowAt(w, k))
  BY RowOfWorker
<1>3. /\ Failed(RowAt(w, k)) \in Row /\ Closed(RowAt(w, k), "superseded") \in Row
      /\ Closed(RowAt(w, k), "succeeded") \in Row
  BY <1>2, FailedRow, ClosedBudget
<1> QED BY <1>1, <1>2, <1>3, UnclaimedRows, NoGrabSetRow, NoGrabSame, NoGrabTouch

LEMMA NoGrabFallDue ==
  ASSUME StoreOK, NEW m \in Memories, NEW g \in Gens, NEW c \in Contents, FallDue(m, g, c)
  PROVE  NoGrab
<1>1. \A n \in Memories, h \in Gens, d \in Contents :
        jobs'[n][h][d] = IF n = m /\ h = g /\ d = c THEN [jobs[n][h][d] EXCEPT !.due = TRUE] ELSE jobs[n][h][d]
  BY DEF FallDue, StoreOK, Rows
<1>2. ASSUME NEW n \in Memories, NEW h \in Gens, NEW d \in Contents
      PROVE  Unclaimed(jobs[n][h][d], jobs'[n][h][d])
  <2>1. CASE n = m /\ h = g /\ d = c
    <3>1. jobs'[n][h][d] = [jobs[n][h][d] EXCEPT !.due = TRUE]
      BY <1>1, <2>1
    <3> QED BY <3>1, RowUnclaimed
  <2>2. CASE ~(n = m /\ h = g /\ d = c)
    <3>1. jobs'[n][h][d] = jobs[n][h][d]
      BY <1>1, <2>2
    <3> QED BY <3>1 DEF Unclaimed
  <2> QED BY <2>1, <2>2
<1> QED BY <1>2 DEF NoGrab

\* A claim of w's takes jobs for w only.
LEMMA NoGrabClaims ==
  ASSUME StoreOK, NEW w \in Workers, NEW taken, NEW closed, jobs' = RowsClaimed(w, taken, closed),
         NEW x \in Workers, x # w, NEW m \in Memories, NEW g \in Gens, NEW c \in Contents,
         Owned(jobs'[m][g][c], x)
  PROVE  Owned(jobs[m][g][c], x)
<1>1. jobs[m][g][c] \in Row
  BY RowsOfStore
<1>2. jobs'[m][g][c] = IF g # GenOf[w] THEN jobs[m][g][c]
                       ELSE IF <<m, c>> \in taken THEN Claimed(jobs[m][g][c], w)
                       ELSE IF <<m, c>> \in closed THEN Recovered(jobs[m][g][c]) ELSE jobs[m][g][c]
  BY ConstantsAssumption DEF RowsClaimed, StoreOK, Rows
<1>3. Claimed(jobs[m][g][c], w).owner = w
  BY <1>1 DEF Claimed, Row
<1>4. Unclaimed(jobs[m][g][c], Recovered(jobs[m][g][c]))
  BY <1>1, UnclaimedRows
<1> QED BY <1>2, <1>3, <1>4 DEF Owned, Unclaimed

-----------------------------------------------------------------------------
(* Jobs found to be of another text.                                       *)

NoGrabBy(x) == \A m \in Memories, g \in Gens, c \in Contents : Owned(jobs'[m][g][c], x) => Owned(jobs[m][g][c], x)

LEMMA NoGrabOwned ==
  ASSUME NoGrab, NEW x
  PROVE  NoGrabBy(x)
  BY DEF NoGrab, NoGrabBy, Unclaimed, Owned

\* No worker takes a job it is to supersede, and none is live in a generation
\* that becomes the active one.
LEMMA MismatchKept ==
  ASSUME StoreOK, SideOK, MismatchOK, Known' \subseteq Known,
         \A w \in Workers : \/ worker'[w].mismatch = {}
                            \/ worker'[w] = worker[w] /\ NoGrabBy(w),
         \A g \in Gens : gen'[g] = "active" =>
           \/ gen[g] = "active"
           \/ \A m \in Known, c \in Contents : ~Live(jobs'[m][g][c])
  PROVE  MismatchOK'
<1>1. ASSUME NEW w \in Workers, NEW k \in Key, k \in worker'[w].mismatch
      PROVE  /\ worker'[w].phase = "checking"
             /\ gen'[GenOf[w]] = "active" /\ k[1] \in Known' => ~Owned(jobs'[k[1]][GenOf[w]][k[2]], w)
  <2>1. /\ worker'[w] = worker[w] /\ NoGrabBy(w)
        /\ k[1] \in Memories /\ k[2] \in Contents /\ GenOf[w] \in Gens
    BY <1>1, RowOfWorker
  <2>2. /\ worker[w].phase = "checking"
        /\ gen[GenOf[w]] = "active" /\ k[1] \in Known => ~Owned(jobs[k[1]][GenOf[w]][k[2]], w)
    BY <1>1, <2>1 DEF MismatchOK, RowAt
  <2>3. ASSUME gen'[GenOf[w]] = "active", k[1] \in Known'
        PROVE  ~Owned(jobs'[k[1]][GenOf[w]][k[2]], w)
    <3>1. k[1] \in Known
      BY <2>3
    <3>2. CASE gen[GenOf[w]] = "active"
      BY <2>1, <2>2, <3>1, <3>2 DEF NoGrabBy
    <3>3. CASE gen[GenOf[w]] # "active"
      BY <2>1, <2>3, <3>1, <3>3 DEF Owned, Live
    <3> QED BY <3>2, <3>3
  <2> QED BY <2>1, <2>2, <2>3
<1> QED BY <1>1 DEF MismatchOK, RowAt

\* A worker that is not comparing its jobs has found none to be of another text.
LEMMA NoMismatch ==
  ASSUME SideOK, MismatchOK, NEW w \in Workers, worker[w].phase # "checking"
  PROVE  worker[w].mismatch = {}
<1>1. worker[w].mismatch \subseteq Key
  BY DEF SideOK, Batch
<1> QED BY <1>1 DEF MismatchOK

\* Everyone but w keeps its batch, and w has nothing to supersede.
LEMMA MismatchWorked ==
  ASSUME StoreOK, SideOK, MismatchOK, Frame, NEW w \in Workers, NEW b,
         worker' = [worker EXCEPT ![w] = b], b.mismatch = {},
         \A x \in Workers \ {w} : NoGrabBy(x)
  PROVE  MismatchOK'
<1>1. \A x \in Workers : \/ worker'[x].mismatch = {}
                         \/ worker'[x] = worker[x] /\ NoGrabBy(x)
  BY DEF SideOK
<1>2. Known' \subseteq Known /\ gen' = gen
  BY DEF Frame, Known
<1> QED BY <1>1, <1>2, MismatchKept

LEMMA MismatchClaim ==
  ASSUME StoreOK, SideOK, MismatchOK, NEW w \in Workers, EndClaims(w) \/ \E k \in Key : Claim(w, k)
  PROVE  MismatchOK'
<1>1. Frame /\ worker[w].mismatch = {} /\ worker[w] \in Batch
  BY WorkerFrame, NoMismatch DEF EndClaims, Claim, SideOK
<1>2. \E b \in Batch : worker' = [worker EXCEPT ![w] = b] /\ b.mismatch = {}
  <2>1. CASE EndClaims(w)
    <3>1. PICK f \in {"claiming", "checking"} : worker' = [worker EXCEPT ![w].phase = f]
      BY <2>1 DEF EndClaims
    <3>2. [worker[w] EXCEPT !.phase = f] \in Batch /\ [worker[w] EXCEPT !.phase = f].mismatch = {}
      BY <1>1, BatchPhases DEF Batch
    <3> QED BY <3>1, <3>2
  <2>2. ASSUME NEW k \in Key, Claim(w, k)
        PROVE  \E b \in Batch : worker' = [worker EXCEPT ![w] = b] /\ b.mismatch = {}
    <3>1. /\ [worker[w] EXCEPT !.claimed = @ \cup {k}] \in Batch
          /\ [worker[w] EXCEPT !.claimed = @ \cup {k}].mismatch = {}
      BY <1>1, BatchParts DEF Batch
    <3>2. worker' = [worker EXCEPT ![w] = [worker[w] EXCEPT !.claimed = @ \cup {k}]]
      BY <2>2 DEF Claim
    <3> QED BY <3>1, <3>2
  <2> QED BY <2>1, <2>2
<1>3. jobs' = jobs \/ \E taken, closed : jobs' = RowsClaimed(w, taken, closed)
  BY DEF EndClaims, Claim
<1>4. ASSUME NEW x \in Workers \ {w}
      PROVE  NoGrabBy(x)
  <2>1. CASE jobs' = jobs
    BY <2>1, NoGrabSame, NoGrabOwned
  <2>2. ASSUME NEW taken, NEW closed, jobs' = RowsClaimed(w, taken, closed)
        PROVE  NoGrabBy(x)
    BY <2>2, NoGrabClaims DEF NoGrabBy
  <2> QED BY <1>3, <2>1, <2>2
<1> QED BY <1>1, <1>2, <1>4, MismatchWorked

LEMMA MismatchBatch ==
  ASSUME StoreOK, SideOK, MismatchOK, NEW w \in Workers,
         \/ EmbedEnds(w) \/ Crash(w)
         \/ \E k \in Key : Supersede(w, k) \/ Publish(w, k) \/ Fail(w, k) \/ Beat(w, k)
  PROVE  MismatchOK'
<1>1. Frame
  BY WorkerFrame
<1>2. NoGrab
  BY NoGrabBatch, NoGrabSame DEF EmbedEnds, Crash
<1>3. worker[w] \in Batch /\ NoBatch.mismatch = {}
  BY DEF SideOK, NoBatch
<1>4. ASSUME NEW b, worker' = [worker EXCEPT ![w] = b], b.mismatch = {}
      PROVE  MismatchOK'
  BY <1>1, <1>2, <1>4, NoGrabOwned, MismatchWorked
<1>5. CASE EmbedEnds(w)
  <2>1. PICK f \in {"publishing", "failing"} : worker' = [worker EXCEPT ![w].phase = f]
    BY <1>5 DEF EmbedEnds
  <2>2. [worker[w] EXCEPT !.phase = f].mismatch = {}
    BY <1>3, <1>5, NoMismatch DEF EmbedEnds, Batch
  <2> QED BY <1>4, <2>1, <2>2
<1>6. CASE Crash(w)
  BY <1>3, <1>4, <1>6 DEF Crash
<1>7. ASSUME NEW k \in Key, Supersede(w, k)
      PROVE  MismatchOK'
  <2>1. Checked([worker[w] EXCEPT !.mismatch = {}]).mismatch = {}
    BY <1>3 DEF Checked, Batch
  <2> QED BY <1>3, <1>4, <1>7, <2>1 DEF Supersede
<1>8. ASSUME NEW k \in Key, Publish(w, k) \/ Fail(w, k)
      PROVE  MismatchOK'
  <2>1. worker[w].mismatch = {} /\ worker' = [worker EXCEPT ![w] = Done(worker[w], k)]
    BY <1>8, NoMismatch DEF Publish, Fail
  <2>2. Done(worker[w], k).mismatch = {}
    BY <1>3, <2>1 DEF Done, Batch
  <2> QED BY <1>4, <2>1, <2>2
<1>9. ASSUME NEW k \in Key, Beat(w, k)
      PROVE  MismatchOK'
  <2>1. worker' = [worker EXCEPT ![w] = [worker[w] EXCEPT !.lost = @ \cup {k}]]
    BY <1>9 DEF Beat
  <2>2. [worker[w] EXCEPT !.lost = @ \cup {k}].mismatch = {}
    BY <1>3, <1>9, NoMismatch DEF Beat, Batch
  <2> QED BY <1>4, <2>1, <2>2
<1> QED BY <1>5, <1>6, <1>7, <1>8, <1>9

\* A job of another text than its memory's is not live where the memory is covered.
LEMMA MismatchCheck ==
  ASSUME StoreOK, SideOK, StoreCovered, MismatchOK, NEW w \in Workers, NEW k \in Key, Check(w, k)
  PROVE  MismatchOK'
<1>1. /\ mem' = mem /\ gen' = gen /\ jobs' = jobs /\ raced' = raced
      /\ worker[w].phase = "checking" /\ worker[w].mismatch = {}
      /\ worker' = [worker EXCEPT ![w] = Checked(Compared(worker[w], k))]
  BY DEF Check
<1>2. worker[w] \in Batch
  BY DEF SideOK
<1>3. CASE Matches(k)
  <2>1. Checked(Compared(worker[w], k)).mismatch = {}
    <3>1. Compared(worker[w], k).mismatch = {} /\ Compared(worker[w], k) \in Batch
      BY <1>1, <1>2, <1>3, BatchParts DEF Compared, Batch
    <3> QED BY <3>1 DEF Checked, NoBatch, Batch
  <2>2. Frame
    BY WorkerFrame
  <2> QED BY <1>1, <2>1, <2>2, NoGrabSame, NoGrabOwned, MismatchWorked
<1>4. CASE ~Matches(k)
  <2>1. PICK b : b = Compared(worker[w], k)
    OBVIOUS
  <2>2. b.mismatch = {k} /\ b.phase = "checking"
    BY <1>1, <1>2, <1>4, <2>1 DEF Compared, Batch
  <2>3. worker' = [worker EXCEPT ![w] = b]
    BY <1>1, <2>1, <2>2 DEF Checked
  <2>4. ASSUME gen[GenOf[w]] = "active", k[1] \in Known
        PROVE  ~Owned(RowAt(w, k), w)
    <3>1. /\ k[2] \in Contents /\ GenOf[w] \in Gens
          /\ CellCovered(mem[k[1]], gen[GenOf[w]], jobs[k[1]][GenOf[w]], vec[k[1]][GenOf[w]])
      BY <2>4, RowOfWorker DEF StoreCovered
    <3>2. Live(RowAt(w, k)) => k[2] = mem[k[1]].content
      BY <2>4, <3>1 DEF CellCovered, RowAt
    <3> QED BY <1>4, <3>2 DEF Matches, Owned, Live
  <2>5. ASSUME NEW x \in Workers, NEW q \in Key, q \in worker'[x].mismatch
        PROVE  /\ worker'[x].phase = "checking"
               /\ gen[GenOf[x]] = "active" /\ q[1] \in Known => ~Owned(RowAt(x, q), x)
    <3>1. CASE x = w
      <4>1. worker'[x] = b /\ q = k
        BY <2>2, <2>3, <2>5, <3>1 DEF SideOK
      <4> QED BY <2>2, <2>4, <3>1, <4>1
    <3>2. CASE x # w
      <4>1. worker'[x] = worker[x]
        BY <2>3, <3>2 DEF SideOK
      <4> QED BY <2>5, <4>1 DEF MismatchOK
    <3> QED BY <3>1, <3>2
  <2> QED BY <1>1, <2>5 DEF MismatchOK, Known, RowAt
<1> QED BY <1>3, <1>4

LEMMA MismatchAdminister ==
  ASSUME StoreOK, SideOK, StoreCovered, PlanOK, MismatchOK, Administer
  PROVE  MismatchOK'
<1>1. ASSUME NEW g \in Gens, Register(g) \/ CheckCoverage(g) \/ CheckOutstanding(g) \/ Prune(g)
      PROVE  worker' = worker /\ raced' = raced /\ \A h \in Gens : gen'[h] = "active" => gen[h] = "active"
  BY <1>1 DEF Register, CheckCoverage, CheckOutstanding, Prune, StoreOK
<1>2. ASSUME NEW m \in Memories, NEW g \in Gens, BackfillSchedule(m, g)
      PROVE  worker' = worker /\ raced' = raced /\ gen' = gen
  BY <1>2 DEF BackfillSchedule
<1>3. ASSUME NEW m \in Memories, BackfillCancel(m) \/ BackfillDrop(m)
      PROVE  worker' = worker /\ raced' = raced /\ gen' = gen
  BY <1>3 DEF BackfillCancel, BackfillDrop
<1>4. BackfillRead \/ Abandon => worker' = worker /\ raced' = raced /\ gen' = gen
  BY DEF BackfillRead, Abandon
<1>5. ASSUME worker' = worker, raced' = raced,
             \A g \in Gens : gen'[g] = "active" =>
               gen[g] = "active" \/ \A m \in Known, c \in Contents : ~Live(jobs'[m][g][c])
      PROVE  MismatchOK'
  <2>1. \A w \in Workers : NoGrabBy(w)
    BY NoGrabAdminister, NoGrabOwned
  <2>2. Known' \subseteq Known
    BY <1>5 DEF Known
  <2> QED BY <1>5, <2>1, <2>2, MismatchKept
<1>6. ASSUME NEW g \in Gens, Activate(g)
      PROVE  MismatchOK'
  <2>1. worker' = worker /\ raced' = raced /\ jobs' = jobs
    BY <1>6 DEF Activate
  <2>2. ASSUME NEW h \in Gens, gen'[h] = "active", NEW m \in Known, NEW c \in Contents
        PROVE  ~Live(jobs[m][h][c])
    <3>1. mem[m].embed => Ready(m, h)
      BY <1>6, <2>2, ActivatedIsReady
    <3>2. CellOK(mem[m], gen[h], jobs[m][h], vec[m][h]) /\ CellCovered(mem[m], gen[h], jobs[m][h], vec[m][h])
      BY DEF StoreOK, CellsOK, StoreCovered, Known
    <3> QED BY <3>1, <3>2 DEF CellOK, CellCovered, Ready
  <2> QED BY <1>5, <2>1, <2>2
<1> QED BY <1>1, <1>2, <1>3, <1>4, <1>5, <1>6 DEF Administer

LEMMA MismatchStep ==
  ASSUME StoreOK, SideOK, StoreCovered, PlanOK, MismatchOK, Next
  PROVE  MismatchOK'
<1>1. CASE Write
  <2>1. worker' = worker /\ gen' = gen /\ \E ms : Written(ms)
    BY <1>1, WriteFrame DEF Write, Upsert, Delete, Retain
  <2>2. Known' \subseteq Known
    BY <2>1, StillKnown
  <2>3. \A w \in Workers : NoGrabBy(w)
    BY <1>1, NoGrabWrite, NoGrabOwned
  <2> QED BY <2>1, <2>2, <2>3, MismatchKept
<1>2. ASSUME NEW m \in Memories, NEW g \in Gens, NEW c \in Contents, FallDue(m, g, c)
      PROVE  MismatchOK'
  <2>1. worker' = worker /\ gen' = gen /\ Known' \subseteq Known
    BY <1>2 DEF FallDue, Known
  <2>2. \A w \in Workers : NoGrabBy(w)
    BY <1>2, NoGrabFallDue, NoGrabOwned
  <2> QED BY <2>1, <2>2, MismatchKept
<1> QED BY <1>1, <1>2, MismatchAdminister, MismatchClaim, MismatchBatch, MismatchCheck
        DEF Next, Work, TimePasses

-----------------------------------------------------------------------------
(* The invariant, and the two properties.                                  *)

LEMMA CoverInit == Init => CoverInv
<1> SUFFICES ASSUME Init PROVE CoverInv
  OBVIOUS
<1>1. worker = [w \in Workers |-> NoBatch] /\ backfill = NoBackfill /\ gate = NoGate
  BY DEF Init
<1>2. MismatchOK
  BY <1>1 DEF MismatchOK, NoBatch
<1>3. PlanOK
  BY <1>1 DEF PlanOK, PlanCovers, NoBackfill, NoGate
<1> DEFINE done(held, m, g) == g \in Bootstrapped /\ held[m] # NoContent
           first(held) == [m \in Memories |-> [content |-> held[m], embed |-> held[m] # NoContent]]
           rows(held) == [m \in Memories |-> [g \in Gens |-> [c \in Contents |->
                            IF done(held, m, g) /\ c = held[m] THEN EmbeddedRow ELSE NoRow]]]
           ready(c) == [status |-> "ready", content |-> c]
<1>4. PICK held \in Held :
        /\ mem = first(held)
        /\ gen = [g \in Gens |-> IF g \in Bootstrapped THEN "active" ELSE "absent"]
        /\ jobs = rows(held)
        /\ vec = [m \in Memories |-> [g \in Gens |->
                   IF done(held, m, g) THEN ready(held[m]) ELSE NoVector]]
  BY DEF Init
<1>5. ~Live(EmbeddedRow)
  BY DEF EmbeddedRow, Live
<1>6. ASSUME NEW m \in Memories, NEW g \in Gens
      PROVE  CellCovered(mem[m], gen[g], jobs[m][g], vec[m][g])
  <2>1. \A c \in Contents : ~Live(jobs[m][g][c])
    <3>1. \A c \in Contents : jobs[m][g][c] \in {EmbeddedRow, NoRow}
      BY <1>4
    <3> QED BY <1>5, <3>1, FreshRows
  <2>2. mem[m].embed = (held[m] # NoContent) /\ (gen[g] = "active" => g \in Bootstrapped)
    BY <1>4
  <2>3. ~mem[m].embed => vec[m][g] = NoVector
    BY <1>4, <2>2
  <2>4. gen[g] = "active" /\ mem[m].embed => vec[m][g].status = "ready"
    BY <1>4, <2>2
  <2> QED BY <2>1, <2>3, <2>4 DEF CellCovered
<1>7. StoreCovered
  BY <1>6 DEF StoreCovered, Known
<1> QED BY <1>2, <1>3, <1>7, InvInit DEF CoverInv

LEMMA CoverInvStep == CoverInv /\ [Next]_vars => CoverInv'
<1> SUFFICES ASSUME CoverInv, [Next]_vars PROVE CoverInv'
  OBVIOUS
<1>1. IInv /\ IInv' /\ StoreCovered /\ PlanOK /\ MismatchOK
  BY InvStep DEF CoverInv
<1>2. CASE Next
  <2>1. StoreOK /\ SideOK /\ TextsOK /\ TextsOK'
    BY <1>1, Parts DEF IInv
  <2> QED BY <1>1, <1>2, <2>1, CoverStep, MismatchStep DEF CoverInv
<1>3. CASE UNCHANGED vars
  BY <1>1, <1>3 DEF vars, CoverInv, StoreCovered, PlanOK, PlanCovers, MismatchOK, Known, Ready, RowAt
<1> QED BY <1>2, <1>3

LEMMA CoverHolds == Spec => []CoverInv
  BY CoverInit, CoverInvStep, PTL DEF Spec

(* No memory is forgotten: what the active generation cannot answer for yet
   has a job that will make it, or had all its attempts; and nothing of a
   memory that is not to be embedded is stored or queued. *)
THEOREM NoMemoryForgotten == Spec => []Covered
<1>1. CoverInv => Covered
  BY CoverImplies DEF CoverInv
<1> QED BY <1>1, CoverHolds, PTL

\* Only an activation makes a generation the active one.
LEMMA OnlyActivate ==
  ASSUME StoreOK, SideOK, Next, NEW h \in Gens, gen[h] # "active", gen'[h] = "active"
  PROVE  \E g \in Gens : Activate(g)
<1>1. ASSUME NEW g \in Gens, Register(g) \/ CheckCoverage(g) \/ CheckOutstanding(g) \/ Prune(g)
      PROVE  gen'[h] # "active"
  BY <1>1 DEF Register, CheckCoverage, CheckOutstanding, Prune, StoreOK
<1>2. ASSUME NEW m \in Memories, NEW g \in Gens, BackfillSchedule(m, g)
      PROVE  gen' = gen
  BY <1>2 DEF BackfillSchedule
<1>3. ASSUME NEW m \in Memories, BackfillCancel(m) \/ BackfillDrop(m)
      PROVE  gen' = gen
  BY <1>3 DEF BackfillCancel, BackfillDrop
<1>4. BackfillRead \/ Abandon \/ TimePasses => gen' = gen
  BY DEF BackfillRead, Abandon, TimePasses, FallDue
<1>5. Write => gen' = gen
  BY DEF Write, Upsert, Delete, Retain
<1>6. ASSUME NEW w \in Workers, Work(w) \/ Crash(w) \/ \E k \in Key : Beat(w, k)
      PROVE  gen' = gen
  BY <1>6, WorkerFrame DEF Work, Frame
<1> QED BY <1>1, <1>2, <1>3, <1>4, <1>5, <1>6 DEF Next, Administer

(* An activation hands over to a generation with a ready vector of every
   memory, save those written while it was between its checks. *)
THEOREM ActivationsAreComplete == Spec => ActivationIsComplete
<1> DEFINE Complete == \A m \in Memories \ raced, g \in Gens :
             ~Serves(m, g) /\ gen[g] # "active" /\ Serves(m, g)' => Ready(m, g)'
<1>1. ASSUME CoverInv, Next
      PROVE  Complete
  <2>1. StoreOK /\ SideOK /\ PlanOK
    BY <1>1, Parts DEF CoverInv
  <2>2. ASSUME NEW m \in Memories \ raced, NEW g \in Gens, gen[g] # "active", Serves(m, g)'
        PROVE  Ready(m, g)'
    <3>1. PICK h \in Gens : Activate(h)
      BY <1>1, <2>1, <2>2, OnlyActivate DEF Serves
    <3>2. mem' = mem /\ vec' = vec /\ gen'[g] = "active" /\ mem[m].embed /\ m \in Known
      BY <2>2, <3>1 DEF Activate, Serves, Known
    <3>3. Ready(m, g)
      BY <2>1, <3>1, <3>2, ActivatedIsReady
    <3> QED BY <3>2, <3>3 DEF Ready
  <2> QED BY <2>2
<1>2. ASSUME UNCHANGED vars
      PROVE  Complete
  BY <1>2 DEF vars, Serves
<1>3. CoverInv /\ [Next]_vars => [Complete]_vars
  <2> HIDE DEF Complete
  <2> QED BY <1>1, <1>2
<1> QED BY <1>3, CoverHolds, PTL DEF Spec, ActivationIsComplete
=============================================================================
