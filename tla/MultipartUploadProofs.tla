----------------------- MODULE MultipartUploadProofs -----------------------
(***************************************************************************)
(* Proofs about MultipartUpload, for every file, number of runs, losses    *)
(* and restarts.  IndInv holds of any number of starts; that what R2       *)
(* assembles is the whole file (WholeInv) of a page that starts one upload *)
(* and resumes it as often as it likes.                                    *)
(***************************************************************************)
EXTENDS MultipartUpload, FiniteSetTheorems, FunctionTheorems, TLAPS

(***************************************************************************)
(* Lemmas about finite sets of numbers.                                    *)
(***************************************************************************)

\* The empty sequence is one over every set.
LEMMA SeqEmpty ==
  ASSUME NEW S
  PROVE  <<>> \in Seq(S)
  OBVIOUS

\* Ranks are below the number of members, and differ.
LEMMA RankOrder ==
  ASSUME NEW ids \in SUBSET Nat, IsFiniteSet(ids)
  PROVE  /\ \A m \in ids : /\ Cardinality({k \in ids : k < m}) \in Nat
                           /\ Cardinality({k \in ids : k < m}) < Cardinality(ids)
         /\ \A m, n \in ids : Cardinality({k \in ids : k < m}) = Cardinality({k \in ids : k < n})
                              => m = n
  <1> DEFINE N == Cardinality(ids)
             below(m) == {k \in ids : k < m}
  <1>0. \A k \in ids : k \in Nat
    OBVIOUS
  <1>1. N \in Nat
    BY FS_CardinalityType
  <1>2. \A m \in ids : /\ IsFiniteSet(below(m)) /\ Cardinality(below(m)) \in Nat
                       /\ Cardinality(below(m)) < N
    <2> TAKE m \in ids
    <2>1. below(m) \in SUBSET ids /\ m \notin below(m) /\ m \in ids
      OBVIOUS
    <2>2. /\ IsFiniteSet(below(m)) /\ Cardinality(below(m)) <= N
          /\ N = Cardinality(below(m)) => ids = below(m)
      BY <2>1, FS_Subset
    <2>3. Cardinality(below(m)) \in Nat
      BY <2>2, FS_CardinalityType
    <2> QED
      BY <1>1, <2>1, <2>2, <2>3
  <1>3. ASSUME NEW m \in ids, NEW n \in ids, m < n
        PROVE  Cardinality(below(m)) < Cardinality(below(n))
    <2>1. below(m) \in SUBSET below(n) /\ m \in below(n) /\ m \notin below(m)
      <3>1. m \in Nat /\ n \in Nat /\ \A k \in Nat : k < m => k < n
        BY <1>0, <1>3
      <3>2. \A k \in ids : k < m => k < n
        BY <1>0, <3>1
      <3>3. m \in below(n) /\ m \notin below(m)
        BY <1>3, <3>1
      <3>4. \A k \in below(m) : k \in below(n)
        BY <3>2
      <3> QED
        BY <3>3, <3>4
    <2>2. /\ Cardinality(below(m)) <= Cardinality(below(n))
          /\ Cardinality(below(n)) = Cardinality(below(m)) => below(n) = below(m)
      BY <1>2, <2>1, FS_Subset
    <2> QED
      BY <1>2, <2>1, <2>2
  <1>4. ASSUME NEW m \in ids, NEW n \in ids, Cardinality(below(m)) = Cardinality(below(n))
        PROVE  m = n
    <2>1. m < n \/ n < m \/ m = n
      BY <1>0
    <2> QED
      BY <1>2, <1>3, <1>4, <2>1
  <1> QED
    BY <1>2, <1>4

\* In a finite set of numbers every rank is taken: the ranks of the members
\* differ, so there are as many as there are members.
LEMMA Ranks ==
  ASSUME NEW ids \in SUBSET Nat, IsFiniteSet(ids), NEW i \in 1 .. Cardinality(ids)
  PROVE  \E m \in ids : Cardinality({k \in ids : k < m}) = i - 1
  <1> DEFINE N == Cardinality(ids)
             rank == [m \in ids |-> Cardinality({k \in ids : k < m})]
             R == 0 .. N - 1
  <1>1. N \in Nat
    BY FS_CardinalityType
  <1>2. rank \in [ids -> R]
    BY <1>1, RankOrder
  <1>3. \A m, n \in ids : rank[m] = rank[n] => m = n
    BY RankOrder
  <1>4. rank \in Injection(ids, R)
    BY <1>2, <1>3 DEF Injection, IsInjective
  <1>5. IsFiniteSet(R) /\ Cardinality(R) = N
    <2>1. 0 \in Int /\ N - 1 \in Int
      BY <1>1
    <2>2. IsFiniteSet(R) /\ Cardinality(R) = IF 0 > N - 1 THEN 0 ELSE (N - 1) - 0 + 1
      BY <2>1, FS_Interval
    <2> QED
      BY <1>1, <2>2
  <1> HIDE DEF rank, R
  <1>6. rank \in Surjection(ids, R)
    BY <1>4, <1>5, FS_Injection
  <1>7. i - 1 \in R
    BY <1>1 DEF R
  <1>8. PICK m \in ids : rank[m] = i - 1
    BY <1>6, <1>7 DEF Surjection
  <1> QED
    BY <1>8 DEF rank

\* The least of a set of numbers.
LEMMA Least ==
  ASSUME NEW S \in SUBSET Nat, IsFiniteSet(S), S # {}
  PROVE  \E m \in S : \A k \in S : m <= k
  <1>1. Cardinality(S) \in Nat /\ Cardinality(S) # 0
    BY FS_CardinalityType, FS_EmptySet
  <1>2. 1 \in 1 .. Cardinality(S)
    BY <1>1
  <1>3. PICK m \in S : Cardinality({k \in S : k < m}) = 0
    <2>1. \E m \in S : Cardinality({k \in S : k < m}) = 1 - 1
      BY <1>2, Ranks
    <2> QED
      BY <2>1
  <1>4. {k \in S : k < m} = {}
    <2>1. {k \in S : k < m} \in SUBSET S
      OBVIOUS
    <2> QED
      BY <1>3, <2>1, FS_Subset, FS_EmptySet
  <1>5. \A k \in S : k \in Nat /\ m \in Nat /\ ~(k < m)
    BY <1>4
  <1> QED
    BY <1>5

(***************************************************************************)
(* Lemmas about the operators.                                             *)
(***************************************************************************)

\* The parts of a file are finitely many numbers.
LEMMA SomeParts ==
  ASSUME NEW S \in SUBSET Part
  PROVE  S \in SUBSET Nat /\ IsFiniteSet(S) /\ Cardinality(S) \in Nat
  <1>1. IsFiniteSet(Part)
    BY UploadBounds, FS_Interval DEF Part
  <1>2. IsFiniteSet(S)
    BY <1>1, FS_Subset
  <1> QED
    BY <1>2, FS_CardinalityType, UploadBounds DEF Part

\* The parts of a batch are listed in ascending order, none left out.
LEMMA AscendingLists ==
  ASSUME NEW S \in SUBSET Part
  PROVE  Ascending(S) \in Seq(Part) /\ SeqSet(Ascending(S)) = S
  <1> DEFINE N == Cardinality(S)
             a == Ascending(S)
  <1>1. S \in SUBSET Nat /\ IsFiniteSet(S) /\ N \in Nat
    BY SomeParts
  <1> DEFINE pick(i) == CHOOSE p \in S : Cardinality({q \in S : q < p}) = i - 1
             b == [i \in 1 .. N |-> pick(i)]
  <1>2. a = b
    BY DEF Ascending
  <1>3. ASSUME NEW i \in 1 .. N
        PROVE  a[i] \in S /\ Cardinality({q \in S : q < a[i]}) = i - 1
    <2>1. \E p \in S : Cardinality({q \in S : q < p}) = i - 1
      BY <1>1, Ranks
    <2>2. b[i] = pick(i)
      OBVIOUS
    <2>3. pick(i) \in S /\ Cardinality({q \in S : q < pick(i)}) = i - 1
      BY <2>1
    <2> HIDE DEF pick, a, b
    <2> QED
      BY <1>2, <2>2, <2>3
  <1>4. DOMAIN b = 1 .. N /\ b = [i \in 1 .. N |-> b[i]]
    <2> HIDE DEF pick
    <2> QED
      OBVIOUS
  <1> HIDE DEF a, b, pick
  <1>5. a \in Seq(Part)
    <2>1. \A i \in 1 .. N : a[i] \in Part
      BY <1>3
    <2> HIDE DEF N
    <2> QED
      BY <1>1, <1>2, <1>4, <2>1
  <1>6. ASSUME NEW p \in S PROVE p \in SeqSet(a)
    <2> DEFINE rank == Cardinality({q \in S : q < p})
    <2>1. rank \in Nat /\ rank < N
      BY <1>1, RankOrder
    <2> HIDE DEF rank, N
    <2>2. rank + 1 \in 1 .. N /\ (rank + 1) - 1 = rank
      BY <1>1, <2>1
    <2>3. a[rank + 1] \in S /\ Cardinality({q \in S : q < a[rank + 1]}) = rank
      BY <1>3, <2>2
    <2>4. \A m, n \in S : Cardinality({q \in S : q < m}) = Cardinality({q \in S : q < n}) => m = n
      BY <1>1, RankOrder
    <2> DEFINE m == a[rank + 1]
    <2>5. m = p
      <3>1. m \in S /\ Cardinality({q \in S : q < m}) = Cardinality({q \in S : q < p})
        BY <2>3 DEF rank
      <3> HIDE DEF m
      <3> QED
        BY <2>4, <3>1
    <2> QED
      BY <1>2, <1>4, <2>2, <2>5 DEF SeqSet
  <1>7. \A p \in SeqSet(a) : p \in S
    BY <1>2, <1>4, <1>3 DEF SeqSet
  <1>8. SeqSet(a) = S
    BY <1>6, <1>7
  <1> QED
    BY <1>5, <1>8 DEF a

\* A list that is appended to lists what both lists do.
LEMMA ListsBoth ==
  ASSUME NEW s \in Seq(Part), NEW t \in Seq(Part)
  PROVE  s \o t \in Seq(Part) /\ SeqSet(s \o t) = SeqSet(s) \cup SeqSet(t)
  <1> DEFINE u == s \o t
  <1>1. /\ u \in Seq(Part) /\ Len(s) \in Nat /\ Len(t) \in Nat
        /\ DOMAIN s = 1 .. Len(s) /\ DOMAIN t = 1 .. Len(t) /\ DOMAIN u = 1 .. Len(s) + Len(t)
        /\ \A i \in 1 .. Len(s) + Len(t) : u[i] = IF i <= Len(s) THEN s[i] ELSE t[i - Len(s)]
    OBVIOUS
  <1> HIDE DEF u
  <1>2. ASSUME NEW i \in DOMAIN u PROVE u[i] \in SeqSet(s) \cup SeqSet(t)
    <2>1. CASE i <= Len(s)
      BY <1>1, <2>1 DEF SeqSet
    <2>2. CASE ~(i <= Len(s))
      <3>1. i - Len(s) \in 1 .. Len(t) /\ u[i] = t[i - Len(s)]
        BY <1>1, <2>2
      <3> QED
        BY <1>1, <3>1 DEF SeqSet
    <2> QED
      BY <2>1, <2>2
  <1>3. ASSUME NEW i \in DOMAIN s PROVE s[i] \in SeqSet(u)
    <2>1. i \in DOMAIN u /\ u[i] = s[i]
      BY <1>1
    <2> QED
      BY <2>1 DEF SeqSet
  <1>4. ASSUME NEW i \in DOMAIN t PROVE t[i] \in SeqSet(u)
    <2>1. Len(s) + i \in DOMAIN u /\ u[Len(s) + i] = t[i]
      BY <1>1
    <2> QED
      BY <2>1 DEF SeqSet
  <1>5. SeqSet(u) = SeqSet(s) \cup SeqSet(t)
    BY <1>2, <1>3, <1>4 DEF SeqSet
  <1> QED
    BY <1>1, <1>5 DEF u

\* What a list lists are parts.
LEMMA ListsParts ==
  ASSUME NEW s \in Seq(Part)
  PROVE  SeqSet(s) \subseteq Part
  BY DEF SeqSet

\* The fields of a run.
LEMMA RunFields ==
  ASSUME NEW r \in UploadRun
  PROVE  /\ r.n \in Run /\ r.resume \in BOOLEAN
         /\ {r.up, r.row} \subseteq {0} \cup Upload /\ r.ctl \in {0} \cup Run
         /\ r.todo \in SUBSET Part /\ r.batch \in SUBSET Part /\ r.got \in SUBSET Part
         /\ r.sent \in Seq(Part)
  BY DEF UploadRun

Moving == {"presigning", "putting", "completing"}

\* A run at the head of its loop takes a batch of what it has to do, or
\* completes what was listed.
LEMMA ProceedsRun ==
  ASSUME NEW r \in UploadRun, NEW id \in {0} \cup Upload, NEW done \in Seq(Part)
  PROVE  /\ Proceeds(r, id, done) \in UploadRun /\ Proceeds(r, id, done).got = {}
         /\ r.todo # {} => /\ Proceeds(r, id, done).st = "presigning"
                           /\ Proceeds(r, id, done).todo \cup Proceeds(r, id, done).batch = r.todo
         /\ r.todo = {} => /\ Proceeds(r, id, done).st = "completing"
                           /\ Proceeds(r, id, done).sent = done
  <1>1. CASE r.todo # {}
    <2> DEFINE low == Lowest(Concurrency, r.todo)
               d == [r EXCEPT !.st = "presigning", !.batch = low, !.todo = @ \ low, !.got = {},
                              !.row = id]
    <2>1. low \in SUBSET r.todo /\ r.todo \in SUBSET Part
      BY RunFields DEF Lowest
    <2> HIDE DEF low
    <2>2. /\ d \in UploadRun /\ d.got = {} /\ d.st = "presigning"
          /\ d.batch = low /\ d.todo = r.todo \ low
      BY <2>1 DEF UploadRun
    <2>3. Proceeds(r, id, done) = d
      BY <1>1 DEF Proceeds, low
    <2> HIDE DEF d
    <2>4. d.todo \cup d.batch = r.todo
      BY <2>1, <2>2
    <2> QED
      BY <1>1, <2>2, <2>3, <2>4
  <1>2. CASE r.todo = {}
    <2> DEFINE up == IF r.resume THEN id ELSE r.up
               d == [r EXCEPT !.st = "completing", !.batch = {}, !.got = {}, !.sent = done,
                              !.up = up]
    <2>1. up \in {0} \cup Upload
      BY RunFields
    <2> HIDE DEF up
    <2>2. d \in UploadRun /\ d.got = {} /\ d.st = "completing" /\ d.sent = done
      BY <2>1 DEF UploadRun
    <2>3. Proceeds(r, id, done) = d
      BY <1>2 DEF Proceeds, up
    <2> QED
      BY <1>2, <2>2, <2>3
  <1> QED
    BY <1>1, <1>2

\* A run that begins.
LEMMA NewRunRun ==
  ASSUME TypeOK, NEW resume \in BOOLEAN, NEW todo \in SUBSET Part,
         started + resumed + 1 \in Run
  PROVE  /\ NewRun(resume, todo) \in UploadRun /\ NewRun(resume, todo).todo = todo
         /\ NewRun(resume, todo).got = {} /\ NewRun(resume, todo).st = "initiating"
         /\ NewRun(resume, todo).batch = {}
  <1>1. uploadId \in {0} \cup Upload /\ <<>> \in Seq(Part)
    BY SeqEmpty DEF TypeOK
  <1> QED
    BY <1>1 DEF NewRun, UploadRun

(***************************************************************************)
(* Types.                                                                  *)
(***************************************************************************)

RefsOK == /\ status \in {"idle", "uploading", "paused", "error", "success"}
          /\ paused \in BOOLEAN /\ uploadId \in {0} \cup Upload /\ ctl \in {0} \cup Run
          /\ parts \in Seq(Part)
RunsOK == runs \subseteq UploadRun /\ \A r \in runs : r.got \subseteq r.batch
ServerOK == video \in [Upload -> Video] /\ store \in [Upload -> Stored]
CountsOK == /\ started \in 0 .. MaxStart /\ resumed \in 0 .. MaxResume
            /\ faults \in 0 .. MaxFault /\ restarts \in 0 .. MaxRestart

LEMMA TypeParts ==
  TypeOK <=> RefsOK /\ RunsOK /\ ServerOK /\ CountsOK /\ cancelling \subseteq Upload
  BY DEF TypeOK, RefsOK, RunsOK, ServerOK, CountsOK

LEMMA FaultCounted ==
  ASSUME CountsOK, Fault
  PROVE  faults' \in 0 .. MaxFault
  BY UploadBounds DEF CountsOK, Fault

\* A run fails: what is left is what was there.
LEMMA FailsTyped ==
  ASSUME RefsOK, RunsOK, NEW r, Fails(r)
  PROVE  RefsOK' /\ RunsOK' /\ runs' \subseteq runs /\ uploadId' = uploadId /\ parts' = parts
  BY Zenon DEF RefsOK, RunsOK, Fails

LEMMA ResetTyped ==
  ASSUME ResetState
  PROVE  RefsOK' /\ uploadId' = 0
  BY SeqEmpty DEF RefsOK, ResetState

\* A run goes on, to the head of its loop or out of it.
LEMMA ReplaceTyped ==
  ASSUME RunsOK, NEW r, NEW s \in UploadRun, NEW id \in {0} \cup Upload, NEW done \in Seq(Part),
         Replace(r, s, id, done)
  PROVE  RunsOK' /\ runs' \subseteq (runs \ {r}) \cup {Proceeds(s, id, done)}
  <1>1. runs' \subseteq (runs \ {r}) \cup {Proceeds(s, id, done)}
    BY DEF Replace
  <1>2. Proceeds(s, id, done) \in UploadRun /\ Proceeds(s, id, done).got = {}
    BY ProceedsRun
  <1> QED
    BY <1>1, <1>2 DEF RunsOK

\* The row that the next upload takes is one that is free.
LEMMA RowIsFree ==
  ASSUME TypeOK, Counted, NEW r \in Waiting
  PROVE  Initiated \in Upload /\ Initiated \notin Taken
  <1>1. started <= MaxStart /\ started \in Nat /\ MaxStart \in Nat
    BY UploadBounds DEF TypeOK
  <1>2. IsFiniteSet(Upload) /\ Cardinality(Upload) = MaxStart /\ Upload \in SUBSET Nat
    BY <1>1, FS_Interval DEF Upload
  <1>3. Cardinality(Waiting) \in Nat /\ Cardinality(Waiting) # 0
    BY FS_CardinalityType, FS_EmptySet DEF Counted
  <1> DEFINE Free == Upload \ Taken
  <1>4. Free # {}
    <2>1. Taken \in SUBSET Upload
      BY DEF Taken
    <2>2. Cardinality(Taken) \in Nat
      BY <1>2, <2>1, FS_Subset, FS_CardinalityType
    <2>3. Cardinality(Taken) < MaxStart
      BY <1>1, <1>3, <2>2 DEF Counted
    <2>4. Free = {} => Taken = Upload
      BY <2>1
    <2>5. Taken # Upload
      BY <1>1, <1>2, <2>3
    <2> QED
      BY <2>4, <2>5
  <1>5. \A u \in Upload : u \in Free <=> video[u].upload_status = "none"
    BY DEF Taken
  <1>6. PICK u \in Free : \A w \in Free : u <= w
    <2>1. Free \in SUBSET Nat /\ IsFiniteSet(Free)
      BY <1>2, FS_Subset
    <2> HIDE DEF Free
    <2> QED
      BY <1>4, <2>1, Least
  <1>7. \E w \in Upload : /\ video[w].upload_status = "none"
                          /\ \A x \in Upload : x < w => video[x].upload_status # "none"
    <2>1. \A x \in Upload : x < u => x \notin Free
      BY <1>2, <1>6
    <2> QED
      BY <1>5, <1>6, <2>1
  <1> HIDE DEF Free
  <1>8. Initiated \in Upload /\ video[Initiated].upload_status = "none"
    BY <1>7 DEF Initiated
  <1> QED
    BY <1>8 DEF Taken

\* The rows that are taken, and the runs that wait for one, are counted.
LEMMA Counts ==
  ASSUME TypeOK, Counted
  PROVE  /\ IsFiniteSet(Taken) /\ Cardinality(Taken) \in Nat
         /\ IsFiniteSet(Waiting) /\ Cardinality(Waiting) \in Nat
         /\ started \in Nat /\ Cardinality(Taken) + Cardinality(Waiting) <= started
  <1>1. IsFiniteSet(Upload) /\ Taken \in SUBSET Upload
    BY UploadBounds, FS_Interval DEF Upload, Taken
  <1>2. IsFiniteSet(Taken)
    BY <1>1, FS_Subset
  <1> QED
    BY <1>2, FS_CardinalityType DEF Counted, TypeOK

\* Who waits no longer, or fails, leaves enough rows to the others.
LEMMA StillCounted ==
  ASSUME TypeOK, Counted, Waiting' \subseteq Waiting, Taken' = Taken, started' = started
  PROVE  Counted'
  <1>1. IsFiniteSet(Waiting') /\ Cardinality(Waiting') <= Cardinality(Waiting)
    BY Counts, FS_Subset
  <1>2. Cardinality(Waiting') \in Nat
    BY <1>1, FS_CardinalityType
  <1> QED
    BY <1>1, <1>2, Counts DEF Counted

(***************************************************************************)
(* Steps that make, assemble and announce no row.                          *)
(***************************************************************************)

\* The server is as it was, or an upload is aborted or deleted.
Calm ==
  /\ Taken' = Taken /\ started' = started
  /\ \A u \in Upload : /\ video'[u].notified = video[u].notified
                       /\ store'[u].object = store[u].object
                       /\ store'[u].open => store[u].open

\* The runs are those there were, less some, and some of S: runs past the
\* first request of an upload whose row was made.
Went(S) == /\ runs' \subseteq runs \cup S
           /\ S # {} => Taken # {}
           /\ \A s \in S : s.st \in Moving

LEMMA CalmStep ==
  ASSUME IndInv, TypeOK', Calm, NEW S, Went(S), uploadId' \in {0, uploadId}
  PROVE  IndInv'
  <1>0. TypeOK /\ Counted /\ RowMade /\ OneAssembly /\ ToldOnce
    BY DEF IndInv
  <1>1. Waiting' \in SUBSET Waiting
    BY DEF Waiting, Went, Moving
  <1>2. Counted'
    BY <1>0, <1>1, StillCounted DEF Calm
  <1>3. RowMade'
    <2>1. uploadId' # 0 => uploadId' \in Taken'
      BY <1>0 DEF RowMade, Calm
    <2>2. ASSUME NEW r \in runs'
          PROVE  (r.st # "initiating" => Taken' # {}) /\ (r.st = "initiating" => r.todo = Part)
      <3>1. r \in runs \/ (r \in S /\ r.st \in Moving /\ Taken # {})
        BY DEF Went
      <3> QED
        BY <1>0, <3>1 DEF RowMade, Calm, Moving
    <2> QED
      BY <2>1, <2>2 DEF RowMade
  <1>4. OneAssembly'
    <2>1. \A r \in runs' : r.st \in {"assembled", "completed"} => r \in runs
      BY DEF Went, Moving
    <2>2. ASSUME NEW r \in runs, Assembled(r) PROVE Assembled(r)'
      <3>1. r.up \in Upload
        BY <2>2 DEF Assembled, Taken
      <3> QED
        BY <2>2, <3>1 DEF Assembled, Calm
    <2> QED
      BY <1>0, <2>1, <2>2 DEF OneAssembly
  <1>5. ToldOnce'
    BY <1>0 DEF ToldOnce, Calm
  <1> QED
    BY <1>2, <1>3, <1>4, <1>5 DEF IndInv

\* The same for what the runs of an upload know of its parts.
LEMMA CalmCovered ==
  ASSUME WholeInv, IndInv', Calm, NEW S, Went(S), \A s \in S : CoversPart(s)',
         uploadId' = 0 \/ (uploadId' = uploadId /\ SeqSet(parts) \subseteq SeqSet(parts'))
  PROVE  WholeInv'
  <1>0. Covered /\ WholeObject /\ NotifiedOnce /\ IndInv
    BY DEF WholeInv
  <1>1. WholeObject' /\ NotifiedOnce'
    BY <1>0 DEF WholeObject, NotifiedOnce, Calm
  <1>2. ASSUME NEW r \in runs PROVE CoversPart(r)'
    <2>1. CoversPart(r)
      BY <1>0 DEF Covered
    <2>2. r.st = "assembled" => r.up \in Upload
      BY <1>0 DEF IndInv, OneAssembly, Assembled, Taken
    <2> QED
      BY <2>1, <2>2 DEF CoversPart, Calm
  <1>3. Covered'
    BY <1>2 DEF Covered, Went
  <1> QED
    BY <1>1, <1>3 DEF WholeInv

\* Nothing but runs, refs and bounds changes.
LEMMA ServerCalm ==
  ASSUME UNCHANGED <<server, started>>
  PROVE  Calm
  BY DEF Calm, server, Taken

\* A step after which there is no run that was not there.
Drops == runs' \subseteq runs /\ (uploadId' = 0 \/ (uploadId' = uploadId /\ parts' = parts))

LEMMA DropStep ==
  ASSUME IndInv, TypeOK', Calm, Drops
  PROVE  IndInv' /\ (WholeInv => WholeInv')
  <1> DEFINE S == {}
  <1>1. /\ Went(S) /\ uploadId' \in {0, uploadId} /\ \A s \in S : CoversPart(s)'
        /\ uploadId' = 0 \/ (uploadId' = uploadId /\ SeqSet(parts) \subseteq SeqSet(parts'))
    BY DEF Went, Drops, SeqSet
  <1> HIDE DEF S
  <1> QED
    BY <1>1, CalmStep, CalmCovered

\* A request is lost or refused.
LEMMA FailStep ==
  ASSUME IndInv, NEW r \in runs,
         InitiateFails(r) \/ PresignFails(r) \/ PutFails(r) \/ CompleteFails(r)
  PROVE  IndInv' /\ (WholeInv => WholeInv')
  <1>1. RefsOK /\ RunsOK /\ ServerOK /\ CountsOK /\ cancelling \subseteq Upload
    BY TypeParts DEF IndInv
  <1>2. /\ Fails(r) /\ UNCHANGED <<cancelling, server, started, resumed, restarts>>
        /\ Fault \/ UNCHANGED faults
    BY DEF InitiateFails, PresignFails, PutFails, CompleteFails
  <1>3. /\ RefsOK' /\ RunsOK' /\ runs' \subseteq runs /\ uploadId' = uploadId
        /\ parts' = parts
    BY <1>1, <1>2, FailsTyped
  <1>4. faults' \in 0 .. MaxFault
    BY <1>1, <1>2, FaultCounted DEF CountsOK
  <1>5. ServerOK' /\ CountsOK' /\ cancelling' \subseteq Upload
    BY <1>1, <1>2, <1>4 DEF ServerOK, CountsOK, server
  <1>6. TypeOK'
    BY <1>3, <1>5 DEF TypeOK, RefsOK, RunsOK, ServerOK, CountsOK
  <1>7. Calm /\ Drops
    BY <1>2, <1>3, ServerCalm DEF Drops
  <1> QED
    BY <1>6, <1>7, DropStep

\* The teacher pauses.
LEMMA PauseStep ==
  ASSUME IndInv, Pause
  PROVE  IndInv' /\ (WholeInv => WholeInv')
  <1>1. RefsOK /\ RunsOK /\ ServerOK /\ CountsOK /\ cancelling \subseteq Upload
    BY TypeParts DEF IndInv
  <1>2. Calm /\ Drops
    BY ServerCalm DEF Drops, Pause
  <1>3. RefsOK' /\ RunsOK' /\ ServerOK' /\ CountsOK' /\ cancelling' \subseteq Upload
    BY <1>1 DEF Pause, RefsOK, RunsOK, ServerOK, CountsOK, server
  <1>4. TypeOK'
    BY <1>3 DEF TypeOK, RefsOK, RunsOK, ServerOK, CountsOK
  <1> QED
    BY <1>2, <1>4, DropStep

\* The teacher cancels.
LEMMA CancelStep ==
  ASSUME IndInv, Cancel
  PROVE  IndInv' /\ (WholeInv => WholeInv')
  <1>1. RefsOK /\ RunsOK /\ ServerOK /\ CountsOK /\ cancelling \subseteq Upload
    BY TypeParts DEF IndInv
  <1>2. runs' \subseteq runs /\ UNCHANGED <<server, started, resumed, faults, restarts>>
    BY DEF Cancel
  <1>3. /\ RefsOK' /\ cancelling' \subseteq Upload
        /\ uploadId' = 0 \/ (uploadId' = uploadId /\ parts' = parts)
    <2>1. CASE uploadId # 0
      BY <1>1, <2>1 DEF Cancel, RefsOK
    <2>2. CASE uploadId = 0
      BY <1>1, <2>2, ResetTyped DEF Cancel
    <2> QED
      BY <2>1, <2>2
  <1>4. RunsOK' /\ ServerOK' /\ CountsOK'
    BY <1>1, <1>2 DEF RunsOK, ServerOK, CountsOK, server
  <1>5. TypeOK'
    BY <1>3, <1>4 DEF TypeOK, RefsOK, RunsOK, ServerOK, CountsOK
  <1>6. Calm /\ Drops
    BY <1>2, <1>3, ServerCalm DEF Drops
  <1> QED
    BY <1>5, <1>6, DropStep

\* The browser is told that its upload is complete.
LEMMA CompleteAnsweredStep ==
  ASSUME IndInv, NEW r \in runs, CompleteAnswered(r)
  PROVE  IndInv' /\ (WholeInv => WholeInv')
  <1>1. RefsOK /\ RunsOK /\ ServerOK /\ CountsOK /\ cancelling \subseteq Upload
    BY TypeParts DEF IndInv
  <1>2. Calm /\ Drops
    BY ServerCalm DEF Drops, CompleteAnswered
  <1>3. RefsOK' /\ RunsOK' /\ ServerOK' /\ CountsOK' /\ cancelling' \subseteq Upload
    BY <1>1 DEF CompleteAnswered, RefsOK, RunsOK, ServerOK, CountsOK, server
  <1>4. TypeOK'
    BY <1>3 DEF TypeOK, RefsOK, RunsOK, ServerOK, CountsOK
  <1> QED
    BY <1>2, <1>4, DropStep

\* The DELETE deletes the row and aborts the upload, or is lost.
LEMMA DeleteStep ==
  ASSUME IndInv, NEW u \in cancelling, DeleteAnswered(u) \/ DeleteLost(u)
  PROVE  IndInv' /\ (WholeInv => WholeInv')
  <1>1. RefsOK /\ RunsOK /\ ServerOK /\ CountsOK /\ cancelling \subseteq Upload
    BY TypeParts DEF IndInv
  <1>2. /\ RefsOK' /\ uploadId' = 0 /\ runs' = runs /\ cancelling' = cancelling \ {u}
        /\ UNCHANGED <<started, resumed, restarts>> /\ faults' \in 0 .. MaxFault
    <2>1. ResetState
      BY DEF DeleteAnswered, DeleteLost
    <2>2. Fault \/ UNCHANGED faults
      BY DEF DeleteAnswered, DeleteLost
    <2>3. faults' \in 0 .. MaxFault
      BY <1>1, <2>2, FaultCounted DEF CountsOK
    <2> QED
      BY <2>1, <2>3, ResetTyped DEF DeleteAnswered, DeleteLost
  <1>3. ServerOK' /\ Calm
    <2>1. CASE UNCHANGED server
      BY <1>1, <1>2, <2>1, ServerCalm DEF ServerOK, server
    <2>2. CASE ~UNCHANGED server
      <3>1. /\ video' = [video EXCEPT ![u].deleted = TRUE]
            /\ store' = [store EXCEPT ![u].open = FALSE]
        BY <2>2 DEF DeleteAnswered, DeleteLost
      <3>2. video \in [Upload -> Video] /\ store \in [Upload -> Stored] /\ u \in Upload
        BY <1>1 DEF ServerOK
      <3>3. ServerOK'
        BY <3>1, <3>2 DEF ServerOK, Video, Stored
      <3>4. \A w \in Upload : /\ video'[w].upload_status = video[w].upload_status
                              /\ video'[w].notified = video[w].notified
                              /\ store'[w].object = store[w].object
                              /\ store'[w].open => store[w].open
        BY <3>1, <3>2 DEF Video, Stored
      <3> QED
        BY <1>2, <3>3, <3>4 DEF Calm, Taken
    <2> QED
      BY <2>1, <2>2
  <1>4. RunsOK' /\ CountsOK' /\ cancelling' \subseteq Upload
    BY <1>1, <1>2 DEF RunsOK, CountsOK
  <1>5. TypeOK'
    BY <1>2, <1>3, <1>4 DEF TypeOK, RefsOK, RunsOK, ServerOK, CountsOK
  <1>6. Drops
    BY <1>2 DEF Drops
  <1> QED
    BY <1>3, <1>5, <1>6, DropStep

\* A worker starts and completes rows that have been pending for long.
LEMMA DataFixStep ==
  ASSUME IndInv, NEW old \in SUBSET Upload, DataFix(old)
  PROVE  IndInv' /\ (WholeInv => WholeInv')
  <1>1. RefsOK /\ RunsOK /\ ServerOK /\ CountsOK /\ cancelling \subseteq Upload
    BY TypeParts DEF IndInv
  <1>2. /\ UNCHANGED <<refs, runs, cancelling, store, started, resumed, faults>>
        /\ restarts < MaxRestart /\ restarts' = restarts + 1
        /\ \A u \in old : video[u].upload_status = "pending"
    BY DEF DataFix
  <1>3. ASSUME NEW u \in Upload
        PROVE  /\ video'[u] \in Video /\ video'[u].notified = video[u].notified
               /\ video'[u].upload_status = "none" <=> video[u].upload_status = "none"
    <2>1. /\ video[u] \in Video
          /\ video'[u] = IF u \in old THEN [video[u] EXCEPT !.upload_status = "completed"]
                         ELSE video[u]
      BY <1>1 DEF DataFix, ServerOK
    <2>2. CASE u \in old
      BY <1>2, <2>1, <2>2 DEF Video
    <2>3. CASE u \notin old
      BY <2>1, <2>3
    <2> QED
      BY <2>2, <2>3
  <1>4. ServerOK'
    <2>1. DOMAIN video' = Upload /\ video' = [u \in Upload |-> video'[u]]
      BY DEF DataFix
    <2> QED
      BY <1>1, <1>2, <1>3, <2>1 DEF ServerOK
  <1>5. RefsOK' /\ RunsOK' /\ CountsOK' /\ cancelling' \subseteq Upload
    BY <1>1, <1>2, UploadBounds DEF RefsOK, RunsOK, CountsOK, refs
  <1>6. TypeOK'
    BY <1>4, <1>5 DEF TypeOK, RefsOK, RunsOK, ServerOK, CountsOK
  <1>7. Calm /\ Drops
    BY <1>2, <1>3 DEF Calm, Taken, Drops, refs
  <1> QED
    BY <1>6, <1>7, DropStep

\* The URLs of a batch arrive.
LEMMA PresignStep ==
  ASSUME IndInv, NEW r \in runs, PresignAnswered(r)
  PROVE  IndInv' /\ (WholeInv => WholeInv')
  <1>1. RefsOK /\ RunsOK /\ ServerOK /\ CountsOK /\ cancelling \subseteq Upload /\ RowMade
    BY TypeParts DEF IndInv
  <1>2. /\ UNCHANGED <<refs, cancelling, server, started, resumed, faults, restarts>>
        /\ r.st = "presigning"
    BY DEF PresignAnswered
  <1>3. r \in UploadRun /\ r.got \subseteq r.batch /\ ctl \in {0} \cup Run
    BY <1>1 DEF RunsOK, RefsOK
  <1> DEFINE s == [r EXCEPT !.st = "putting", !.ctl = ctl]
             S == {s}
  <1>4. /\ s \in UploadRun /\ s.got = r.got /\ s.batch = r.batch /\ s.todo = r.todo
        /\ s.st = "putting"
    BY <1>3 DEF UploadRun
  <1>5. runs' \subseteq runs \cup S
    BY DEF PresignAnswered
  <1> HIDE DEF s
  <1>6. RunsOK'
    BY <1>1, <1>3, <1>4, <1>5 DEF RunsOK
  <1>7. RefsOK' /\ ServerOK' /\ CountsOK' /\ cancelling' \subseteq Upload
    BY <1>1, <1>2 DEF RefsOK, ServerOK, CountsOK, refs, server
  <1>8. TypeOK'
    BY <1>6, <1>7 DEF TypeOK, RefsOK, RunsOK, ServerOK, CountsOK
  <1>9. Calm
    BY <1>2, ServerCalm
  <1>10. Went(S) /\ uploadId' \in {0, uploadId} /\ uploadId' = uploadId /\ parts' = parts
    BY <1>1, <1>2, <1>4, <1>5 DEF Went, Moving, RowMade, refs
  <1>11. WholeInv => \A t \in S : CoversPart(t)'
    <2>1. WholeInv => CoversPart(r)
      BY DEF WholeInv, Covered
    <2> QED
      BY <1>2, <1>4, <1>10, <2>1 DEF CoversPart
  <1>12. SeqSet(parts) \subseteq SeqSet(parts')
    BY <1>10
  <1> HIDE DEF S
  <1>13. IndInv'
    BY <1>8, <1>9, <1>10, CalmStep
  <1> QED
    BY <1>9, <1>10, <1>11, <1>12, <1>13, CalmCovered

\* R2 has stored a part: one of a batch, or the last one.
LEMMA PartPutStep ==
  ASSUME IndInv, NEW r \in runs, NEW p \in Part, PartPut(r, p)
  PROVE  IndInv' /\ (WholeInv => WholeInv')
  <1>1. RefsOK /\ RunsOK /\ ServerOK /\ CountsOK /\ cancelling \subseteq Upload /\ RowMade
    BY TypeParts DEF IndInv
  <1>2. /\ UNCHANGED <<uploadId, ctl, cancelling, video, started, resumed, faults, restarts>>
        /\ r.st = "putting" /\ p \in r.batch
        /\ store' = [store EXCEPT ![r.up].parts = @ \cup {p}]
    BY DEF PartPut
  <1>3. r \in UploadRun /\ r.got \subseteq r.batch /\ r.batch \in SUBSET Part
    BY <1>1, RunFields DEF RunsOK
  <1>4. ServerOK' /\ Calm
    <2>1. store \in [Upload -> Stored] /\ video' = video /\ started' = started
      BY <1>1, <1>2 DEF ServerOK
    <2>2. store' \in [Upload -> Stored]
      BY <1>2, <2>1 DEF Stored
    <2>3. \A u \in Upload : store'[u].object = store[u].object /\ store'[u].open = store[u].open
      BY <1>2, <2>1 DEF Stored
    <2> QED
      BY <1>1, <2>1, <2>2, <2>3 DEF ServerOK, Calm, Taken
  <1> DEFINE s == [r EXCEPT !.got = @ \cup {p}]
             all == parts \o Ascending(r.batch)
  <1>5. /\ s \in UploadRun /\ s.got = r.got \cup {p} /\ s.batch = r.batch /\ s.todo = r.todo
        /\ s.st = "putting"
    BY <1>2, <1>3 DEF UploadRun
  <1>6. all \in Seq(Part) /\ SeqSet(all) = SeqSet(parts) \cup r.batch
    BY <1>1, <1>3, AscendingLists, ListsBoth DEF RefsOK
  <1>7. /\ s.got = r.batch =>
             /\ parts' = all /\ paused' = paused /\ Replace(r, s, uploadId, all)
             /\ status' = StatusAfter(s, uploadId)
        /\ s.got # r.batch =>
             /\ runs' = (runs \ {r}) \cup {s} /\ UNCHANGED <<status, paused, parts>>
    BY DEF PartPut
  <1>8. CountsOK' /\ cancelling' \subseteq Upload
    BY <1>1, <1>2 DEF CountsOK
  <1>9. uploadId' = uploadId /\ Taken # {}
    BY <1>1, <1>2 DEF RowMade
  <1> HIDE DEF s, all
  <1>10. CASE s.got # r.batch
    <2> DEFINE S == {s}
    <2>1. RunsOK' /\ RefsOK'
      BY <1>1, <1>2, <1>3, <1>5, <1>7, <1>10 DEF RunsOK, RefsOK
    <2>2. TypeOK'
      BY <1>4, <1>8, <2>1 DEF TypeOK, RefsOK, RunsOK, ServerOK, CountsOK
    <2>3. Went(S) /\ SeqSet(parts) \subseteq SeqSet(parts') /\ parts' = parts
      BY <1>5, <1>7, <1>9, <1>10 DEF Went, Moving
    <2>4. WholeInv => \A t \in S : CoversPart(t)'
      <3>1. WholeInv => CoversPart(r)
        BY DEF WholeInv, Covered
      <3> QED
        BY <1>2, <1>5, <1>9, <2>3, <3>1 DEF CoversPart
    <2> HIDE DEF S
    <2>5. IndInv'
      BY <1>4, <1>9, <2>2, <2>3, CalmStep
    <2> QED
      BY <1>4, <1>9, <2>3, <2>4, <2>5, CalmCovered
  <1>11. CASE s.got = r.batch
    <2> DEFINE d == Proceeds(s, uploadId, all)
               S == IF Ends(s, uploadId) THEN {} ELSE {d}
    <2>0. uploadId \in {0} \cup Upload
      BY <1>1 DEF RefsOK
    <2>1. RunsOK'
      BY <1>1, <1>5, <1>6, <1>7, <1>11, <2>0, ReplaceTyped
    <2>2. RefsOK'
      BY <1>1, <1>2, <1>6, <1>7, <1>11 DEF RefsOK, StatusAfter
    <2>3. TypeOK'
      BY <1>4, <1>8, <2>1, <2>2 DEF TypeOK, RefsOK, RunsOK, ServerOK, CountsOK
    <2>4. /\ s.todo # {} => d.st = "presigning" /\ d.todo \cup d.batch = s.todo
          /\ s.todo = {} => d.st = "completing" /\ d.sent = all
      <3> HIDE DEF S
      <3>1. s \in UploadRun /\ uploadId \in {0} \cup Upload /\ all \in Seq(Part)
        BY ONLY <1>5, <1>6, <2>0
      <3>2. /\ s.todo # {} => /\ Proceeds(s, uploadId, all).st = "presigning"
                              /\ Proceeds(s, uploadId, all).todo
                                   \cup Proceeds(s, uploadId, all).batch = s.todo
            /\ s.todo = {} => /\ Proceeds(s, uploadId, all).st = "completing"
                              /\ Proceeds(s, uploadId, all).sent = all
        BY ONLY <3>1, ProceedsRun
      <3> QED
        BY ONLY <3>2
    <2>5. runs' = (runs \ {r}) \cup S
      BY <1>7, <1>11 DEF Replace
    <2>6. s.todo = {} /\ uploadId = 0 => S = {}
      BY DEF Ends
    <2>7. S \subseteq {d}
      OBVIOUS
    <2> HIDE DEF d, S
    <2>8. Went(S) /\ SeqSet(parts) \subseteq SeqSet(parts')
      BY <1>6, <1>7, <1>9, <1>11, <2>4, <2>5, <2>7 DEF Went, Moving
    <2>9. WholeInv => \A t \in S : CoversPart(t)'
      <3>1. WholeInv => CoversPart(r)
        BY DEF WholeInv, Covered
      <3>2. SeqSet(all) \subseteq Part
        BY <1>6, ListsParts
      <3>3. parts' = all
        BY <1>7, <1>11
      <3>4. WholeInv /\ uploadId # 0 => Part \subseteq SeqSet(all) \cup s.todo
        BY <1>2, <1>5, <1>6, <3>1 DEF CoversPart
      <3>5. ASSUME WholeInv, NEW t \in S PROVE CoversPart(t)'
        <4>1. t = d
          BY <2>7
        <4>2. CASE s.todo # {}
          <5>1. /\ t.st = "presigning"
                /\ uploadId # 0 => Part \subseteq SeqSet(all) \cup t.todo \cup t.batch
            BY <2>4, <3>4, <3>5, <4>1, <4>2
          <5> QED
            BY <1>9, <3>3, <5>1 DEF CoversPart
        <4>3. CASE s.todo = {}
          <5>1. t.st = "completing" /\ SeqSet(t.sent) = Part
            BY <2>4, <2>6, <3>2, <3>4, <3>5, <4>1, <4>3
          <5> QED
            BY <5>1 DEF CoversPart
        <4> QED
          BY <4>2, <4>3
      <3> QED
        BY <3>5
    <2>10. IndInv'
      BY <1>4, <1>9, <2>3, <2>8, CalmStep
    <2> QED
      BY <1>4, <1>9, <2>8, <2>9, <2>10, CalmCovered
  <1> QED
    BY <1>10, <1>11

\* The teacher resumes: what is not listed is sent by a run of its own.
LEMMA ResumeStep ==
  ASSUME IndInv, Resume
  PROVE  IndInv' /\ (WholeInv => WholeInv')
  <1>1. RefsOK /\ RunsOK /\ ServerOK /\ CountsOK /\ cancelling \subseteq Upload /\ RowMade /\ TypeOK
    BY TypeParts DEF IndInv
  <1>2. /\ uploadId # 0 /\ resumed < MaxResume /\ resumed' = resumed + 1
        /\ paused' = FALSE /\ ctl' = started + resumed' /\ status' = "uploading"
        /\ UNCHANGED <<uploadId, parts, cancelling, server, started, faults, restarts>>
    BY DEF Resume
  <1>3. started \in 0 .. MaxStart /\ resumed \in 0 .. MaxResume /\ MaxStart \in Nat /\ MaxResume \in Nat
    BY <1>1, UploadBounds DEF CountsOK
  <1>4. started + resumed + 1 \in Run /\ ctl' \in Run /\ resumed' \in 0 .. MaxResume
    BY <1>2, <1>3 DEF Run
  <1> DEFINE todo == Part \ SeqSet(parts)
             r == NewRun(TRUE, todo)
             d == Proceeds(r, uploadId, parts)
             S == {d}
  <1>5. runs' = runs \cup S
    BY DEF Resume
  <1>6. uploadId \in {0} \cup Upload /\ parts \in Seq(Part)
    BY <1>1 DEF RefsOK
  <1>7. todo \in SUBSET Part
    OBVIOUS
  <1> HIDE DEF todo
  <1>8. r \in UploadRun /\ r.todo = todo
    BY <1>1, <1>4, <1>7, NewRunRun
  <1> HIDE DEF r
  <1>9. /\ d \in UploadRun /\ d.got = {}
        /\ todo # {} => d.st = "presigning" /\ d.todo \cup d.batch = todo
        /\ todo = {} => d.st = "completing" /\ d.sent = parts
    BY <1>6, <1>8, ProceedsRun
  <1> HIDE DEF d
  <1>10. RunsOK'
    BY <1>1, <1>5, <1>9 DEF RunsOK
  <1>11. RefsOK' /\ ServerOK' /\ CountsOK' /\ cancelling' \subseteq Upload
    BY <1>1, <1>2, <1>4 DEF RefsOK, ServerOK, CountsOK, server
  <1>12. TypeOK'
    BY <1>10, <1>11 DEF TypeOK, RefsOK, RunsOK, ServerOK, CountsOK
  <1>13. Calm
    BY <1>2, ServerCalm
  <1>14. Went(S) /\ uploadId' \in {0, uploadId} /\ SeqSet(parts) \subseteq SeqSet(parts')
    BY <1>1, <1>2, <1>5, <1>9 DEF Went, Moving, RowMade
  <1>15. \A t \in S : CoversPart(t)'
    <2>1. SeqSet(parts) \subseteq Part
      BY <1>6, ListsParts
    <2> QED
      BY <1>2, <1>9, <2>1 DEF CoversPart, todo
  <1> HIDE DEF S
  <1>16. IndInv'
    BY <1>12, <1>13, <1>14, CalmStep
  <1> QED
    BY <1>2, <1>13, <1>14, <1>15, <1>16, CalmCovered

(***************************************************************************)
(* A run begins, and is given its row.                                     *)
(***************************************************************************)

\* The teacher starts.
LEMMA StartStep ==
  ASSUME IndInv, Start
  PROVE  IndInv' /\ (WholeInv => WholeInv')
  <1>1. /\ RefsOK /\ RunsOK /\ ServerOK /\ CountsOK /\ cancelling \subseteq Upload
        /\ TypeOK /\ Counted /\ RowMade /\ OneAssembly /\ ToldOnce
    BY TypeParts DEF IndInv
  <1> DEFINE r == NewRun(FALSE, Part)
  <1>2. /\ started < MaxStart /\ started' = started + 1 /\ status' = "uploading"
        /\ paused' = FALSE /\ uploadId' = 0 /\ parts' = <<>> /\ ctl' = started' + resumed
        /\ runs' = runs \cup {r}
        /\ UNCHANGED <<cancelling, server, resumed, faults, restarts>>
    BY DEF Start
  <1>3. started \in 0 .. MaxStart /\ resumed \in 0 .. MaxResume /\ MaxStart \in Nat /\ MaxResume \in Nat
    BY <1>1, UploadBounds DEF CountsOK
  <1>4. started + resumed + 1 \in Run /\ ctl' \in Run /\ started' \in 0 .. MaxStart
    BY <1>2, <1>3 DEF Run
  <1>5. r \in UploadRun /\ r.todo = Part /\ r.got = {} /\ r.st = "initiating"
    BY <1>1, <1>4, NewRunRun
  <1> HIDE DEF r
  <1>6. TypeOK'
    <2>1. RunsOK'
      BY <1>1, <1>2, <1>5 DEF RunsOK
    <2>2. RefsOK' /\ ServerOK' /\ CountsOK' /\ cancelling' \subseteq Upload
      BY <1>1, <1>2, <1>4, SeqEmpty DEF RefsOK, ServerOK, CountsOK, server
    <2> QED
      BY <2>1, <2>2 DEF TypeOK, RefsOK, RunsOK, ServerOK, CountsOK
  <1>7. Taken' = Taken /\ video' = video /\ store' = store
    BY <1>2 DEF Taken, server
  <1>8. Counted'
    <2>1. Waiting' = Waiting \cup {r}
      BY <1>2, <1>5 DEF Waiting
    <2>2. /\ IsFiniteSet(Waiting')
          /\ Cardinality(Waiting') \in {Cardinality(Waiting), Cardinality(Waiting) + 1}
      BY <1>1, <2>1, Counts, FS_AddElement
    <2> QED
      BY <1>1, <1>2, <1>7, <2>2, Counts DEF Counted
  <1>9. RowMade' /\ OneAssembly' /\ ToldOnce'
    BY <1>1, <1>2, <1>5, <1>7 DEF RowMade, OneAssembly, Assembled, ToldOnce
  <1>10. WholeInv => Covered' /\ WholeObject' /\ NotifiedOnce'
    BY <1>2, <1>5, <1>7 DEF WholeInv, Covered, CoversPart, WholeObject, NotifiedOnce
  <1> QED
    BY <1>6, <1>8, <1>9, <1>10 DEF IndInv, WholeInv

\* Of a page that starts once, the run that waits for a row is the only one.
LEMMA OnlyRun ==
  ASSUME TypeOK, Counted, RowMade, MaxStart = 1, NEW r \in Waiting
  PROVE  runs = {r}
  <1>1. started <= 1
    BY DEF TypeOK
  <1>2. /\ IsFiniteSet(Waiting \ {r})
        /\ Cardinality(Waiting \ {r}) = Cardinality(Waiting) - 1
    BY Counts, FS_RemoveElement
  <1>3. Cardinality(Waiting \ {r}) \in Nat
    BY <1>2, FS_CardinalityType
  <1>4. Cardinality(Waiting \ {r}) = 0 /\ Cardinality(Taken) = 0
    BY <1>1, <1>2, <1>3, Counts
  <1>5. Waiting \ {r} = {} /\ Taken = {}
    BY <1>2, <1>4, Counts, FS_EmptySet
  <1>6. \A q \in runs : q \in Waiting
    BY <1>5 DEF RowMade, Waiting
  <1> QED
    BY <1>5, <1>6 DEF Waiting

LEMMA InitiateStep ==
  ASSUME IndInv, NEW r \in runs, InitiateAnswered(r)
  PROVE  IndInv' /\ (MaxStart = 1 /\ WholeInv => WholeInv')
  <1>1. /\ RefsOK /\ RunsOK /\ ServerOK /\ CountsOK /\ cancelling \subseteq Upload
        /\ TypeOK /\ Counted /\ RowMade /\ OneAssembly /\ ToldOnce
    BY TypeParts DEF IndInv
  <1> DEFINE u == Initiated
             s == [r EXCEPT !.up = u]
             d == Proceeds(s, u, parts)
  <1>2. /\ r.st = "initiating"
        /\ video' = [video EXCEPT ![u].upload_status = "pending"]
        /\ store' = [store EXCEPT ![u].open = TRUE]
        /\ UNCHANGED <<cancelling, started, resumed, restarts>>
        /\ \/ /\ uploadId' = u /\ UNCHANGED <<paused, parts, ctl, faults>>
              /\ Replace(r, s, u, parts) /\ status' = StatusAfter(r, u)
           \/ Fault /\ Fails(r)
    BY DEF InitiateAnswered
  <1>3. r \in Waiting /\ r \in UploadRun /\ r.todo = Part
    BY <1>1, <1>2 DEF Waiting, RunsOK, RowMade
  <1>4. u \in Upload /\ u \notin Taken
    BY <1>1, <1>3, RowIsFree
  <1> HIDE DEF u
  <1>5. s \in UploadRun /\ s.todo = Part
    BY <1>3, <1>4 DEF UploadRun
  <1> HIDE DEF s
  <1>6. Part # {}
    BY UploadBounds DEF Part
  <1>7. /\ d \in UploadRun /\ d.got = {} /\ d.st = "presigning"
        /\ d.todo \cup d.batch = Part
    <2>1. u \in {0} \cup Upload /\ parts \in Seq(Part) /\ s.todo # {}
      BY <1>1, <1>4, <1>5, <1>6 DEF RefsOK
    <2> QED
      BY ONLY <1>5, <2>1, ProceedsRun
  <1>8. runs' \subseteq (runs \ {r}) \cup {d}
    BY <1>2 DEF Replace, Fails
  <1> HIDE DEF d
  <1>9. TypeOK'
    <2>1. RefsOK' /\ faults' \in 0 .. MaxFault
      <3>1. CASE Fault /\ Fails(r)
        BY <1>1, <3>1, FailsTyped, FaultCounted
      <3>2. CASE /\ uploadId' = u /\ UNCHANGED <<paused, parts, ctl, faults>>
                 /\ status' = StatusAfter(r, u)
        BY <1>1, <1>4, <3>2 DEF RefsOK, StatusAfter, CountsOK
      <3> QED
        BY <1>2, <3>1, <3>2
    <2>2. RunsOK'
      BY <1>1, <1>7, <1>8 DEF RunsOK
    <2>3. ServerOK'
      BY <1>1, <1>2 DEF ServerOK, Video, Stored
    <2>4. CountsOK' /\ cancelling' \subseteq Upload
      BY <1>1, <1>2, <2>1 DEF CountsOK
    <2> QED
      BY <2>1, <2>2, <2>3, <2>4 DEF TypeOK, RefsOK, RunsOK, ServerOK, CountsOK
  <1>10. /\ Taken' = Taken \cup {u}
         /\ \A w \in Upload : /\ video'[w].notified = video[w].notified
                              /\ store'[w].object = store[w].object
                              /\ w # u => store'[w].open = store[w].open
    <2>1. \A w \in Upload : /\ video'[w].notified = video[w].notified
                            /\ store'[w].object = store[w].object
                            /\ w # u => store'[w].open = store[w].open
                            /\ w # u => video'[w] = video[w]
                            /\ video'[u].upload_status = "pending"
      BY <1>1, <1>2, <1>4 DEF ServerOK, Video, Stored
    <2> QED
      BY <1>4, <2>1 DEF Taken
  <1>11. Counted'
    <2>1. Waiting' \in SUBSET (Waiting \ {r})
      BY <1>7, <1>8 DEF Waiting
    <2>2. /\ IsFiniteSet(Waiting \ {r})
          /\ Cardinality(Waiting \ {r}) = Cardinality(Waiting) - 1
      BY <1>1, <1>3, Counts, FS_RemoveElement
    <2>3. IsFiniteSet(Waiting') /\ Cardinality(Waiting') <= Cardinality(Waiting) - 1
      BY <2>1, <2>2, FS_Subset
    <2>4. Cardinality(Waiting') \in Nat
      BY <2>3, FS_CardinalityType
    <2>5. Cardinality(Taken') = Cardinality(Taken) + 1
      BY <1>1, <1>4, <1>10, Counts, FS_AddElement
    <2> QED
      BY <1>1, <1>2, <2>3, <2>4, <2>5, Counts DEF Counted
  <1>12. RowMade'
    <2>1. uploadId' = uploadId \/ uploadId' = u
      BY <1>2 DEF Fails
    <2> QED
      BY <1>1, <1>7, <1>8, <1>10, <2>1 DEF RowMade
  <1>13. OneAssembly'
    <2>1. ASSUME NEW q \in runs, Assembled(q) PROVE Assembled(q)'
      <3>1. q.up \in Upload /\ q.up # u
        BY <1>4, <2>1 DEF Assembled, Taken
      <3> QED
        BY <1>10, <2>1, <3>1 DEF Assembled
    <2>2. \A q \in runs' : q.st \in {"assembled", "completed"} => q \in runs
      BY <1>7, <1>8
    <2> QED
      BY <1>1, <2>1, <2>2 DEF OneAssembly
  <1>14. ToldOnce'
    BY <1>1, <1>4, <1>10 DEF ToldOnce
  <1>15. ASSUME MaxStart = 1, WholeInv
         PROVE  Covered' /\ WholeObject' /\ NotifiedOnce'
    <2>1. WholeObject' /\ NotifiedOnce'
      BY <1>10, <1>15 DEF WholeInv, WholeObject, NotifiedOnce
    <2>2. runs' \subseteq {d}
      BY <1>1, <1>3, <1>8, <1>15, OnlyRun
    <2>3. ASSUME NEW q \in runs' PROVE CoversPart(q)'
      <3>1. q.st = "presigning" /\ q.todo \cup q.batch = Part
        BY <1>7, <2>2
      <3> QED
        BY <3>1 DEF CoversPart
    <2> QED
      BY <2>1, <2>3 DEF Covered
  <1> QED
    BY <1>9, <1>11, <1>12, <1>13, <1>14, <1>15 DEF IndInv, WholeInv

(***************************************************************************)
(* R2 assembles an upload, and the row is updated.                         *)
(***************************************************************************)

LEMMA AssembleStep ==
  ASSUME IndInv, NEW r \in runs, CompleteAssembles(r)
  PROVE  IndInv' /\ (WholeInv => WholeInv')
  <1>1. /\ RefsOK /\ RunsOK /\ ServerOK /\ CountsOK /\ cancelling \subseteq Upload
        /\ TypeOK /\ Counted /\ RowMade /\ OneAssembly /\ ToldOnce
    BY TypeParts DEF IndInv
  <1> DEFINE u == r.up
             s == [r EXCEPT !.st = "assembled"]
             object == SeqSet(r.sent)
  <1>2. /\ r.st = "completing" /\ Live(u) /\ store[u].open
        /\ store' = [store EXCEPT ![u].open = FALSE, ![u].object = object]
        /\ runs' = (runs \ {r}) \cup {s}
        /\ UNCHANGED <<refs, cancelling, video, started, resumed, faults, restarts>>
    BY DEF CompleteAssembles, Assembles
  <1>3. r \in UploadRun /\ u \in {0} \cup Upload /\ object \in SUBSET Part
    BY <1>1, RunFields, ListsParts DEF RunsOK
  <1>4. u \in Upload /\ u \in Taken
    BY <1>2, <1>3 DEF Live, Taken
  <1>5. /\ s \in UploadRun /\ s.st = "assembled" /\ s.got = r.got /\ s.batch = r.batch
        /\ s.up = u /\ s.sent = r.sent
    BY <1>3 DEF UploadRun
  <1> HIDE DEF s
  <1>6. /\ store' \in [Upload -> Stored] /\ ~store'[u].open /\ store'[u].object = object
        /\ \A w \in Upload : w # u => store'[w] = store[w]
    <2> HIDE DEF u, object
    <2> QED
      BY <1>1, <1>2, <1>3, <1>4 DEF ServerOK, Stored
  <1>7. TypeOK'
    <2>1. RunsOK'
      BY <1>1, <1>2, <1>5 DEF RunsOK
    <2>2. RefsOK' /\ ServerOK' /\ CountsOK' /\ cancelling' \subseteq Upload
      BY <1>1, <1>2, <1>6 DEF RefsOK, ServerOK, CountsOK, refs
    <2> QED
      BY <2>1, <2>2 DEF TypeOK, RefsOK, RunsOK, ServerOK, CountsOK
  <1>8. Taken' = Taken /\ video' = video /\ uploadId' = uploadId
    BY <1>2 DEF Taken, refs
  <1>9. Counted'
    <2>1. Waiting' \subseteq Waiting
      BY <1>2, <1>5 DEF Waiting
    <2> QED
      BY <1>1, <1>2, <1>8, <2>1, StillCounted
  <1>10. RowMade'
    BY <1>1, <1>2, <1>4, <1>5, <1>8 DEF RowMade
  <1>11. video[u].notified = 0
    BY <1>1, <1>2, <1>4 DEF ToldOnce
  <1>12. ASSUME NEW q \in runs, Assembled(q) PROVE Assembled(q)' /\ q.up # u
    BY <1>2, <1>4, <1>6, <1>8, <1>12 DEF Assembled, Taken
  <1>13. OneAssembly'
    <2>1. Assembled(s)'
      BY <1>4, <1>5, <1>6, <1>8, <1>11 DEF Assembled, s
    <2> QED
      BY <1>1, <1>2, <1>5, <1>12, <2>1 DEF OneAssembly
  <1>14. ToldOnce'
    BY <1>1, <1>4, <1>6, <1>8, <1>11 DEF ToldOnce
  <1>15. ASSUME WholeInv PROVE Covered' /\ WholeObject' /\ NotifiedOnce'
    <2>1. object = Part
      BY <1>2, <1>15 DEF WholeInv, Covered, CoversPart
    <2>2. ASSUME NEW q \in runs' PROVE CoversPart(q)'
      <3>1. CASE q = s
        BY <1>5, <1>6, <2>1, <3>1 DEF CoversPart
      <3>2. CASE q \in runs
        <4>1. CoversPart(q) /\ (q.st = "assembled" => q.up # u /\ q.up \in Upload)
          BY <1>1, <1>12, <1>15, <3>2 DEF WholeInv, Covered, OneAssembly, Assembled, Taken
        <4> QED
          BY <1>2, <1>6, <4>1 DEF CoversPart, refs
      <3> QED
        BY <1>2, <3>1, <3>2
    <2>3. WholeObject' /\ NotifiedOnce'
      BY <1>6, <1>8, <1>15, <2>1 DEF WholeInv, WholeObject, NotifiedOnce
    <2> QED
      BY <2>2, <2>3 DEF Covered
  <1> QED
    BY <1>7, <1>9, <1>10, <1>13, <1>14, <1>15 DEF IndInv, WholeInv

LEMMA CommitStep ==
  ASSUME IndInv, NEW r \in runs, CompleteCommits(r)
  PROVE  IndInv' /\ (WholeInv => WholeInv')
  <1>1. /\ RefsOK /\ RunsOK /\ ServerOK /\ CountsOK /\ cancelling \subseteq Upload
        /\ TypeOK /\ Counted /\ RowMade /\ OneAssembly /\ ToldOnce
    BY TypeParts DEF IndInv
  <1> DEFINE u == r.up
             s == [r EXCEPT !.st = "completed"]
  <1>2. /\ r.st = "assembled"
        /\ video' = [video EXCEPT ![u].upload_status = "completed", ![u].notified = @ + 1]
        /\ runs' = (runs \ {r}) \cup {s}
        /\ UNCHANGED <<refs, cancelling, store, started, resumed, faults, restarts>>
    BY DEF CompleteCommits
  <1>3. r \in UploadRun /\ Assembled(r)
    BY <1>1, <1>2 DEF RunsOK, OneAssembly
  <1>4. u \in Upload /\ u \in Taken /\ ~store[u].open /\ video[u].notified = 0
    BY <1>2, <1>3 DEF Assembled, Taken
  <1>5. /\ s \in UploadRun /\ s.st = "completed" /\ s.got = r.got /\ s.batch = r.batch
        /\ s.up = u /\ s.sent = r.sent
    BY <1>3 DEF UploadRun
  <1> HIDE DEF s
  <1>6. /\ video' \in [Upload -> Video] /\ video'[u].upload_status = "completed"
        /\ video'[u].notified = 1 /\ \A w \in Upload : w # u => video'[w] = video[w]
    <2> HIDE DEF u
    <2> QED
      BY <1>1, <1>2, <1>4 DEF ServerOK, Video
  <1>7. TypeOK'
    <2>1. RunsOK'
      BY <1>1, <1>2, <1>5 DEF RunsOK
    <2>2. RefsOK' /\ ServerOK' /\ CountsOK' /\ cancelling' \subseteq Upload
      BY <1>1, <1>2, <1>6 DEF RefsOK, ServerOK, CountsOK, refs
    <2> QED
      BY <2>1, <2>2 DEF TypeOK, RefsOK, RunsOK, ServerOK, CountsOK
  <1>8. Taken' = Taken /\ store' = store /\ uploadId' = uploadId
    BY <1>2, <1>4, <1>6 DEF Taken, refs
  <1>9. Counted'
    <2>1. Waiting' \subseteq Waiting
      BY <1>2, <1>5 DEF Waiting
    <2> QED
      BY <1>1, <1>2, <1>8, <2>1, StillCounted
  <1>10. RowMade'
    BY <1>1, <1>2, <1>4, <1>5, <1>8 DEF RowMade
  <1>11. ASSUME NEW q \in runs, q # r, q.st \in {"assembled", "completed"}
         PROVE  Assembled(q)'
    <2>1. Assembled(q) /\ (q.st = "assembled" => q.up # u)
      BY <1>1, <1>2, <1>11 DEF OneAssembly
    <2> QED
      BY <1>6, <1>8, <2>1 DEF Assembled, Taken
  <1>12. OneAssembly'
    <2>1. s.up \in Taken' /\ ~store'[s.up].open
      BY <1>4, <1>5, <1>8
    <2>2. \A q \in runs' : q.st \in {"assembled", "completed"} => Assembled(q)'
      BY <1>2, <1>5, <1>11, <2>1 DEF Assembled
    <2> QED
      BY <1>1, <1>2, <1>5, <2>2 DEF OneAssembly
  <1>13. ToldOnce'
    BY <1>1, <1>4, <1>6, <1>8 DEF ToldOnce
  <1>14. ASSUME WholeInv PROVE Covered' /\ WholeObject' /\ NotifiedOnce'
    <2>1. SeqSet(r.sent) = Part /\ store[u].object = Part
      BY <1>2, <1>14 DEF WholeInv, Covered, CoversPart
    <2>2. ASSUME NEW q \in runs' PROVE CoversPart(q)'
      <3>1. CASE q = s
        BY <1>5, <2>1, <3>1 DEF CoversPart
      <3>2. CASE q \in runs
        BY <1>2, <1>8, <1>14, <3>2 DEF WholeInv, Covered, CoversPart, refs
      <3> QED
        BY <1>2, <3>1, <3>2
    <2>3. WholeObject' /\ NotifiedOnce'
      BY <1>6, <1>8, <1>14, <2>1 DEF WholeInv, WholeObject, NotifiedOnce
    <2> QED
      BY <2>2, <2>3 DEF Covered
  <1> QED
    BY <1>7, <1>9, <1>10, <1>12, <1>13, <1>14 DEF IndInv, WholeInv

(***************************************************************************)
(* The theorems.                                                           *)
(***************************************************************************)

LEMMA InitInv ==
  ASSUME Init
  PROVE  WholeInv
  <1>1. \A u \in Upload : video[u] = NoRow /\ store[u] = [open |-> FALSE, parts |-> {}, object |-> {}]
    BY DEF Init
  <1>2. TypeOK
    <2>1. NoRow \in Video /\ [open |-> FALSE, parts |-> {}, object |-> {}] \in Stored
      BY DEF NoRow, Video, Stored
    <2>2. video \in [Upload -> Video] /\ store \in [Upload -> Stored]
      BY <2>1 DEF Init
    <2>3. parts \in Seq(Part) /\ runs = {}
      BY SeqEmpty DEF Init
    <2>4. /\ started \in 0 .. MaxStart /\ resumed \in 0 .. MaxResume
          /\ faults \in 0 .. MaxFault /\ restarts \in 0 .. MaxRestart
      BY UploadBounds DEF Init
    <2>5. /\ status = "idle" /\ paused = FALSE /\ uploadId = 0 /\ ctl = 0
          /\ cancelling = {}
      BY DEF Init
    <2> QED
      BY <2>2, <2>3, <2>4, <2>5 DEF TypeOK
  <1>3. Taken = {} /\ Waiting = {}
    BY <1>1 DEF Taken, Waiting, Init, NoRow
  <1>4. Counted
    BY <1>3, FS_EmptySet DEF Counted, Init
  <1>5. RowMade /\ OneAssembly /\ Covered
    BY DEF RowMade, OneAssembly, Covered, Init
  <1>6. ToldOnce /\ WholeObject /\ NotifiedOnce
    BY <1>1 DEF ToldOnce, WholeObject, NotifiedOnce, NoRow
  <1> QED
    BY <1>2, <1>4, <1>5, <1>6 DEF WholeInv, IndInv

LEMMA AnswerStep ==
  ASSUME IndInv, NEW r \in runs, Answer(r)
  PROVE  IndInv' /\ (MaxStart = 1 /\ WholeInv => WholeInv')
  <1>1. CASE InitiateAnswered(r)
    BY <1>1, InitiateStep
  <1>2. CASE InitiateFails(r) \/ PresignFails(r) \/ PutFails(r) \/ CompleteFails(r)
    BY <1>2, FailStep
  <1>3. CASE PresignAnswered(r)
    BY <1>3, PresignStep
  <1>4. CASE \E p \in Part : PartPut(r, p)
    BY <1>4, PartPutStep
  <1>5. CASE CompleteAssembles(r)
    BY <1>5, AssembleStep
  <1>6. CASE CompleteCommits(r)
    BY <1>6, CommitStep
  <1>7. CASE CompleteAnswered(r)
    BY <1>7, CompleteAnsweredStep
  <1> QED
    BY <1>1, <1>2, <1>3, <1>4, <1>5, <1>6, <1>7 DEF Answer

LEMMA Step ==
  ASSUME IndInv, [Next]_vars
  PROVE  IndInv' /\ (MaxStart = 1 /\ WholeInv => WholeInv')
  <1>1. CASE Start
    BY <1>1, StartStep
  <1>2. CASE Pause
    BY <1>2, PauseStep
  <1>3. CASE Resume
    BY <1>3, ResumeStep
  <1>4. CASE Cancel
    BY <1>4, CancelStep
  <1>5. CASE \E r \in runs : Answer(r)
    BY <1>5, AnswerStep
  <1>6. CASE \E u \in cancelling : DeleteAnswered(u) \/ DeleteLost(u)
    BY <1>6, DeleteStep
  <1>7. CASE \E old \in SUBSET Upload : DataFix(old)
    BY <1>7, DataFixStep
  <1>8. CASE UNCHANGED vars
    <2>1. TypeOK'
      BY <1>8 DEF IndInv, TypeOK, vars, refs, server
    <2>2. Calm /\ Drops
      BY <1>8, ServerCalm DEF Drops, vars, refs
    <2> QED
      BY <2>1, <2>2, DropStep
  <1> QED
    BY <1>1, <1>2, <1>3, <1>4, <1>5, <1>6, <1>7, <1>8 DEF Next

\* However uploads are started, paused, resumed and cancelled, IndInv holds.
THEOREM Invariance == Spec => []IndInv
  <1>1. Init => IndInv
    BY InitInv DEF WholeInv
  <1>2. IndInv /\ [Next]_vars => IndInv'
    BY Step
  <1> QED
    BY <1>1, <1>2, PTL DEF Spec

\* A page that starts one upload: what its runs know of the parts, too.
THEOREM WholeInvariance ==
  ASSUME MaxStart = 1
  PROVE  Spec => []WholeInv
  <1>1. Init => WholeInv
    BY InitInv
  <1>2. WholeInv /\ [Next]_vars => WholeInv'
    BY Step DEF WholeInv
  <1> QED
    BY <1>1, <1>2, PTL DEF Spec

\* Every variable keeps its type; above all there is a free row for every
\* run whose first request is out.
THEOREM TypeCorrect == Spec => []TypeOK
  <1>1. IndInv => TypeOK
    BY DEF IndInv
  <1> QED
    BY <1>1, Invariance, PTL

\* The students hear of a video at most once, of however many starts.
THEOREM ToldAtMostOnce == Spec => []ToldOnce
  <1>1. IndInv => ToldOnce
    BY DEF IndInv
  <1> QED
    BY <1>1, Invariance, PTL

\* A page that starts one upload, of whatever file, and pauses, resumes and
\* cancels it as often as it likes: R2 assembles the whole file or nothing.
THEOREM AllPartsAssembled ==
  ASSUME MaxStart = 1
  PROVE  Spec => []WholeObject
  <1>1. WholeInv => WholeObject
    BY DEF WholeInv
  <1> QED
    BY <1>1, WholeInvariance, PTL

\* Of such a page the students hear once, and only of a video that is stored.
THEOREM ToldOfStored ==
  ASSUME MaxStart = 1
  PROVE  Spec => []NotifiedOnce
  <1>1. WholeInv => NotifiedOnce
    BY DEF WholeInv
  <1> QED
    BY <1>1, WholeInvariance, PTL

=============================================================================
