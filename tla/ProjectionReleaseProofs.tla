---------------------- MODULE ProjectionReleaseProofs ----------------------
(* Whatever refreshes, selections and prunes overlap or crash, the pointer *)
(* names a complete release, and first-live instants are fixed.            *)
EXTENDS MCReleaseContents, Sequences, WellFoundedInduction, FiniteSetTheorems, TLAPS

(* Builds are stamped when they start, and a release that is inside its    *)
(* insert is not stored; no two inserts of one release overlap.            *)
Stamped ==
    \A r \in Refreshers :
      ~At(r, "idle") => job[r].stamp \in 1 .. clock

Inserting ==
    /\ \A r \in Refreshers :
         At(r, "reference") => activatedAt[job[r].candidate] = None
    /\ \A q, r \in Refreshers :
         q # r /\ At(q, "reference") /\ At(r, "reference") =>
           job[q].candidate # job[r].candidate

(* Instants lie in the past, and an open prune spares the pointer.         *)
Past ==
    /\ \A c \in Roots : IsStored(c) => activatedAt[c] <= clock
    /\ liveSince <= clock

Spared == prune \in {"rows", "commit"} => pointer \notin doomed

PointerInv ==
    /\ TypeOK
    /\ Stamped
    /\ Inserting
    /\ Past
    /\ Spared
    /\ PointerServable
    /\ SourcesPresent

-----------------------------------------------------------------------------
LEMMA PointerInit == ASSUME Init PROVE PointerInv
<1>1. TypeOK
  BY BoundsAssumption DEF Init, TypeOK, NoJob, Job, Stages, Times, At
<1>2. Stamped /\ Inserting /\ Spared
  BY DEF Init, Stamped, Inserting, Spared, At, NoJob
<1>3. Past /\ PointerServable /\ SourcesPresent
  BY DEF Init, Past, IsStored, PointerServable, SourcesPresent
<1> QED BY <1>1, <1>2, <1>3 DEF PointerInv

(* What a refresh that writes no table does to its own run.                *)
JobStep(r) ==
    /\ \E j \in Job :
         /\ job' = [job EXCEPT ![r] = j]
         /\ \/ j.stage = "idle"
            \/ /\ ~At(r, "idle")
               /\ j.candidate = job[r].candidate /\ j.stamp = job[r].stamp
               /\ \/ j.stage # "reference"
                  \/ /\ j.stage = "reference"
                     /\ ~IsStored(j.candidate)
                     /\ \A q \in Refreshers \ {r} :
                          At(q, "reference") => job[q].candidate # j.candidate
    /\ UNCHANGED <<stored, current, clock, pruning, selects, prunes>>

LEMMA JobStepKeeps ==
    ASSUME PointerInv, NEW r \in Refreshers, JobStep(r)
    PROVE  PointerInv'
<1> USE DEF PointerInv
<1>1. PICK j \in Job :
        /\ job' = [job EXCEPT ![r] = j]
        /\ \/ j.stage = "idle"
           \/ /\ ~At(r, "idle")
              /\ j.candidate = job[r].candidate /\ j.stamp = job[r].stamp
              /\ \/ j.stage # "reference"
                 \/ /\ j.stage = "reference"
                    /\ ~IsStored(j.candidate)
                    /\ \A q \in Refreshers \ {r} :
                         At(q, "reference") => job[q].candidate # j.candidate
  BY DEF JobStep
<1>2. UNCHANGED <<activatedAt, shared, pointer, liveSince, confirmedAt, clock,
                  prune, doomed, doomedRows, selects, prunes>>
  BY DEF JobStep, stored, current, pruning
<1>3. job' \in [Refreshers -> Job]
  BY <1>1 DEF TypeOK
<1>4. /\ job'[r] = j
      /\ \A q \in Refreshers \ {r} : job'[q] = job[q]
  BY <1>1 DEF TypeOK
<1>5. TypeOK'
  BY <1>1, <1>2, <1>3, <1>4 DEF TypeOK, At
<1>6. Stamped'
  BY <1>1, <1>2, <1>4 DEF Stamped, At
<1>7. Inserting'
  BY <1>1, <1>2, <1>4 DEF Inserting, At, IsStored
<1>8. Past' /\ Spared' /\ PointerServable' /\ SourcesPresent'
  BY <1>2 DEF Past, Spared, PointerServable, SourcesPresent, IsStored, WasLive
<1> QED BY <1>5, <1>6, <1>7, <1>8

(* The actions of a refresh that only move its own run on.                 *)
LEMMA ReadingKeeps ==
    ASSUME PointerInv, NEW r \in Refreshers,
           \/ ReadCurrent(r) \/ CheckStored(r) \/ VerifyRows(r)
           \/ ReadActivated(r) \/ CompareCorpus(r) \/ RefreshCrash(r)
    PROVE  PointerInv'
<1>1. job[r] \in Job /\ job \in [Refreshers -> Job] /\ NoJob \in Job
  BY BoundsAssumption DEF PointerInv, TypeOK, Job, NoJob, Stages, Times
<1>2. \A stage \in Stages :
        [job EXCEPT ![r].stage = stage]
          = [job EXCEPT ![r] = [job[r] EXCEPT !.stage = stage]]
  BY <1>1
<1>3. ASSUME NEW stage \in Stages \ {"reference"}, Goto(r, stage),
             ~At(r, "idle"),
             UNCHANGED <<stored, current, clock, pruning, selects, prunes>>
      PROVE  PointerInv'
  <2> DEFINE j == [job[r] EXCEPT !.stage = stage]
  <2>1. /\ j \in Job /\ j.stage = stage
        /\ j.candidate = job[r].candidate /\ j.stamp = job[r].stamp
    BY <1>1 DEF Job
  <2>2. job' = [job EXCEPT ![r] = j]
    BY <1>2, <1>3 DEF Goto
  <2> HIDE DEF j
  <2> QED BY <1>3, <2>1, <2>2, JobStepKeeps DEF JobStep
<1>4. ASSUME Stop(r),
             UNCHANGED <<stored, current, clock, pruning, selects, prunes>>
      PROVE  PointerInv'
  BY <1>1, <1>4, JobStepKeeps DEF Stop, JobStep, NoJob
<1>5. ASSUME ReadCurrent(r) PROVE PointerInv'
  <2> DEFINE stage == IF pointer = job[r].candidate THEN "confirm" ELSE "stored"
             j == [job[r] EXCEPT !.expected = pointer, !.stage = stage]
  <2>1. /\ j \in Job /\ j.stage # "reference"
        /\ j.candidate = job[r].candidate /\ j.stamp = job[r].stamp
    BY <1>1 DEF Job, Stages, PointerInv, TypeOK
  <2>2. job' = [job EXCEPT ![r] = j]
    BY <1>1, <1>5 DEF ReadCurrent
  <2>3. ~At(r, "idle")
    BY <1>5 DEF ReadCurrent, At
  <2> HIDE DEF j
  <2> QED BY <1>5, <2>1, <2>2, <2>3, JobStepKeeps DEF JobStep, ReadCurrent, Elsewhere
<1>6. ASSUME ReadActivated(r) PROVE PointerInv'
  <2> DEFINE stage == IF pointer \in {None, job[r].candidate}
                      THEN "activate" ELSE "compare"
             j == [job[r] EXCEPT !.base = pointer, !.stage = stage]
  <2>1. /\ j \in Job /\ j.stage # "reference"
        /\ j.candidate = job[r].candidate /\ j.stamp = job[r].stamp
    BY <1>1 DEF Job, Stages, PointerInv, TypeOK
  <2>2. job' = [job EXCEPT ![r] = j]
    BY <1>1, <1>6 DEF ReadActivated
  <2>3. ~At(r, "idle")
    BY <1>6 DEF ReadActivated, At
  <2> HIDE DEF j
  <2> QED BY <1>6, <2>1, <2>2, <2>3, JobStepKeeps DEF JobStep, ReadActivated, Elsewhere
<1>7. CASE CheckStored(r)
  BY <1>3, <1>7 DEF CheckStored, Elsewhere, At, Stages
<1>8. CASE VerifyRows(r)
  BY <1>3, <1>4, <1>8 DEF VerifyRows, Elsewhere, At, Stages
<1>9. CASE CompareCorpus(r)
  BY <1>3, <1>4, <1>9 DEF CompareCorpus, Elsewhere, At, Stages
<1>10. CASE RefreshCrash(r)
  BY <1>4, <1>10 DEF RefreshCrash, Elsewhere
<1> QED BY <1>5, <1>6, <1>7, <1>8, <1>9, <1>10

LEMMA BuildKeeps ==
    ASSUME PointerInv, NEW r \in Refreshers, Build(r)
    PROVE  PointerInv'
<1> USE DEF PointerInv
<1>1. PICK c \in Roots, o \in BOOLEAN :
        job' = [job EXCEPT ![r] = [NoJob EXCEPT !.stage = "read",
                                               !.candidate = c,
                                               !.stamp = clock + 1,
                                               !.override = o]]
  BY DEF Build
<1> DEFINE j == [NoJob EXCEPT !.stage = "read", !.candidate = c,
                              !.stamp = clock + 1, !.override = o]
<1>2. /\ clock \in Nat /\ clock' = clock + 1 /\ clock + 1 \in Times
      /\ clock + 1 \in 1 .. clock'
  BY BoundsAssumption DEF Build, TypeOK, Times
<1>3. /\ j \in Job /\ j.stage = "read" /\ j.candidate = c
      /\ j.stamp = clock + 1
  BY <1>2 DEF NoJob, Job, Stages
<1>4. job'[r] = j /\ \A q \in Refreshers \ {r} : job'[q] = job[q]
  BY <1>1 DEF TypeOK
<1>5. job' \in [Refreshers -> Job]
  BY <1>1, <1>3 DEF TypeOK
<1>6. UNCHANGED <<activatedAt, shared, pointer, liveSince, confirmedAt,
                  prune, doomed, doomedRows, selects, prunes>>
  BY DEF Build, stored, current, pruning
<1> HIDE DEF j
<1>7. TypeOK'
  BY <1>2, <1>3, <1>4, <1>5, <1>6 DEF TypeOK, At
<1>8. \A q \in Refreshers : job[q].stamp \in 1 .. clock =>
                              job[q].stamp \in 1 .. clock'
  BY <1>2 DEF TypeOK, Job, Times
<1>9. Stamped'
  BY <1>2, <1>3, <1>4, <1>8 DEF Stamped, At
<1>10. Inserting'
  BY <1>3, <1>4, <1>6 DEF Inserting, At
<1>11. Past'
  BY <1>2, <1>6, BoundsAssumption DEF Past, IsStored, TypeOK, Times
<1>12. Spared' /\ PointerServable' /\ SourcesPresent'
  BY <1>6 DEF Spared, PointerServable, SourcesPresent, IsStored, WasLive
<1> QED BY <1>7, <1>9, <1>10, <1>11, <1>12

LEMMA ConfirmKeeps ==
    ASSUME PointerInv, NEW r \in Refreshers, Confirm(r)
    PROVE  PointerInv'
<1> USE DEF PointerInv
<1>1. job' \in [Refreshers -> Job] /\ job' = [job EXCEPT ![r] = NoJob]
  BY BoundsAssumption DEF Confirm, Stop, TypeOK, NoJob, Job, Stages, Times
<1>2. At(r, "idle")' /\ \A q \in Refreshers \ {r} : job'[q] = job[q]
  BY <1>1 DEF TypeOK, At, NoJob
<1>3. /\ confirmedAt' \in {confirmedAt, clock}
      /\ UNCHANGED <<activatedAt, shared, pointer, liveSince, clock, prune,
                     doomed, doomedRows, selects, prunes>>
  BY DEF Confirm, stored, pruning
<1>4. TypeOK'
  BY <1>1, <1>2, <1>3 DEF TypeOK, At
<1>5. Stamped' /\ Inserting'
  BY <1>2, <1>3 DEF Stamped, Inserting, At
<1>6. Past' /\ Spared' /\ SourcesPresent'
  BY <1>3 DEF Past, Spared, SourcesPresent, IsStored
<1>7. PointerServable'
  BY <1>3 DEF Past, PointerServable, IsStored, WasLive
<1> QED BY <1>4, <1>5, <1>6, <1>7

(* The insert reserves the release: it is not stored, and nobody else is   *)
(* inserting it.                                                           *)
LEMMA InsertReleaseKeeps ==
    ASSUME PointerInv, NEW r \in Refreshers, InsertRelease(r)
    PROVE  PointerInv'
<1> DEFINE c == job[r].candidate
           own == Uses[c] \ shared
           j == [job[r] EXCEPT !.own = own, !.stage = "reference"]
<1>1. job[r] \in Job /\ ~At(r, "idle") /\ c \in Roots
  BY DEF PointerInv, TypeOK, InsertRelease, At
<1>2. j \in Job /\ j.stage = "reference" /\ j.candidate = c
      /\ j.stamp = job[r].stamp
  <2>1. own \in SUBSET Shared
    BY <1>1, UsesAssumption
  <2> HIDE DEF own
  <2> QED BY <1>1, <2>1 DEF Job, Stages
<1>3. CASE Stop(r)
  <2>1. NoJob \in Job /\ NoJob.stage = "idle"
    BY BoundsAssumption DEF NoJob, Job, Stages, Times
  <2> QED BY <1>3, <2>1, JobStepKeeps DEF InsertRelease, Elsewhere, Stop, JobStep
<1>4. CASE ~IsStored(c) /\ job' = [job EXCEPT ![r] = j]
  <2>1. \A q \in Refreshers \ {r} : At(q, "reference") => job[q].candidate # c
    BY DEF InsertRelease
  <2>2. UNCHANGED <<stored, current, clock, pruning, selects, prunes>>
    BY DEF InsertRelease, Elsewhere
  <2> HIDE DEF j
  <2>3. JobStep(r)
    BY <1>1, <1>2, <1>4, <2>1, <2>2 DEF JobStep
  <2> QED BY <2>3, JobStepKeeps
<1>5. ~IsStored(c) => job' = [job EXCEPT ![r] = j] \/ Stop(r)
  BY DEF InsertRelease, PointerInv, TypeOK
<1> QED BY <1>3, <1>4, <1>5 DEF InsertRelease

(* The commit of an insert stores its release with every row it names.     *)
LEMMA InsertReferencesKeeps ==
    ASSUME PointerInv, NEW r \in Refreshers, InsertReferences(r)
    PROVE  PointerInv'
<1> USE DEF PointerInv
<1> DEFINE c == job[r].candidate
           j == [job[r] EXCEPT !.own = {}, !.stage = "verify"]
<1>1. job[r] \in Job /\ At(r, "reference") /\ c \in Roots
  BY DEF TypeOK, InsertReferences, At
<1>2. CASE ~Referenced(r)
  <2>1. NoJob \in Job /\ NoJob.stage = "idle"
    BY BoundsAssumption DEF NoJob, Job, Stages, Times
  <2> QED BY <1>2, <2>1, JobStepKeeps
          DEF InsertReferences, Elsewhere, Stop, JobStep
<1>3. CASE Referenced(r)
  <2>1. /\ activatedAt' = [activatedAt EXCEPT ![c] = 0]
        /\ shared' = shared \cup job[r].own
        /\ job' = [job EXCEPT ![r] = j]
        /\ UNCHANGED <<pointer, liveSince, confirmedAt, clock, prune, doomed,
                       doomedRows, selects, prunes>>
    BY <1>3 DEF InsertReferences, Elsewhere, current, pruning, TypeOK
  <2>2. /\ j \in Job /\ j.stage = "verify" /\ j.candidate = c
        /\ j.stamp = job[r].stamp
    BY <1>1 DEF Job, Stages
  <2>3. job[r].own \subseteq Shared
    BY <1>1 DEF Job
  <2> HIDE DEF j
  <2>4. job' \in [Refreshers -> Job] /\ job'[r] = j
        /\ \A q \in Refreshers \ {r} : job'[q] = job[q]
    BY <2>1, <2>2 DEF TypeOK
  <2>5. /\ activatedAt' \in [Roots -> Times \cup {None}]
        /\ activatedAt[c] = None /\ activatedAt'[c] = 0
        /\ \A d \in Roots \ {c} : activatedAt'[d] = activatedAt[d]
    BY <1>1, <2>1, BoundsAssumption DEF TypeOK, Times, Inserting
  <2>6. TypeOK'
    BY <1>1, <2>1, <2>2, <2>3, <2>4, <2>5 DEF TypeOK, At
  <2>7. Stamped'
    BY <1>1, <2>1, <2>2, <2>4 DEF Stamped, At
  <2>8. Inserting'
    BY <1>1, <2>2, <2>4, <2>5 DEF Inserting, At, TypeOK
  <2>9. Past'
    BY <2>1, <2>5 DEF Past, IsStored, TypeOK, Times
  <2>10. Spared'
    BY <2>1 DEF Spared
  <2>11. PointerServable'
    BY <2>1, <2>5 DEF PointerServable, WasLive, IsStored, TypeOK
  <2>12. SourcesPresent'
    BY <1>3, <2>1, <2>5 DEF SourcesPresent, IsStored, Referenced
  <2> QED BY <2>6, <2>7, <2>8, <2>9, <2>10, <2>11, <2>12
<1> QED BY <1>2, <1>3

(* Pointing at a stored release with an instant in the past.               *)
LEMMA PointKeeps ==
    ASSUME PointerInv, NEW c \in Roots, NEW at \in Nat, at \in 1 .. clock,
           IsStored(c), ~Locked(c), PointTo(c, at),
           activatedAt' = [activatedAt EXCEPT ![c] = at],
           job' \in [Refreshers -> Job],
           \A r \in Refreshers : job'[r] = job[r] \/ job'[r].stage = "idle",
           UNCHANGED <<shared, clock, prune, doomed, doomedRows>>,
           selects' \in 0 .. MaxSelects, prunes' \in 0 .. MaxPrunes
    PROVE  PointerInv'
<1> USE DEF PointerInv
<1>1. pointer' = c /\ liveSince' = at /\ confirmedAt' = clock
  BY DEF PointTo
<1>2. clock \in Times /\ at \in Times /\ at # 0 /\ at # None /\ at <= clock
  BY BoundsAssumption, NoneAssumption DEF TypeOK, Times
<1>3. /\ activatedAt' \in [Roots -> Times \cup {None}] /\ activatedAt'[c] = at
      /\ \A d \in Roots \ {c} : activatedAt'[d] = activatedAt[d]
  BY <1>2 DEF TypeOK
<1>4. TypeOK'
  BY <1>1, <1>2, <1>3 DEF TypeOK, At
<1>5. Stamped'
  BY DEF Stamped, At
<1>6. Inserting'
  BY <1>3 DEF Inserting, At, IsStored, TypeOK
<1>7. Past'
  BY <1>1, <1>2, <1>3 DEF Past, IsStored
<1>8. Spared'
  BY <1>1 DEF Spared, Locked
<1>9. PointerServable'
  BY <1>1, <1>2, <1>3 DEF PointerServable, WasLive, IsStored
<1>10. SourcesPresent'
  BY <1>3 DEF SourcesPresent, IsStored
<1> QED BY <1>4, <1>5, <1>6, <1>7, <1>8, <1>9, <1>10

LEMMA ActivateKeeps ==
    ASSUME PointerInv, NEW r \in Refreshers, Activate(r)
    PROVE  PointerInv'
<1> DEFINE c == job[r].candidate
           at == FirstLive(c, job[r].stamp)
<1>1. NoJob \in Job /\ NoJob.stage = "idle"
  BY BoundsAssumption DEF NoJob, Job, Stages, Times
<1>2. CASE ~MayActivate(r)
  BY <1>1, <1>2, JobStepKeeps
     DEF Activate, Stop, JobStep, stored, current, pruning
<1>3. CASE MayActivate(r)
  <2>1. c \in Roots /\ job[r].stamp \in 1 .. clock /\ ~At(r, "idle")
    BY DEF Activate, At, PointerInv, TypeOK, Stamped
  <2>2. IsStored(c) /\ ~Locked(c)
    BY <1>3 DEF Activate, MayActivate
  <2>3. at \in 1 .. clock
    BY <2>1, <2>2, NoneAssumption
       DEF FirstLive, WasLive, IsStored, PointerInv, Past, TypeOK, Times
  <2>4. /\ PointTo(c, at) /\ activatedAt' = [activatedAt EXCEPT ![c] = at]
        /\ UNCHANGED <<shared, clock, prune, doomed, doomedRows>>
        /\ selects' = selects /\ prunes' = prunes
        /\ job' = [job EXCEPT ![r] = NoJob]
    BY <1>3 DEF Activate, Stop, pruning
  <2>5. /\ job' \in [Refreshers -> Job]
        /\ \A q \in Refreshers : job'[q] = job[q] \/ job'[q].stage = "idle"
    BY <1>1, <2>4 DEF PointerInv, TypeOK
  <2>6. selects' \in 0 .. MaxSelects /\ prunes' \in 0 .. MaxPrunes /\ at \in Nat
    BY <2>3, <2>4 DEF PointerInv, TypeOK, Times
  <2> HIDE DEF at, c
  <2> QED BY <2>1, <2>2, <2>3, <2>4, <2>5, <2>6, PointKeeps
<1> QED BY <1>2, <1>3

LEMMA SelectKeeps ==
    ASSUME PointerInv, NEW c \in Roots, Select(c)
    PROVE  PointerInv'
<1> DEFINE at == activatedAt[c]
<1>1. IsStored(c) /\ ~Locked(c) /\ PointTo(c, at)
  BY DEF Select, Selectable, WasLive
<1>2. at \in 1 .. clock /\ at \in Nat
  BY NoneAssumption DEF Select, Selectable, WasLive, IsStored, PointerInv, Past,
                        TypeOK, Times
<1>3. activatedAt' = [activatedAt EXCEPT ![c] = at]
  BY DEF Select, stored, PointerInv, TypeOK
<1>4. /\ job' \in [Refreshers -> Job]
      /\ \A r \in Refreshers : job'[r] = job[r] \/ job'[r].stage = "idle"
      /\ UNCHANGED <<shared, clock, prune, doomed, doomedRows>>
  BY DEF Select, stored, pruning, PointerInv, TypeOK
<1>5. selects' \in 0 .. MaxSelects /\ prunes' \in 0 .. MaxPrunes
  BY BoundsAssumption DEF Select, PointerInv, TypeOK
<1> HIDE DEF at
<1> QED BY <1>1, <1>2, <1>3, <1>4, <1>5, PointKeeps

(* A prune that writes nothing: it may only start, stop or pass the        *)
(* pointer's foreign key.                                                  *)
LEMMA PruningKeeps ==
    ASSUME PointerInv,
           UNCHANGED <<activatedAt, shared, pointer, liveSince, confirmedAt,
                       clock, job, selects>>,
           prunes' \in 0 .. MaxPrunes,
           prune' \in {"idle", "delete", "rows", "commit"},
           doomed' \subseteq Roots, doomedRows' \subseteq Shared,
           prune' \in {"rows", "commit"} => pointer \notin doomed'
    PROVE  PointerInv'
<1> USE DEF PointerInv
<1>1. TypeOK'
  BY DEF TypeOK, At
<1>2. Stamped' /\ Inserting' /\ Past'
  BY DEF Stamped, Inserting, Past, At, IsStored
<1>3. Spared' /\ PointerServable' /\ SourcesPresent'
  BY DEF Spared, PointerServable, SourcesPresent, WasLive, IsStored
<1> QED BY <1>1, <1>2, <1>3

LEMMA PruneKeeps ==
    ASSUME PointerInv, Prune
    PROVE  PointerInv'
<1> USE DEF PointerInv
<1>1. CASE PruneSnapshot
  <2>1. /\ UNCHANGED <<activatedAt, shared, pointer, liveSince, confirmedAt,
                       clock, job, selects>>
        /\ prune' = "delete" /\ doomed' \subseteq Roots
        /\ doomedRows' \subseteq Shared
    BY <1>1 DEF PruneSnapshot, stored, current, TypeOK
  <2>2. prunes' \in 0 .. MaxPrunes
    BY <1>1, BoundsAssumption DEF PruneSnapshot, TypeOK
  <2> QED BY <2>1, <2>2, PruningKeeps
<1>2. CASE PruneDelete
  <2>1. /\ UNCHANGED <<activatedAt, shared, pointer, liveSince, confirmedAt,
                       clock, job, selects, prunes>>
        /\ prune' \in {"idle", "rows"} /\ doomed' \subseteq Roots
        /\ doomedRows' \subseteq Shared
        /\ prune' = "rows" => pointer \notin doomed'
    BY <1>2 DEF PruneDelete, PruneStop, PointerFree, stored, current, TypeOK
  <2>2. prunes' \in 0 .. MaxPrunes
    BY <2>1 DEF TypeOK
  <2> QED BY <2>1, <2>2, PruningKeeps
<1>3. CASE PruneRows
  <2>1. /\ UNCHANGED <<activatedAt, shared, pointer, liveSince, confirmedAt,
                       clock, job, selects, prunes, doomed>>
        /\ prune' = "commit" /\ doomedRows' \subseteq Shared
        /\ pointer \notin doomed
    BY <1>3 DEF PruneRows, stored, current, TypeOK, Spared
  <2>2. prunes' \in 0 .. MaxPrunes /\ doomed' \subseteq Roots
    BY <2>1 DEF TypeOK
  <2> QED BY <2>1, <2>2, PruningKeeps
<1>4. CASE PruneCrash
  <2>1. /\ UNCHANGED <<activatedAt, shared, pointer, liveSince, confirmedAt,
                       clock, job, selects, prunes>>
        /\ prune' = "idle" /\ doomed' = {} /\ doomedRows' = {}
    BY <1>4 DEF PruneCrash, PruneStop, stored, current
  <2>2. prunes' \in 0 .. MaxPrunes
    BY <2>1 DEF TypeOK
  <2> QED BY <2>1, <2>2, PruningKeeps
<1>5. CASE PruneCommit
  <2>1. /\ UNCHANGED <<pointer, liveSince, confirmedAt, clock, job, selects,
                       prunes>>
        /\ prune' = "idle" /\ doomed' = {} /\ doomedRows' = {}
        /\ pointer \notin doomed
    BY <1>5 DEF PruneCommit, PruneStop, current, Spared
  <2>2. CASE UNCHANGED stored
    <3>1. prunes' \in 0 .. MaxPrunes
      BY <2>1 DEF TypeOK
    <3> QED BY <2>1, <2>2, <3>1, PruningKeeps DEF stored
  <2>3. CASE /\ \A c \in Remaining : Uses[c] \cap doomedRows = {}
             /\ activatedAt' = [c \in Roots |-> IF c \in doomed THEN None
                                                ELSE activatedAt[c]]
             /\ shared' = shared \ doomedRows
    <3>1. /\ activatedAt' \in [Roots -> Times \cup {None}]
          /\ \A c \in Roots : \/ activatedAt'[c] = activatedAt[c] /\ c \notin doomed
                              \/ activatedAt'[c] = None /\ c \in doomed
      BY <2>3 DEF TypeOK
    <3>2. TypeOK'
      BY <2>1, <2>3, <3>1 DEF TypeOK, At
    <3>3. Stamped' /\ Inserting'
      BY <2>1, <3>1 DEF Stamped, Inserting, At, TypeOK
    <3>4. Past' /\ Spared'
      BY <2>1, <3>1 DEF Past, Spared, IsStored
    <3>5. PointerServable'
      BY <2>1, <3>1 DEF PointerServable, WasLive, IsStored, TypeOK
    <3>6. SourcesPresent'
      BY <2>3, <3>1 DEF SourcesPresent, IsStored, Remaining
    <3> QED BY <3>2, <3>3, <3>4, <3>5, <3>6
  <2> QED BY <1>5, <2>2, <2>3 DEF PruneCommit
<1> QED BY <1>1, <1>2, <1>3, <1>4, <1>5 DEF Prune

LEMMA PointerStep == PointerInv /\ [Next]_vars => PointerInv'
<1> SUFFICES ASSUME PointerInv, [Next]_vars
             PROVE  PointerInv'
  OBVIOUS
<1>1. ASSUME NEW r \in Refreshers, Refresh(r) PROVE PointerInv'
  BY <1>1, BuildKeeps, ReadingKeeps, ConfirmKeeps, InsertReleaseKeeps,
     InsertReferencesKeeps, ActivateKeeps DEF Refresh
<1>2. ASSUME NEW c \in Roots, Select(c) PROVE PointerInv'
  BY <1>2, SelectKeeps
<1>3. CASE Prune
  BY <1>3, PruneKeeps
<1>4. CASE UNCHANGED vars
  <2>1. TypeOK' /\ Stamped' /\ Inserting'
    BY <1>4 DEF vars, PointerInv, TypeOK, Stamped, Inserting, At
  <2>2. Past' /\ Spared' /\ PointerServable' /\ SourcesPresent'
    BY <1>4 DEF vars, PointerInv, Past, Spared, PointerServable,
                SourcesPresent, IsStored, WasLive
  <2> QED BY <2>1, <2>2 DEF PointerInv
<1> QED BY <1>1, <1>2, <1>3, <1>4 DEF Next

LEMMA Pointed == Spec => []PointerInv
BY PointerInit, PointerStep, PTL DEF Spec

(* Every table and process stays well typed, whatever overlaps.            *)
THEOREM ReleaseTypes == Spec => []TypeOK
<1>1. PointerInv => TypeOK
  BY DEF PointerInv
<1> QED BY <1>1, Pointed, PTL

(* The site's pointer always names a stored release that went live, for    *)
(* any releases, sources and refreshers.                                   *)
THEOREM PointerAlwaysServable == Spec => []PointerServable
<1>1. PointerInv => PointerServable
  BY DEF PointerInv
<1> QED BY <1>1, Pointed, PTL

(* No prune takes a row from a release that is stored.                     *)
THEOREM SourcesAlwaysPresent == Spec => []SourcesPresent
<1>1. PointerInv => SourcesPresent
  BY DEF PointerInv
<1> QED BY <1>1, Pointed, PTL

-----------------------------------------------------------------------------
(* What one step does to a first-live instant.                             *)
FixedStep ==
    \A c \in Roots : WasLive(c) => activatedAt'[c] \in {activatedAt[c], None}

LEMMA StepFixesFirstLive == PointerInv /\ [Next]_vars => FixedStep
<1> SUFFICES ASSUME PointerInv, [Next]_vars
             PROVE  FixedStep
  OBVIOUS
<1>1. CASE UNCHANGED activatedAt
  BY <1>1 DEF FixedStep
<1>2. ASSUME NEW r \in Refreshers, InsertReferences(r) PROVE FixedStep
  <2>1. \/ activatedAt' = activatedAt
        \/ activatedAt' = [activatedAt EXCEPT ![job[r].candidate] = 0]
    BY <1>2 DEF InsertReferences, stored
  <2>2. ~WasLive(job[r].candidate)
    BY <1>2 DEF InsertReferences, PointerInv, Inserting, WasLive, IsStored
  <2> QED BY <2>1, <2>2 DEF FixedStep, PointerInv, TypeOK
<1>3. ASSUME NEW r \in Refreshers, Activate(r) PROVE FixedStep
  BY <1>3 DEF Activate, FirstLive, FixedStep, PointerInv, TypeOK
<1>4. CASE PruneCommit
  BY <1>4 DEF PruneCommit, FixedStep, stored
<1>5. CASE \E r \in Refreshers : Refresh(r)
  BY <1>1, <1>2, <1>3, <1>5
     DEF Refresh, Build, ReadCurrent, Confirm, CheckStored, InsertRelease,
         VerifyRows, ReadActivated, CompareCorpus, RefreshCrash, stored,
         Elsewhere
<1>6. CASE \E c \in Roots : Select(c)
  BY <1>1, <1>6 DEF Select, stored
<1>7. CASE Prune
  BY <1>1, <1>4, <1>7
     DEF Prune, PruneSnapshot, PruneDelete, PruneRows, PruneCrash, stored
<1>8. CASE UNCHANGED vars
  BY <1>1, <1>8 DEF vars
<1> QED BY <1>5, <1>6, <1>7, <1>8 DEF Next

(* A release's first-live instant is fixed until it is pruned: publishing  *)
(* or selecting it again, a retried refresh, a crash, never changes it.    *)
THEOREM FirstLiveIsFixed == Spec => FirstLiveFixed
<1>1. PointerInv /\ [Next]_vars => [FixedStep]_vars
  BY StepFixesFirstLive
<1>2. Spec => [][FixedStep]_vars
  BY <1>1, Pointed, PTL DEF Spec
<1> QED BY <1>2 DEF FirstLiveFixed, FixedStep

-----------------------------------------------------------------------------
(* The refinement: what each step does to the pointer the site reads.      *)
LEMMA FirstLivesStay ==
    ASSUME activatedAt \in [Roots -> Times \cup {None}],
           activatedAt' \in [Roots -> Times \cup {None}],
           \A c \in Roots : activatedAt'[c] # activatedAt[c] =>
             ~WasLive(c) /\ ~WasLive(c)'
    PROVE  FirstLives' = FirstLives
BY DEF FirstLives, WasLive, IsStored

(* A pointer that moves to a release, at the instant of its first time.    *)
LEMMA PointPublishes ==
    ASSUME PointerInv, NEW c \in Roots, NEW at \in Times \ {0},
           PointTo(c, at), activatedAt' = [activatedAt EXCEPT ![c] = at],
           WasLive(c) => at = activatedAt[c]
    PROVE  [Pointer!Next]_(Pointer!vars)
<1>1. /\ activatedAt \in [Roots -> Times \cup {None}] /\ pointer' = c
      /\ at # None /\ at # 0
  BY NoneAssumption DEF PointerInv, TypeOK, PointTo, Times
<1>2. \A d \in Roots : activatedAt'[d] = IF d = c THEN at ELSE activatedAt[d]
  BY <1>1
<1>3. FirstLives' = [d \in Roots |-> IF d = c THEN at ELSE FirstLives[d]]
  BY <1>1, <1>2 DEF FirstLives, WasLive, IsStored
<1>4. FirstLives \in [Roots -> Times \cup Nat] /\ FirstLives'[c] = at
  BY <1>3, <1>1 DEF FirstLives, WasLive, IsStored, Times
<1>5. FirstLives[c] # 0 => FirstLives[c] = at
  BY DEF FirstLives, WasLive, IsStored
<1>6. CASE pointer = c
  <2>1. WasLive(c) /\ at = activatedAt[c]
    BY <1>6, NoneAssumption DEF PointerInv, PointerServable
  <2>2. FirstLives[c] = at
    BY <2>1 DEF FirstLives, WasLive, IsStored
  <2>3. FirstLives' = FirstLives
    BY <1>3, <1>4, <2>2 DEF FirstLives, WasLive, IsStored
  <2> QED BY <1>1, <1>6, <2>3 DEF Pointer!vars
<1>7. CASE pointer # c
  <2>1. FirstLives' = [FirstLives EXCEPT ![c] = FirstLives'[c]]
    BY <1>3, <1>4
  <2>2. Pointer!Publish(c)
    BY <1>1, <1>4, <1>5, <1>7, <2>1 DEF Pointer!Publish
  <2> QED BY <2>2 DEF Pointer!Next
<1> QED BY <1>6, <1>7

LEMMA PruneForgets ==
    ASSUME PointerInv, PointerInv', PruneCommit
    PROVE  [Pointer!Next]_(Pointer!vars)
<1>1. pointer' = pointer /\ pointer \notin doomed
  BY DEF PruneCommit, current, PointerInv, Spared
<1>2. CASE UNCHANGED stored
  BY <1>1, <1>2 DEF stored, Pointer!vars, FirstLives, WasLive, IsStored
<1>3. CASE activatedAt' = [c \in Roots |-> IF c \in doomed THEN None
                                            ELSE activatedAt[c]]
  <2> DEFINE gone == {c \in Roots : FirstLives[c] # 0 /\ FirstLives'[c] = 0}
  <2>1. FirstLives' = [c \in Roots |-> IF c \in doomed THEN 0 ELSE FirstLives[c]]
    BY <1>3, NoneAssumption DEF FirstLives, WasLive, IsStored
  <2>2. FirstLives' = [c \in Roots |-> IF c \in gone THEN 0 ELSE FirstLives[c]]
    BY <2>1 DEF FirstLives, WasLive, IsStored
  <2>3. pointer \notin gone
    BY <1>1, <2>1 DEF FirstLives, WasLive, IsStored
  <2>4. Pointer!Forget(gone)
    BY <1>1, <2>2, <2>3 DEF Pointer!Forget
  <2> QED BY <2>4 DEF Pointer!Next
<1> QED BY <1>2, <1>3 DEF PruneCommit

LEMMA PointerRefines ==
    PointerInv /\ PointerInv' /\ [Next]_vars => [Pointer!Next]_(Pointer!vars)
<1> SUFFICES ASSUME PointerInv, PointerInv', [Next]_vars
             PROVE  [Pointer!Next]_(Pointer!vars)
  OBVIOUS
<1>1. /\ activatedAt \in [Roots -> Times \cup {None}]
      /\ activatedAt' \in [Roots -> Times \cup {None}]
  BY DEF PointerInv, TypeOK
<1>2. CASE activatedAt' = activatedAt /\ pointer' = pointer
  BY <1>2 DEF Pointer!vars, FirstLives, WasLive, IsStored
<1>3. ASSUME NEW r \in Refreshers, InsertReferences(r)
      PROVE  [Pointer!Next]_(Pointer!vars)
  <2>1. /\ pointer' = pointer
        /\ \/ activatedAt' = activatedAt
           \/ activatedAt' = [activatedAt EXCEPT ![job[r].candidate] = 0]
    BY <1>3 DEF InsertReferences, stored, Elsewhere, current
  <2>2. ~WasLive(job[r].candidate)
    BY <1>3 DEF InsertReferences, PointerInv, Inserting, WasLive, IsStored
  <2>3. \A c \in Roots : activatedAt'[c] # activatedAt[c] => ~WasLive(c) /\ ~WasLive(c)'
    BY <1>1, <2>1, <2>2 DEF WasLive
  <2>4. FirstLives' = FirstLives
    BY <1>1, <2>3, FirstLivesStay
  <2> QED BY <2>1, <2>4 DEF Pointer!vars
<1>4. ASSUME NEW r \in Refreshers, Activate(r)
      PROVE  [Pointer!Next]_(Pointer!vars)
  <2> DEFINE c == job[r].candidate
             at == FirstLive(c, job[r].stamp)
  <2>1. CASE MayActivate(r)
    <3>1. /\ c \in Roots /\ job[r].stamp \in 1 .. clock /\ clock \in Times
      BY <1>4 DEF Activate, At, PointerInv, TypeOK, Stamped
    <3>2. at \in Times \ {0} /\ (WasLive(c) => at = activatedAt[c])
      BY <3>1, BoundsAssumption
         DEF FirstLive, WasLive, IsStored, PointerInv, TypeOK, Times
    <3>3. PointTo(c, at) /\ activatedAt' = [activatedAt EXCEPT ![c] = at]
      BY <1>4, <2>1 DEF Activate
    <3> HIDE DEF at, c
    <3> QED BY <3>1, <3>2, <3>3, PointPublishes
  <2>2. CASE ~MayActivate(r)
    BY <1>2, <1>4, <2>2 DEF Activate, current
  <2> QED BY <2>1, <2>2
<1>5. ASSUME NEW c \in Roots, Select(c)
      PROVE  [Pointer!Next]_(Pointer!vars)
  <2> DEFINE at == activatedAt[c]
  <2>1. at \in Times \ {0} /\ PointTo(c, at)
    BY <1>1, <1>5 DEF Select, Selectable, WasLive, IsStored
  <2>2. activatedAt' = [activatedAt EXCEPT ![c] = at]
    BY <1>1, <1>5 DEF Select, stored
  <2>3. WasLive(c) => at = activatedAt[c]
    OBVIOUS
  <2> HIDE DEF at
  <2> QED BY <2>1, <2>2, <2>3, PointPublishes
<1>6. CASE \E r \in Refreshers : Refresh(r)
  BY <1>2, <1>3, <1>4, <1>6
     DEF Refresh, Build, ReadCurrent, Confirm, CheckStored, InsertRelease,
         VerifyRows, ReadActivated, CompareCorpus, RefreshCrash, stored,
         current, Elsewhere
<1>7. CASE Prune
  BY <1>2, <1>7, PruneForgets
     DEF Prune, PruneSnapshot, PruneDelete, PruneRows, PruneCrash, stored, current
<1>8. CASE UNCHANGED vars
  BY <1>2, <1>8 DEF vars
<1> QED BY <1>5, <1>6, <1>7, <1>8 DEF Next

(* The refreshes, selections and prunes together implement the one pointer *)
(* the site relies on: each of their steps moves it to a release that went *)
(* live, forgets releases that are not live, or leaves it alone.           *)
THEOREM PointerImplemented == Spec => ImplementsPointer
<1>1. PointerInv /\ Init => Pointer!Init
  BY DEF Init, Pointer!Init, FirstLives, WasLive, IsStored
<1>2. PointerInv /\ PointerInv' /\ [Next]_vars => [Pointer!Next]_(Pointer!vars)
  BY PointerRefines
<1> QED BY <1>1, <1>2, Pointed, PTL DEF Spec, ImplementsPointer, Pointer!Spec

-----------------------------------------------------------------------------
(* The Claims that a build binds to Problems.                              *)

(* An entity is a function from some of the occurrences.                   *)
Entities == UNION {[D -> Problem!ContentRoots] : D \in SUBSET Problem!Occurrences}
Packets  == [problem : Problems, pinned : Entities, selected : SUBSET References]
Claimed  == [standing : Problem!Standings, packet : Packets \cup {None}]

Typed ==
    /\ Problem!ConstantsTyped /\ Problem!TypeOK
    /\ resolver \in [Problems -> Entities \cup {None}]
    /\ claims \in [Problem!ClaimSet -> Claimed]

(* A packet comes with its Claim.                                          *)
Packed == \A c \in Problem!ClaimSet : Problem!HasPacket(c) => claims[c].standing # "none"

(* What a release binds was proposed before, and a reviewed binding is of  *)
(* a record that the release's resolver has in the entity of its Problem.  *)
Published ==
    bound # None =>
      /\ Problem!Valid(bound.resolver)
      /\ \A c \in Problem!ClaimSet : bound.standing[c] # "none" => claims[c].standing # "none"
      /\ \A b \in bound.bindings :
           /\ bound.standing[b.claim] # "none"
           /\ Problem!HasPacket(b.claim) =>
                LET p == claims[b.claim].packet.problem IN
                /\ p \in Problems /\ bound.resolver[p] # None
                /\ b.occurrence \in DOMAIN bound.resolver[p] \cap References

BindingsInv ==
    /\ Typed
    /\ Packed
    /\ Published
    /\ Problem!BoundAsReviewed

-----------------------------------------------------------------------------
LEMMA LastOf ==
    ASSUME NEW n \in Nat, NEW S \in SUBSET (1 .. n), S # {}
    PROVE  \E x \in S : \A y \in S : y <= x
<1> DEFINE Below == {n - x : x \in S}
<1>1. Below \in SUBSET Nat /\ Below # {}
  <2>1. \A x \in S : n - x \in Nat
    OBVIOUS
  <2>2. Below \subseteq Nat
    BY <2>1
  <2> QED BY <2>2
<1> DEFINE R == OpToRel(<, Nat)
<1>2. IsWellFoundedOn(R, Nat)
  BY NatLessThanWellFounded, Zenon
<1>3. PICK m \in Below : \A y \in Below : ~ (<<y, m>> \in R)
  <2> HIDE DEF R, Below
  <2> QED BY <1>1, <1>2, WFMin, Zenon
<1>4. \A x, y \in Nat : <<x, y>> \in R <=> x < y
  BY SMT DEF OpToRel
<1>5. PICK x \in S : m = n - x
  OBVIOUS
<1>6. ASSUME NEW y \in S PROVE y <= x
  <2>1. n - y \in Below /\ n - y \in Nat /\ m \in Nat
    BY <1>1
  <2>2. ~ (n - y < m)
    <3> HIDE DEF R, Below
    <3> QED BY <1>3, <1>4, <2>1, Zenon
  <2> QED BY <1>5, <2>2
<1> QED BY <1>6

LEMMA EntityFields ==
    ASSUME NEW p \in Problems, NEW refs \in SUBSET References,
           NEW entity \in [{p} \cup refs -> Problem!ContentRoots]
    PROVE  entity \in Entities
BY DEF Entities, Problem!Occurrences

LEMMA PacketFields ==
    ASSUME Typed, NEW p \in Problems, resolver[p] # None,
           NEW packet \in Problem!PacketsOf(p)
    PROVE  packet \in Packets /\ Problem!IsPacket(packet)
<1>1. packet.problem = p /\ packet.pinned = resolver[p]
      /\ packet = [problem |-> p, pinned |-> resolver[p], selected |-> packet.selected]
      /\ packet.selected \in SUBSET Problem!Reviewed(p, resolver[p]) \ {{}}
  BY DEF Problem!PacketsOf
<1>2. resolver[p] \in Entities /\ Problem!IsEntity(p, resolver[p])
  BY DEF Typed, Problem!TypeOK
<1>3. packet.selected \in SUBSET References \ {{}}
  BY <1>1, <1>2 DEF Problem!IsEntity, Problem!Reviewed
<1> QED BY <1>1, <1>2, <1>3 DEF Packets, Problem!IsPacket

LEMMA BindingsInit ==
    ASSUME Problem!ConstantsTyped, Problem!Init
    PROVE BindingsInv
<1>1. Problem!TypeOK
  BY DEF Problem!Init, Problem!TypeOK, Problem!ConstantsTyped,
         Problem!ContentRoots, Problem!Valid, Problem!Standings
<1>2. claims \in [Problem!ClaimSet -> Claimed] /\ resolver \in [Problems -> Entities \cup {None}]
  BY DEF Problem!Init, Claimed, Problem!Standings
<1> QED BY <1>1, <1>2 DEF BindingsInv, Problem!Init, Typed, Packed,
               Problem!HasPacket, Published, Problem!BoundAsReviewed

(* Steps that leave the Claims and the release alone.                      *)
LEMMA OutsideKeeps ==
    ASSUME BindingsInv, UNCHANGED <<claims, bound>>,
           records' \in [Problem!Occurrences -> Problem!ContentRoots \cup {0}],
           \A p \in Problems : resolver'[p] = None \/ Problem!IsEntity(p, resolver'[p]),
           Problem!Valid(resolver'), reviews' \in 0 .. MaxReviews,
           resolver' \in [Problems -> Entities \cup {None}]
    PROVE  BindingsInv'
<1>1. Typed'
  BY DEF BindingsInv, Typed, Problem!TypeOK
<1>2. Packed' /\ Published'
  BY DEF BindingsInv, Packed, Problem!HasPacket, Published
<1>3. Problem!BoundAsReviewed'
  BY DEF BindingsInv, Problem!BoundAsReviewed, Problem!AsPinned,
         Problem!HasPacket
<1> QED BY <1>1, <1>2, <1>3 DEF BindingsInv

LEMMA ChangeKeeps ==
    ASSUME BindingsInv, NEW o, Problem!Change(o)
    PROVE BindingsInv'
<1>1. records' \in [Problem!Occurrences -> Problem!ContentRoots \cup {0}]
  <2>1. PICK root \in 0 .. MaxRoot : records' = [records EXCEPT ![o] = root]
    BY DEF Problem!Change
  <2>2. root \in Problem!ContentRoots \cup {0}
    BY DEF BindingsInv, Typed, Problem!ConstantsTyped, Problem!ContentRoots
  <2> QED BY <2>1, <2>2 DEF BindingsInv, Typed, Problem!TypeOK
<1> QED BY <1>1, OutsideKeeps DEF Problem!Change, BindingsInv, Typed,
               Problem!TypeOK

LEMMA ReviewKeeps ==
    ASSUME BindingsInv, NEW p \in Problems, Problem!Review(p)
    PROVE BindingsInv'
<1>1. PICK refs \in SUBSET References \ {{}} :
      \E entity \in [{p} \cup refs -> Problem!ContentRoots] :
        resolver' = [resolver EXCEPT ![p] = entity] /\ Problem!Valid(resolver')
  BY DEF Problem!Review
<1>2. PICK entity \in [{p} \cup refs -> Problem!ContentRoots] :
        resolver' = [resolver EXCEPT ![p] = entity] /\ Problem!Valid(resolver')
  BY <1>1
<1>3. resolver' \in [Problems -> Entities \cup {None}]
  BY <1>2, EntityFields DEF BindingsInv, Typed
<1>4. \A q \in Problems : resolver'[q] = None \/ Problem!IsEntity(q, resolver'[q])
  BY <1>2 DEF BindingsInv, Typed, Problem!TypeOK, Problem!IsEntity
<1>5. reviews' \in 0 .. MaxReviews
  BY DEF Problem!Review, BindingsInv, Typed, Problem!TypeOK,
         Problem!ConstantsTyped
<1> QED BY <1>2, <1>3, <1>4, <1>5, OutsideKeeps DEF Problem!Review,
               BindingsInv, Typed, Problem!TypeOK

(* Claims that were proposed keep their packets.                           *)
LEMMA ClaimsKeep ==
    ASSUME BindingsInv, UNCHANGED <<records, resolver, reviews, bound>>,
           claims' \in [Problem!ClaimSet -> Claimed],
           \A c \in Problem!ClaimSet :
             /\ claims[c].standing # "none" =>
                  claims'[c].standing # "none" /\ claims'[c].packet = claims[c].packet
             /\ claims'[c].packet # None =>
                  claims'[c].standing # "none" /\ Problem!IsPacket(claims'[c].packet)
    PROVE  BindingsInv'
<1>1. Typed'
  BY DEF BindingsInv, Typed, Problem!TypeOK, Claimed
<1>2. Packed'
  BY DEF Packed, Problem!HasPacket
<1>3. ASSUME bound # None
      PROVE  /\ \A b \in bound.bindings :
                  /\ b.claim \in Problem!ClaimSet
                  /\ claims'[b.claim].packet = claims[b.claim].packet
             /\ \A edge \in bound.groupings : edge.decidedBy # None =>
                  edge.decidedBy \in Problem!ClaimSet
  BY <1>3 DEF BindingsInv, Typed, Problem!TypeOK, Published, Problem!Binding,
         Problem!Grouping
<1>4. Published'
  BY <1>3 DEF BindingsInv, Published, Problem!HasPacket
<1>5. ASSUME bound # None, NEW edge \in bound.groupings, edge.decidedBy # None
      PROVE  claims'[edge.decidedBy].packet = claims[edge.decidedBy].packet
  BY <1>3, <1>5 DEF BindingsInv, Published, Problem!BoundAsReviewed
<1>6. Problem!BoundAsReviewed'
  BY <1>3, <1>5 DEF BindingsInv, Problem!BoundAsReviewed, Problem!AsPinned,
         Problem!HasPacket
<1> QED BY <1>1, <1>2, <1>4, <1>6 DEF BindingsInv

LEMMA ProposeKeeps ==
    ASSUME BindingsInv, NEW c \in Problem!ClaimSet, Problem!Propose(c)
    PROVE BindingsInv'
<1>1. PICK packet \in {None} \cup UNION {Problem!PacketsOf(p) : p \in Problems} :
        claims' = [claims EXCEPT ![c] = [standing |-> "unassessed", packet |-> packet]]
  BY DEF Problem!Propose
<1>2. packet = None \/ (packet \in Packets /\ Problem!IsPacket(packet))
  <2> SUFFICES ASSUME packet # None PROVE packet \in Packets /\ Problem!IsPacket(packet)
    OBVIOUS
  <2>1. PICK p \in Problems : packet \in Problem!PacketsOf(p)
    BY <1>1
  <2>2. resolver[p] # None
    BY <2>1 DEF Problem!PacketsOf
  <2> QED BY <2>1, <2>2, PacketFields DEF BindingsInv
<1>3. [standing |-> "unassessed", packet |-> packet] \in Claimed
  BY <1>2 DEF Claimed, Problem!Standings
<1>4. claims' \in [Problem!ClaimSet -> Claimed]
  BY <1>1, <1>3 DEF BindingsInv, Typed
<1>5. claims[c].standing = "none"
  BY DEF Problem!Propose
<1>6. ASSUME NEW d \in Problem!ClaimSet
      PROVE  /\ claims[d].standing # "none" =>
                  claims'[d].standing # "none" /\ claims'[d].packet = claims[d].packet
             /\ claims'[d].packet # None =>
                  claims'[d].standing # "none" /\ Problem!IsPacket(claims'[d].packet)
  <2>1. CASE d = c
    BY <2>1, <1>1, <1>2, <1>5 DEF BindingsInv, Typed
  <2>2. CASE d # c
    <3>1. claims'[d] = claims[d]
      BY <2>2, <1>1 DEF BindingsInv, Typed
    <3> QED BY <3>1 DEF BindingsInv, Typed, Problem!TypeOK, Packed,
                   Problem!HasPacket
  <2> QED BY <2>1, <2>2
<1> QED BY <1>4, <1>6, ClaimsKeep DEF Problem!Propose

LEMMA AcceptKeeps ==
    ASSUME BindingsInv, NEW c \in Problem!ClaimSet, Problem!Accept(c)
    PROVE BindingsInv'
<1>1. \A d \in Problem!ClaimSet :
        /\ claims[d] \in Claimed
        /\ \/ claims'[d] = claims[d]
           \/ claims'[d] = [claims[d] EXCEPT !.standing = "accepted"]
           \/ claims'[d] = [claims[d] EXCEPT !.standing = "superseded"]
  <2>1. claims' = [claims EXCEPT ![c].standing = "accepted",
                                ![Corrects[c]].standing = "superseded"]
    BY DEF Problem!Accept
  <2>2. claims \in [Problem!ClaimSet -> Claimed]
    BY DEF BindingsInv, Typed
  <2> DEFINE first == [claims EXCEPT ![c].standing = "accepted"]
  <2>3. claims' = [first EXCEPT ![Corrects[c]].standing = "superseded"]
    BY <2>1
  <2>4. \A d \in Problem!ClaimSet : first[d] = IF d = c THEN [claims[c] EXCEPT !.standing = "accepted"] ELSE claims[d]
    BY <2>2
  <2>5. \A d \in Problem!ClaimSet : claims'[d] = IF d = Corrects[c] THEN [first[d] EXCEPT !.standing = "superseded"] ELSE first[d]
    BY <2>2, <2>3
  <2> HIDE DEF first
  <2> SUFFICES ASSUME NEW d \in Problem!ClaimSet
               PROVE  \/ claims'[d] = claims[d]
                      \/ claims'[d] = [claims[d] EXCEPT !.standing = "accepted"]
                      \/ claims'[d] = [claims[d] EXCEPT !.standing = "superseded"]
    BY <2>2
  <2>6. claims[d] = [standing |-> claims[d].standing, packet |-> claims[d].packet]
    BY <2>2 DEF Claimed
  <2>7. first[d] = claims[d] \/ first[d] = [claims[d] EXCEPT !.standing = "accepted"]
    BY <2>4
  <2>8. claims'[d] = first[d] \/ claims'[d] = [first[d] EXCEPT !.standing = "superseded"]
    BY <2>5
  <2> QED BY <2>6, <2>7, <2>8
<1>2. DOMAIN claims' = Problem!ClaimSet
  BY DEF Problem!Accept, BindingsInv, Typed
<1>3. ASSUME NEW d \in Problem!ClaimSet
      PROVE  /\ claims'[d] \in Claimed
             /\ claims'[d].packet = claims[d].packet
             /\ claims[d].standing # "none" => claims'[d].standing # "none"
  BY <1>1 DEF Claimed, Problem!Standings
<1>4. claims' \in [Problem!ClaimSet -> Claimed]
  BY <1>2, <1>3 DEF Problem!Accept
<1>5. ASSUME NEW d \in Problem!ClaimSet, claims'[d].packet # None
      PROVE  claims'[d].standing # "none" /\ Problem!IsPacket(claims'[d].packet)
  BY <1>3, <1>5 DEF BindingsInv, Typed, Problem!TypeOK, Packed,
         Problem!HasPacket
<1> QED BY <1>3, <1>4, <1>5, ClaimsKeep DEF Problem!Accept

-----------------------------------------------------------------------------
LEMMA BinderFound ==
    ASSUME Typed, NEW p, NEW o, Problem!LastBinder(p, o) # None
    PROVE  LET c == Problem!LastBinder(p, o) IN
           /\ c \in Problem!ClaimSet /\ Problem!HasPacket(c)
           /\ claims[c].packet.problem = p /\ o \in claims[c].packet.selected
<1> DEFINE S == Problem!Binders(p, o)
<1>1. S \in SUBSET (1 .. Len(Claims)) /\ Len(Claims) \in Nat /\ S # {}
  BY DEF Problem!Binders, Problem!LastBinder, Typed, Problem!ConstantsTyped
<1>2. \E x \in S : \A y \in S : y <= x
  <2> HIDE DEF S
  <2> QED BY <1>1, LastOf
<1>3. PICK n \in S : Problem!LastBinder(p, o) = Claims[n]
  <2> DEFINE n == CHOOSE n \in S : \A m \in S : m <= n
  <2>1. n \in S
    <3> HIDE DEF S
    <3> QED BY <1>2
  <2>2. Problem!LastBinder(p, o) = Claims[n]
    BY <1>1 DEF Problem!LastBinder
  <2> QED BY <2>1, <2>2
<1> QED BY <1>3 DEF Problem!Binders, Problem!ClaimSet

LEMMA PublishKeeps == ASSUME BindingsInv, Problem!Build PROVE BindingsInv'
<1> DEFINE rel == [rows      |-> records,
                   standing  |-> [c \in Problem!ClaimSet |-> claims[c].standing],
                   bindings  |-> Problem!Bindings,
                   groupings |-> Problem!Groupings,
                   resolver  |-> resolver]
<1>1. /\ bound' = rel
      /\ bound'.rows = records /\ bound'.bindings = Problem!Bindings
      /\ bound'.groupings = Problem!Groupings /\ bound'.resolver = resolver
      /\ \A c \in Problem!ClaimSet : bound'.standing[c] = claims[c].standing
  BY DEF Problem!Build
<1>2. UNCHANGED <<records, resolver, reviews, claims>>
  BY DEF Problem!Build
<1> HIDE DEF rel
<1>3. Typed'
  <2>1. Problem!Bindings \subseteq Problem!Binding /\ Problem!Groupings \subseteq Problem!Grouping
    BY DEF Problem!Bindings, Problem!Groupings
  <2> QED BY <1>1, <1>2, <2>1 DEF BindingsInv, Typed, Problem!TypeOK
<1>4. Packed'
  BY <1>2 DEF BindingsInv, Packed, Problem!HasPacket
<1>5. ASSUME NEW c \in Problem!ClaimSet, Problem!HasPacket(c), NEW o \in claims[c].packet.selected
      PROVE  LET q == claims[c].packet.problem IN
             /\ q \in Problems /\ resolver[q] # None
             /\ o \in DOMAIN resolver[q] \cap References
             /\ records[o] = claims[c].packet.pinned[o]
             /\ claims[c].standing \in {"accepted", "superseded"}
  <2>1. Problem!Bindable(c)
    BY <1>5 DEF Problem!Build
  <2>2. Problem!IsPacket(claims[c].packet)
    BY <1>5 DEF BindingsInv, Typed, Problem!TypeOK, Problem!HasPacket
  <2> QED BY <2>1, <2>2, <1>5 DEF Problem!Bindable, Problem!Resolves,
                 Problem!InSources, Problem!Reviewed, Problem!IsPacket
<1>6. ASSUME NEW b \in Problem!Bindings
      PROVE  /\ b.claim \in Problem!ClaimSet
             /\ claims[b.claim].standing # "none"
             /\ Problem!HasPacket(b.claim) => b.occurrence \in claims[b.claim].packet.selected
  <2>1. b.claim \in Problem!ClaimSet
    BY DEF Problem!Bindings, Problem!Binding
  <2>2. CASE Problem!HasPacket(b.claim)
    BY <2>1, <2>2 DEF Problem!Bindings, BindingsInv, Packed
  <2>3. CASE ~Problem!HasPacket(b.claim)
    BY <2>1, <2>3 DEF Problem!Bindings
  <2> QED BY <2>1, <2>2, <2>3
<1>7. Published'
  <2>1. Problem!Valid(resolver)
    BY DEF BindingsInv, Typed, Problem!TypeOK
  <2>2. \A b \in Problem!Bindings : Problem!HasPacket(b.claim) =>
          LET p == claims[b.claim].packet.problem IN
          /\ p \in Problems /\ resolver[p] # None
          /\ b.occurrence \in DOMAIN resolver[p] \cap References
    BY <1>5, <1>6
  <2>3. \A b \in Problem!Bindings : bound'.standing[b.claim] # "none"
    BY <1>1, <1>6
  <2> QED BY <1>1, <1>2, <2>1, <2>2, <2>3 DEF Published, Problem!HasPacket
<1>8. Problem!BoundAsReviewed'
  <2>1. \A b \in Problem!Bindings : Problem!HasPacket(b.claim) => Problem!AsPinned(b.claim, b.occurrence)'
    BY <1>1, <1>2, <1>5, <1>6 DEF Problem!AsPinned
  <2>2. ASSUME NEW edge \in Problem!Groupings, edge.decidedBy # None
        PROVE  /\ Problem!AsPinned(edge.decidedBy, edge.occurrence)'
               /\ claims[edge.decidedBy].packet.problem = edge.problem
               /\ bound'.standing[edge.decidedBy] \in {"accepted", "superseded"}
    <3>1. /\ edge.decidedBy \in Problem!ClaimSet /\ Problem!HasPacket(edge.decidedBy)
          /\ claims[edge.decidedBy].packet.problem = edge.problem
          /\ edge.occurrence \in claims[edge.decidedBy].packet.selected
      BY <2>2, BinderFound DEF Problem!Groupings, BindingsInv
    <3> QED BY <3>1, <1>1, <1>2, <1>5 DEF Problem!AsPinned
  <2> QED BY <1>1, <1>2, <2>1, <2>2 DEF Problem!BoundAsReviewed,
                 Problem!HasPacket
<1> QED BY <1>3, <1>4, <1>7, <1>8 DEF BindingsInv

LEMMA BindingsStep ==
    ASSUME BindingsInv, [Problem!Next]_(Problem!vars)
    PROVE BindingsInv'
<1>1. CASE UNCHANGED Problem!vars
  BY <1>1, OutsideKeeps DEF Problem!vars, BindingsInv, Typed, Problem!TypeOK
<1>2. CASE \E o \in Changing : Problem!Change(o)
  BY <1>2, ChangeKeeps
<1>3. CASE \E p \in Problems : Problem!Review(p)
  BY <1>3, ReviewKeeps
<1>4. CASE \E c \in Problem!ClaimSet : Problem!Propose(c) \/ Problem!Accept(c)
  BY <1>4, ProposeKeeps, AcceptKeeps
<1>5. CASE Problem!Build
  BY <1>5, PublishKeeps
<1> QED BY <1>1, <1>2, <1>3, <1>4, <1>5 DEF Problem!Next

LEMMA OwnProblem == ASSUME BindingsInv PROVE Problem!ShownOnOwnProblem
<1> SUFFICES ASSUME bound # None, NEW p \in Problems, NEW b \in Problem!BoundTo(p),
                    Problem!HasPacket(b.claim)
             PROVE  claims[b.claim].packet.problem = p
  BY DEF Problem!ShownOnOwnProblem, Problem!Page
<1> DEFINE q == claims[b.claim].packet.problem
<1>1. /\ q \in Problems /\ bound.resolver[q] # None
      /\ b.occurrence \in DOMAIN bound.resolver[q] /\ b.occurrence \in References
      /\ Problem!Valid(bound.resolver)
  BY DEF Problem!BoundTo, BindingsInv, Published
<1>2. b.occurrence \in DOMAIN Problem!BindingOccurrences(p)
  BY DEF Problem!BoundTo
<1>3. CASE bound.resolver[p] = None
  BY <1>1, <1>2, <1>3 DEF Problem!BindingOccurrences, BindingsInv, Typed,
         Problem!ConstantsTyped
<1>4. CASE bound.resolver[p] # None
  <2> HIDE DEF q
  <2> QED BY <1>1, <1>2, <1>4 DEF Problem!BindingOccurrences, Problem!Valid, q
<1> QED BY <1>3, <1>4

LEMMA OthersStep ==
    ASSUME BindingsInv, [Problem!Next]_(Problem!vars)
    PROVE Problem!StayBound
<1> SUFFICES ASSUME NEW c \in Problem!ClaimSet, Problem!HasPacket(c) PROVE claims'[c].packet = claims[c].packet
  BY DEF Problem!StayBound, Problem!Resolves, Problem!RootPinned
<1>1. claims[c].standing # "none"
  BY DEF BindingsInv, Packed
<1>2. CASE UNCHANGED claims
  BY <1>2
<1>3. CASE \E d \in Problem!ClaimSet : Problem!Propose(d)
  BY <1>1, <1>3 DEF Problem!Propose, BindingsInv, Typed
<1>4. CASE \E d \in Problem!ClaimSet : Problem!Accept(d)
  BY <1>4 DEF Problem!Accept, BindingsInv, Typed, Claimed
<1> QED BY <1>2, <1>3, <1>4 DEF Problem!Next, Problem!vars, Problem!Change,
               Problem!Review, Problem!Build

-----------------------------------------------------------------------------
(* A behaviour of the run is one of the two parts, and leaves the other    *)
(* where it began.                                                         *)
both == <<part, store, binding>>

LEMMA BindingsMove == [MCNext]_both => [Problem!Next]_(Problem!vars)
<1> SUFFICES ASSUME [MCNext]_both PROVE [Problem!Next]_(Problem!vars)
  OBVIOUS
<1>1. CASE UNCHANGED binding
  BY <1>1 DEF binding, Problem!vars
<1>2. CASE ~UNCHANGED binding
  <2>1. MCNext /\ ~OfStore
    BY <1>2 DEF both, OfStore
  <2> QED BY <2>1 DEF MCNext, Problem!Next
<1> QED BY <1>1, <1>2

LEMMA Bound == MCSpec => []BindingsInv
<1>1. MCInit => BindingsInv
  BY BindingsAssumption, BindingsInit DEF MCInit
<1>2. BindingsInv /\ [MCNext]_both => BindingsInv'
  BY BindingsMove, BindingsStep
<1> QED BY <1>1, <1>2, PTL DEF MCSpec, both

(* projection-builder.mjs:1117-1120: whatever Sources, resolvers and       *)
(* Claims there are, a release says that a Decision bound exactly what the *)
(* reviewer of its Claim saw, and its resolver is one that parses.         *)
THEOREM ReviewedIsBound == MCSpec => []BindingsReviewed
<1>1. BindingsInv => BindingsReviewed
  BY DEF BindingsInv, Typed, BindingsReviewed
<1> QED BY <1>1, Bound, PTL

(* index.ts:3166: a reviewed Claim is on the page of its own Problem and   *)
(* on no other, if the site has the resolver that its release was built    *)
(* with.                                                                   *)
THEOREM ShownWhereReviewed == MCSpec => []ShownOnOwnProblem
<1>1. BindingsInv => ShownOnOwnProblem
  BY OwnProblem DEF ShownOnOwnProblem
<1> QED BY <1>1, Bound, PTL

(* problem-resolution.ts:144-145: no change of the entity of one Problem   *)
(* unbinds a Claim from another.                                           *)
THEOREM OthersKeepBindings == MCSpec => OthersStayBound
<1>1. BindingsInv /\ [MCNext]_both => [Problem!StayBound]_(Problem!vars)
  BY BindingsMove, OthersStep
<1> QED BY <1>1, Bound, PTL DEF MCSpec, both, OthersStayBound, Problem!OthersStayBound
=============================================================================
