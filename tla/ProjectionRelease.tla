------------------------- MODULE ProjectionRelease -------------------------
(***************************************************************************)
(* The projection database of packages/projection-data: refreshes build a  *)
(* candidate release, store it, verify it and move the current pointer, in *)
(* separate transactions with nothing held between them; an operator       *)
(* selects an earlier release; a prune deletes what is no longer retained. *)
(* Several refreshes, selections and prunes may overlap, and each may stop *)
(* anywhere.                                                               *)
(*                                                                         *)
(* A release root is a hash of the rows, so building the same sources      *)
(* again gives the same root.  Time is counted in builds.                  *)
(***************************************************************************)
EXTENDS Naturals, FiniteSets

CONSTANTS
    Roots,         \* release roots the sources can build to
    Shared,        \* source declarations, observations and native records
    Uses,          \* root -> the shared rows its release_sources name
    Corpus,        \* root -> measure -> rows it publishes
    Refreshers,    \* processes running refresh-neon-projection.mjs
    Predecessors,  \* activated releases kept behind the current one; 2 in the code
    MaxBuilds,     \* bound: builds in one behaviour
    MaxSelects,    \* bound: operator selections
    MaxPrunes,     \* bound: prunes
    None

Measures == {"claims", "problems", "native_records"}

ASSUME CorpusAssumption == Corpus \in [Roots -> [Measures -> Nat]]
ASSUME UsesAssumption   == Uses \in [Roots -> SUBSET Shared]
ASSUME BoundsAssumption == MaxBuilds \in Nat /\ MaxSelects \in Nat /\ MaxPrunes \in Nat
ASSUME NoneAssumption   == None \notin Roots \cup Nat

VARIABLES
    activatedAt,  \* root -> releases.activated_at: None if the release is not
                  \* stored, 0 if stored and never activated
    shared,       \* shared source rows stored
    pointer,      \* current_release.release_root, or None
    liveSince,    \* current_release.activated_at
    confirmedAt,  \* current_release.confirmed_at
    clock,        \* builds so far
    job,          \* refresher -> its run
    prune,        \* where the prune is
    doomed,       \* releases it is deleting
    doomedRows,   \* shared rows it is deleting
    selects, prunes

stored  == <<activatedAt, shared>>
current == <<pointer, liveSince, confirmedAt>>
pruning == <<prune, doomed, doomedRows>>
vars    == <<activatedAt, shared, pointer, liveSince, confirmedAt, clock,
             job, prune, doomed, doomedRows, selects, prunes>>

(* A run of the refresh: the root it built, its manifest's activation_time *)
(* (when it was built), whether it allows a corpus drop, the current root  *)
(* it read, the activated root its floor is measured against, and the      *)
(* shared rows its open transaction inserted.                              *)
Stages ==
    {"idle", "read", "confirm", "stored", "insert", "reference", "verify",
     "floor", "compare", "activate"}

Times == 0 .. MaxBuilds

Job ==
    [stage : Stages, candidate : Roots \cup {None}, stamp : Times,
     override : BOOLEAN, expected : Roots \cup {None},
     base : Roots \cup {None}, own : SUBSET Shared]

NoJob ==
    [stage |-> "idle", candidate |-> None, stamp |-> 0, override |-> FALSE,
     expected |-> None, base |-> None, own |-> {}]

-----------------------------------------------------------------------------
IsStored(c) == activatedAt[c] # None
WasLive(c)  == IsStored(c) /\ activatedAt[c] # 0

(* The rows an open prune has deleted and not yet committed are locked.    *)
Locked(c) == prune \in {"rows", "commit"} /\ c \in doomed

(* What the read contract and the prune both retain: the current release   *)
(* and the latest ones that first went live at or before it.               *)
Earlier ==
    {c \in Roots \ {pointer} : WasLive(c) /\ activatedAt[c] <= activatedAt[pointer]}

Window ==
    IF pointer = None
    THEN {}
    ELSE {pointer} \cup
         {c \in Earlier :
            Cardinality({d \in Earlier : activatedAt[d] > activatedAt[c]})
              < Predecessors}

(* corpusRetentionRefusals: no measure falls below half, rounded up; a     *)
(* measure at zero cannot fall.  A release that is gone counts zero rows.  *)
Half(n) == (n + 1) \div 2

CorpusOf(c) == IF IsStored(c) THEN Corpus[c] ELSE [m \in Measures |-> 0]

Retains(before, after) ==
    \A m \in Measures : before[m] = 0 \/ after[m] >= Half(before[m])

-----------------------------------------------------------------------------
(* refresh-neon-projection.mjs                                             *)

At(r, stage) == job[r].stage = stage

Goto(r, stage) == job' = [job EXCEPT ![r].stage = stage]

(* Faulty variant of Stop: the run is forgotten, its stage is not.         *)
StopHalfway(r) ==
    job' = [job EXCEPT ![r] = [NoJob EXCEPT !.stage = job[r].stage]]

(* Success, a refusal that throws, or a crash: an open transaction is gone.*)
Stop(r) == job' = [job EXCEPT ![r] = NoJob]

(* Two builds of one input agree; the manifest is stamped with the time.   *)
Build(r) ==
    /\ At(r, "idle")
    /\ clock < MaxBuilds
    /\ clock' = clock + 1
    /\ \E c \in Roots, o \in BOOLEAN :
         job' = [job EXCEPT ![r] = [NoJob EXCEPT !.stage = "read",
                                                !.candidate = c,
                                                !.stamp = clock + 1,
                                                !.override = o]]
    /\ UNCHANGED <<stored, current, pruning, selects, prunes>>

Elsewhere == <<current, clock, pruning, selects, prunes>>

ReadCurrent(r) ==
    /\ At(r, "read")
    /\ job' = [job EXCEPT
                 ![r].expected = pointer,
                 ![r].stage = IF pointer = job[r].candidate
                              THEN "confirm" ELSE "stored"]
    /\ UNCHANGED <<stored, Elsewhere>>

(* Nothing changed: only the confirmation instant moves, and only if the   *)
(* release is still the current one.                                       *)
Confirm(r) ==
    /\ At(r, "confirm")
    /\ confirmedAt' = IF pointer = job[r].candidate THEN clock ELSE confirmedAt
    /\ Stop(r)
    /\ UNCHANGED <<stored, pointer, liveSince, clock, pruning, selects, prunes>>

CheckStored(r) ==
    /\ At(r, "stored")
    /\ Goto(r, IF IsStored(job[r].candidate) THEN "verify" ELSE "insert")
    /\ UNCHANGED <<stored, Elsewhere>>

(* insertCandidate, first half: the release row (unique), then the shared  *)
(* rows that are missing.  Each insert waits for an open transaction that  *)
(* is inserting or deleting the same row.                                  *)
InsertRelease(r) ==
    LET c == job[r].candidate IN
    /\ At(r, "insert")
    /\ ~Locked(c)
    /\ \A q \in Refreshers \ {r} :
         At(q, "reference") =>
           job[q].candidate # c /\ job[q].own \cap Uses[c] = {}
    /\ IF IsStored(c)
       THEN Stop(r)
       ELSE job' = [job EXCEPT ![r].own = Uses[c] \ shared,
                               ![r].stage = "reference"]
    /\ UNCHANGED <<stored, Elsewhere>>

(* Faulty variant of Referenced: release_sources has no foreign key.       *)
ReferencedUnchecked(r) == TRUE

(* Second half: release_sources, whose foreign keys need every shared row, *)
(* and the commit.                                                         *)
Referenced(r) == Uses[job[r].candidate] \subseteq shared \cup job[r].own

InsertReferences(r) ==
    /\ At(r, "reference")
    /\ IF Referenced(r)
       THEN /\ activatedAt' = [activatedAt EXCEPT ![job[r].candidate] = 0]
            /\ shared' = shared \cup job[r].own
            /\ job' = [job EXCEPT ![r].own = {}, ![r].stage = "verify"]
       ELSE Stop(r) /\ UNCHANGED stored
    /\ UNCHANGED Elsewhere

(* verifyStoredRelease: every row the manifest names is there.             *)
Complete(c) == IsStored(c) /\ Uses[c] \subseteq shared

VerifyRows(r) ==
    /\ At(r, "verify")
    /\ IF Complete(job[r].candidate) THEN Goto(r, "floor") ELSE Stop(r)
    /\ UNCHANGED <<stored, Elsewhere>>

(* verifyCandidate reads the activated root again, then that root's corpus.*)
ReadActivated(r) ==
    /\ At(r, "floor")
    /\ job' = [job EXCEPT
                 ![r].base = pointer,
                 ![r].stage = IF pointer \in {None, job[r].candidate}
                              THEN "activate" ELSE "compare"]
    /\ UNCHANGED <<stored, Elsewhere>>

CompareCorpus(r) ==
    /\ At(r, "compare")
    /\ IF \/ job[r].override
          \/ Retains(CorpusOf(job[r].base), Corpus[job[r].candidate])
       THEN Goto(r, "activate")
       ELSE Stop(r)
    /\ UNCHANGED <<stored, Elsewhere>>

(* Faulty variant of FirstLive: the release's own timestamp is overwritten.*)
FirstLiveAgain(c, at) == at

(* COALESCE(releases.activated_at, the manifest's activation time).        *)
FirstLive(c, at) == IF WasLive(c) THEN activatedAt[c] ELSE at

PointTo(c, at) ==
    /\ pointer'     = c
    /\ liveSince'   = at
    /\ confirmedAt' = clock

(* activateCandidate: one statement under the release advisory lock.  It   *)
(* re-reads the pointer row it locks, so the comparison is with what is    *)
(* committed when the lock is granted; the target must still be stored.    *)
MayActivate(r) == pointer = job[r].expected /\ IsStored(job[r].candidate)

Activate(r) ==
    LET c  == job[r].candidate
        at == FirstLive(c, job[r].stamp)
    IN  /\ At(r, "activate")
        /\ ~Locked(c)
        /\ IF MayActivate(r)
           THEN /\ PointTo(c, at)
                /\ activatedAt' = [activatedAt EXCEPT ![c] = at]
           ELSE UNCHANGED <<activatedAt, current>>
        /\ Stop(r)
        /\ UNCHANGED <<shared, clock, pruning, selects, prunes>>

RefreshCrash(r) ==
    /\ ~At(r, "idle")
    /\ Stop(r)
    /\ UNCHANGED <<stored, Elsewhere>>

-----------------------------------------------------------------------------
(* selectStoredRelease: one serializable transaction.  An expected root    *)
(* that is not the current one is refused and changes nothing.             *)

(* Faulty variant of Selectable: the target need not have been activated.  *)
SelectableStored(c) == Complete(c)

Selectable(c) == Complete(c) /\ WasLive(c)

Select(c) ==
    /\ selects < MaxSelects
    /\ pointer # None /\ c # pointer
    /\ Selectable(c) /\ ~Locked(c)
    /\ PointTo(c, activatedAt[c])
    /\ selects' = selects + 1
    /\ UNCHANGED <<stored, clock, job, pruning, prunes>>

-----------------------------------------------------------------------------
(* prune-releases.mjs: one READ COMMITTED transaction of three statements. *)
(* The first computes what to delete from its snapshot and then deletes;   *)
(* the foreign key of current_release stops it from deleting the release   *)
(* the pointer has moved to in between.                                    *)

PruneSnapshot ==
    /\ prune = "idle"
    /\ prunes < MaxPrunes
    /\ prunes' = prunes + 1
    /\ prune'  = "delete"
    /\ doomed' = {c \in Roots : IsStored(c)} \ Window
    /\ UNCHANGED <<stored, current, clock, job, doomedRows, selects>>

PruneStop ==
    /\ prune' = "idle"
    /\ doomed' = {}
    /\ doomedRows' = {}

(* Faulty variant of PointerFree: current_release has no foreign key.      *)
PointerFreeUnchecked == TRUE

PointerFree == pointer \notin doomed

PruneDelete ==
    /\ prune = "delete"
    /\ IF PointerFree
       THEN prune' = "rows" /\ UNCHANGED <<doomed, doomedRows>>
       ELSE PruneStop
    /\ UNCHANGED <<stored, current, clock, job, selects, prunes>>

Remaining == {c \in Roots : IsStored(c)} \ doomed

(* The next statements compute the shared rows that no remaining release   *)
(* references, and delete them.  Between the two a refresh may commit a    *)
(* reference: release_sources' foreign keys then refuse the whole prune.   *)
(* From the delete to the commit everyone who needs one of the rows waits, *)
(* so those two are one step.                                              *)
PruneRows ==
    /\ prune = "rows"
    /\ prune' = "commit"
    /\ doomedRows' = shared \ UNION {Uses[c] : c \in Remaining}
    /\ UNCHANGED <<stored, current, clock, job, doomed, selects, prunes>>

PruneCommit ==
    /\ prune = "commit"
    /\ IF \A c \in Remaining : Uses[c] \cap doomedRows = {}
       THEN /\ activatedAt' = [c \in Roots |-> IF c \in doomed THEN None
                                               ELSE activatedAt[c]]
            /\ shared' = shared \ doomedRows
       ELSE UNCHANGED stored
    /\ PruneStop
    /\ UNCHANGED <<current, clock, job, selects, prunes>>

PruneCrash ==
    /\ prune # "idle"
    /\ PruneStop
    /\ UNCHANGED <<stored, current, clock, job, selects, prunes>>

-----------------------------------------------------------------------------
Init ==
    /\ activatedAt = [c \in Roots |-> None]
    /\ shared      = {}
    /\ pointer     = None
    /\ liveSince   = 0
    /\ confirmedAt = 0
    /\ clock       = 0
    /\ job         = [r \in Refreshers |-> NoJob]
    /\ prune       = "idle"
    /\ doomed      = {}
    /\ doomedRows  = {}
    /\ selects     = 0
    /\ prunes      = 0

Refresh(r) ==
    \/ Build(r)
    \/ ReadCurrent(r)
    \/ Confirm(r)
    \/ CheckStored(r)
    \/ InsertRelease(r)
    \/ InsertReferences(r)
    \/ VerifyRows(r)
    \/ ReadActivated(r)
    \/ CompareCorpus(r)
    \/ Activate(r)
    \/ RefreshCrash(r)

Prune ==
    \/ PruneSnapshot
    \/ PruneDelete
    \/ PruneRows
    \/ PruneCommit
    \/ PruneCrash

Next ==
    \/ \E r \in Refreshers : Refresh(r)
    \/ \E c \in Roots : Select(c)
    \/ Prune

Spec == Init /\ [][Next]_vars

-----------------------------------------------------------------------------
(* Properties.                                                             *)

(* Every column and every process variable holds a value of its domain.    *)
TypeOK ==
    /\ activatedAt \in [Roots -> Times \cup {None}]
    /\ shared \subseteq Shared
    /\ pointer \in Roots \cup {None}
    /\ liveSince \in Times /\ confirmedAt \in Times /\ clock \in Times
    /\ job \in [Refreshers -> Job]
    /\ \A r \in Refreshers : ~At(r, "idle") => job[r].candidate \in Roots
    /\ prune \in {"idle", "delete", "rows", "commit"}
    /\ doomed \subseteq Roots /\ doomedRows \subseteq Shared
    /\ selects \in 0 .. MaxSelects /\ prunes \in 0 .. MaxPrunes

(* Whatever refreshes, selections and prunes overlap, the pointer names a  *)
(* stored release that went live, carries that release's own first-live    *)
(* instant, and was confirmed at or after it.                              *)
PointerServable ==
    pointer # None =>
      /\ WasLive(pointer)
      /\ liveSince = activatedAt[pointer]
      /\ liveSince <= confirmedAt

(* No stored release, the live one included, ever misses a shared row it   *)
(* references, although inserts reuse rows that a prune may be deleting.   *)
SourcesPresent == \A c \in Roots : IsStored(c) => Uses[c] \subseteq shared

(* docs/WEB.md:248-256: a release's first-live instant is fixed until the  *)
(* release is pruned, by selection and by publishing it again alike.       *)
FirstLiveFixed ==
    [][\A c \in Roots : WasLive(c) => activatedAt'[c] \in {activatedAt[c], None}]_vars

FirstLives == [c \in Roots |-> IF WasLive(c) THEN activatedAt[c] ELSE 0]

(* The processes together implement the pointer the site relies on.        *)
Pointer == INSTANCE ReleasePointer WITH
    current <- pointer, firstLive <- FirstLives

ImplementsPointer == Pointer!Spec

MovesPointer(r) ==
    At(r, "activate") /\ At(r, "idle")' /\ pointer # None /\ pointer' # pointer

(* projection-store.mjs:651-653: without the override, a candidate that    *)
(* publishes less than half of what the release it replaces publishes is   *)
(* refused.                                                                *)
FloorHeld ==
    [][\A r \in Refreshers :
         MovesPointer(r) /\ ~job[r].override =>
           Retains(Corpus[pointer], Corpus[pointer'])]_vars

(* docs/WEB.md:304-306: the read contract retains the current release and  *)
(* its immediate activated predecessors; so the release a refresh replaces *)
(* stays readable right after.                                             *)
PredecessorRetained ==
    [][\A r \in Refreshers : MovesPointer(r) => pointer \in Window']_vars

=============================================================================
