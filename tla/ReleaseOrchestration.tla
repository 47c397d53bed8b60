------------------------ MODULE ReleaseOrchestration ------------------------
(***************************************************************************)
(* scripts/release-problems.mjs: operators release the site from their own *)
(* machines.  A branch of the origin serves as the lock; under it a run    *)
(* activates a projection release, deploys the commit, waits until         *)
(* production shows both, prunes the projection and retains a record.      *)
(* Any stage may fail, which ends in the cleanup of the finally block, and *)
(* a machine may stop, which does not.                                     *)
(*                                                                         *)
(* Vercel is outside: it builds what was posted, later or never, and gives *)
(* production to the newest deployment that is built.  A deployment serves *)
(* the release that was current when it was built.  The projection is      *)
(* reduced to what ProjectionRelease shows of it: a release keeps the time *)
(* it first went live, and a prune keeps the current one and the latest    *)
(* before it.                                                              *)
(***************************************************************************)
EXTENDS Naturals, FiniteSets, Sequences

CONSTANTS
    Operators,
    Roots,         \* projection releases the sources can build to
    Predecessors,  \* releases a prune keeps behind the current one; 2 in the code
    MaxCommits,    \* bound: commits on origin/main
    MaxRuns,       \* bound: runs of the script
    None

ASSUME BoundsAssumption == MaxCommits \in Nat \ {0} /\ MaxRuns \in Nat
ASSUME NoneAssumption   == None \notin Roots \cup Nat

VARIABLES
    main,         \* the commit origin/main is at
    lock,         \* the lock commit at refs/heads/ops/problems-release-lock, or None
    runs,         \* runs started so far; a lock commit is named by its run
    run,          \* operator -> what the script has in its context
    firstLive,    \* root -> when it first went live; 0 if it is not stored
    pointer,      \* the current projection release
    deployments,  \* what was posted to Vercel, in order
    live          \* the deployment problems.science serves

projection == <<firstLive, pointer>>
site       == <<deployments, live>>
vars       == <<main, lock, runs, run, firstLive, pointer, deployments, live>>

Stages ==
    {"idle", "lookup", "push", "readback", "prepare", "activate", "publish", "deploy",
     "readiness", "prune", "retain", "done", "failed", "delete", "confirm"}

(* number: the run; holds: context.releaseLock is set.                     *)
Run ==
    [stage : Stages, number : 0 .. MaxRuns, commit : 0 .. MaxCommits,
     holds : BOOLEAN, root : Roots \cup {None},
     deployment : Nat]

NoRun ==
    [stage |-> "idle", number |-> 0, commit |-> 0, holds |-> FALSE,
     root |-> None, deployment |-> 0]

Deployment == [commit : 1 .. MaxCommits, root : Roots \cup {None}]

At(o, stage)   == run[o].stage = stage
Goto(o, stage) == run' = [run EXCEPT ![o].stage = stage]

(* An error at any stage leads to the finally block.                       *)
Throw(o) == Goto(o, "failed")

Require(condition, o, stage) == IF condition THEN Goto(o, stage) ELSE Throw(o)

-----------------------------------------------------------------------------
(* exact_checkout: the worktree is at origin/main as just fetched.         *)
Checkout(o) ==
    /\ At(o, "idle")
    /\ runs < MaxRuns
    /\ runs' = runs + 1
    /\ run' = [run EXCEPT ![o] = [NoRun EXCEPT !.stage = "lookup", !.number = runs + 1,
                                              !.commit = main]]
    /\ UNCHANGED <<main, lock, projection, site>>

(* release_lock, in three round trips: look, push a new branch, look again.*)
LookForLock(o) ==
    /\ At(o, "lookup")
    /\ Require(lock = None, o, "push")
    /\ UNCHANGED <<main, lock, runs, projection, site>>

(* Faulty variant of PushAccepted: the push overwrites the branch.         *)
PushForced == TRUE

(* Lock commits are siblings, so a push over another one is not a          *)
(* fast-forward and is refused.                                            *)
PushAccepted == lock = None

PushLock(o) ==
    /\ At(o, "push")
    /\ IF PushAccepted
       THEN lock' = run[o].number /\ Goto(o, "readback")
       ELSE Throw(o) /\ UNCHANGED lock
    /\ UNCHANGED <<main, runs, projection, site>>

(* Only now does the run know that it holds the lock.                      *)
ReadLockBack(o) ==
    /\ At(o, "readback")
    /\ IF lock = run[o].number
       THEN run' = [run EXCEPT ![o].stage = "prepare", ![o].holds = TRUE]
       ELSE Throw(o)
    /\ UNCHANGED <<main, lock, runs, projection, site>>

(* Checks, acquisition, the adapters and the checkpoint of what is live:   *)
(* they read, and keep files of their own.                                 *)
Prepare(o) ==
    /\ At(o, "prepare")
    /\ Goto(o, "activate")
    /\ UNCHANGED <<main, lock, runs, projection, site>>

(* projection_activate: the refresh.  Sources may build to any root, one   *)
(* that was current before included; that one keeps its first-live time.   *)
(* A new one is later than every release so far.                           *)
Latest == CHOOSE t \in {firstLive[c] : c \in Roots} : \A c \in Roots : firstLive[c] <= t

ActivateProjection(o) ==
    /\ At(o, "activate")
    /\ \E c \in Roots :
         /\ pointer' = c
         /\ firstLive' = IF firstLive[c] > 0 THEN firstLive
                         ELSE [firstLive EXCEPT ![c] = Latest + 1]
         /\ run' = [run EXCEPT ![o].stage = "publish", ![o].root = c]
    /\ UNCHANGED <<main, lock, runs, site>>

(* site_publish, after the qualification of activity, product and          *)
(* reconstruction: origin/main must not have advanced.                     *)
Publish(o) ==
    /\ At(o, "publish")
    /\ Require(main = run[o].commit, o, "deploy")
    /\ UNCHANGED <<main, lock, runs, projection, site>>

(* production_deploy: the exact commit is posted to Vercel.                *)
Deploy(o) ==
    /\ At(o, "deploy")
    /\ deployments' = Append(deployments, [commit |-> run[o].commit, root |-> None])
    /\ run' = [run EXCEPT ![o].stage = "readiness",
                          ![o].deployment = Len(deployments) + 1]
    /\ UNCHANGED <<main, lock, runs, projection, live>>

(* Faulty variant of Converged: the deployment is not compared.            *)
ConvergedOnManifest(o) ==
    deployments[live].commit = run[o].commit /\ pointer = run[o].root

(* The manifest names the commit, the deployment and the release that is   *)
(* current; the pages show the release the deployment serves.              *)
Converged(o) ==
    /\ live = run[o].deployment
    /\ deployments[live].commit = run[o].commit
    /\ deployments[live].root = run[o].root
    /\ pointer = run[o].root

(* production_readiness polls; running out of time is a failure.           *)
Readiness(o) ==
    /\ At(o, "readiness")
    /\ Converged(o)
    /\ Goto(o, "prune")
    /\ UNCHANGED <<main, lock, runs, projection, site>>

Earlier ==
    {c \in Roots \ {pointer} : firstLive[c] > 0 /\ firstLive[c] <= firstLive[pointer]}

(* Faulty variant of Window: it holds the predecessors only.               *)
WindowBehind ==
    {c \in Earlier :
       Cardinality({d \in Earlier : firstLive[d] > firstLive[c]}) < Predecessors}

Window ==
    {pointer} \cup
    {c \in Earlier :
       Cardinality({d \in Earlier : firstLive[d] > firstLive[c]}) < Predecessors}

(* projection_prune                                                        *)
Prune(o) ==
    /\ At(o, "prune")
    /\ firstLive' = [c \in Roots |-> IF c \in Window THEN firstLive[c] ELSE 0]
    /\ Goto(o, "retain")
    /\ UNCHANGED <<main, lock, runs, pointer, site>>

(* qualification_retain                                                    *)
Retain(o) ==
    /\ At(o, "retain")
    /\ Goto(o, "done")
    /\ UNCHANGED <<main, lock, runs, projection, site>>

Fail(o) ==
    /\ run[o].stage \notin {"idle", "done", "failed", "delete", "confirm"}
    /\ Throw(o)
    /\ UNCHANGED <<main, lock, runs, projection, site>>

(* The finally block: a run that never learned it holds the lock leaves it.*)
(* Otherwise the lock must still be its own, is deleted if it still is     *)
(* (force-with-lease), and must then be gone.                              *)
Leave(o) == run' = [run EXCEPT ![o] = NoRun]

CleanUp(o) ==
    /\ run[o].stage \in {"done", "failed"}
    /\ IF run[o].holds /\ lock = run[o].number THEN Goto(o, "delete") ELSE Leave(o)
    /\ UNCHANGED <<main, lock, runs, projection, site>>

Leased(o) == lock = run[o].number

DeleteLock(o) ==
    /\ At(o, "delete")
    /\ IF Leased(o)
       THEN lock' = None /\ Goto(o, "confirm")
       ELSE Leave(o) /\ UNCHANGED lock
    /\ UNCHANGED <<main, runs, projection, site>>

ConfirmRemoved(o) ==
    /\ At(o, "confirm")
    /\ Leave(o)
    /\ UNCHANGED <<main, lock, runs, projection, site>>

(* The machine stops, or the connection goes after the push and before the *)
(* cleanup; the lock stays.                                                *)
Stop(o) ==
    /\ ~At(o, "idle")
    /\ Leave(o)
    /\ UNCHANGED <<main, lock, runs, projection, site>>

(* A person removes a lock whose run has ended, as the warning asks.       *)
RemoveAbandoned ==
    /\ lock # None
    /\ \A o \in Operators : run[o].number # lock
    /\ lock' = None
    /\ UNCHANGED <<main, runs, run, projection, site>>

-----------------------------------------------------------------------------
(* Outside.                                                                *)
PushMain ==
    /\ main < MaxCommits
    /\ main' = main + 1
    /\ UNCHANGED <<lock, runs, run, projection, site>>

(* build.mjs compiles the release that is current into the deployment.     *)
Build(n) ==
    /\ n \in DOMAIN deployments
    /\ deployments[n].root = None
    /\ deployments' = [deployments EXCEPT ![n].root = pointer]
    /\ UNCHANGED <<main, lock, runs, run, projection, live>>

Promote(n) ==
    /\ n \in DOMAIN deployments
    /\ n > live /\ deployments[n].root # None
    /\ live' = n
    /\ UNCHANGED <<main, lock, runs, run, projection, deployments>>

(* A first release is live.                                                *)
Init ==
    /\ main = 1
    /\ lock = None
    /\ runs = 0
    /\ run = [o \in Operators |-> NoRun]
    /\ pointer \in Roots
    /\ firstLive = [c \in Roots |-> IF c = pointer THEN 1 ELSE 0]
    /\ deployments = <<[commit |-> 1, root |-> pointer]>>
    /\ live = 1

Next ==
    \/ \E o \in Operators :
         \/ Checkout(o) \/ LookForLock(o) \/ PushLock(o) \/ ReadLockBack(o)
         \/ Prepare(o) \/ ActivateProjection(o) \/ Publish(o) \/ Deploy(o)
         \/ Readiness(o) \/ Prune(o) \/ Retain(o)
         \/ Fail(o) \/ CleanUp(o) \/ DeleteLock(o) \/ ConfirmRemoved(o) \/ Stop(o)
    \/ RemoveAbandoned \/ PushMain
    \/ \E n \in DOMAIN deployments : Build(n) \/ Promote(n)

Spec == Init /\ [][Next]_vars

-----------------------------------------------------------------------------
(* Every variable is of its type, and the current release is stored.       *)
TypeOK ==
    /\ main \in 1 .. MaxCommits
    /\ lock \in 1 .. MaxRuns \cup {None}
    /\ runs \in 0 .. MaxRuns
    /\ run \in [Operators -> Run]
    /\ firstLive \in [Roots -> Nat]
    /\ pointer \in Roots /\ firstLive[pointer] > 0
    /\ deployments \in Seq(Deployment)
    /\ live \in DOMAIN deployments

(* Stages that change the projection, production or the record.            *)
Releasing(o) ==
    run[o].stage \in {"prepare", "activate", "publish", "deploy", "readiness",
                      "prune", "retain"}

(* The lock does its work: two operators never release at once, although   *)
(* each looks, pushes and looks again, runs fail half way, and people      *)
(* remove what a stopped run left behind.                                  *)
OneRelease ==
    \A o, p \in Operators : Releasing(o) /\ Releasing(p) => o = p

(* What production serves is there to be read: the prune never removes the *)
(* release the live deployment was built with, though failed runs have     *)
(* moved the current release past it any number of times.                  *)
LiveServable == firstLive[deployments[live].root] > 0

(* The retained record is true when it is written: production serves the   *)
(* commit and the release of this run.                                     *)
RecordTrue ==
    \A o \in Operators : At(o, "retain") =>
      /\ live = run[o].deployment
      /\ deployments[live] = [commit |-> run[o].commit, root |-> run[o].root]
      /\ pointer = run[o].root

(* The two together: production serves a release that is stored, and at    *)
(* the end of a run the one that the run records.                          *)
ProductionTrue == LiveServable /\ RecordTrue
=============================================================================
