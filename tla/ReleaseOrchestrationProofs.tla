--------------------- MODULE ReleaseOrchestrationProofs ---------------------
(* However operators interleave, fail, stop and clean up after each other, *)
(* at most one of them releases, production serves a release that is       *)
(* stored, and a retained record is true.                                  *)
EXTENDS ReleaseOrchestration, WellFoundedInduction, TLAPS

(* A run has a commit and a number of its own, and no lock is of a run to  *)
(* come.                                                                   *)
Issued ==
    /\ \A o \in Operators :
         /\ run[o].number <= runs
         /\ run[o].number = 0 <=> At(o, "idle")
         /\ run[o].commit = 0 <=> At(o, "idle")
    /\ \A o, p \in Operators :
         run[o].number = run[p].number /\ ~At(o, "idle") => o = p
    /\ lock # None => lock <= runs

(* Whoever releases finds the branch at its own commit, although nothing   *)
(* in a stage looks again.                                                 *)
Held == \A o \in Operators : Releasing(o) => lock = run[o].number

LockInv ==
    /\ TypeOK
    /\ Issued
    /\ Held

(* From its post to its record, a run's deployment is the newest: nothing  *)
(* can take production from it once it is there.                           *)
Newest ==
    \A o \in Operators :
      run[o].stage \in {"readiness", "prune", "retain"} =>
        run[o].deployment = Len(deployments)

Shown(o) ==
    /\ live = run[o].deployment
    /\ deployments[live] = [commit |-> run[o].commit, root |-> run[o].root]
    /\ pointer = run[o].root

(* What production serves or may still come to serve is stored, once it is *)
(* built.                                                                  *)
Servable ==
    \A n \in DOMAIN deployments :
      n >= live /\ deployments[n].root # None => firstLive[deployments[n].root] > 0

ServeInv ==
    /\ Newest
    /\ \A o \in Operators : run[o].stage \in {"prune", "retain"} => Shown(o)
    /\ Servable
    /\ deployments[live].root # None

-----------------------------------------------------------------------------
(* A set of natural numbers has a least element, and a bounded one that is *)
(* not empty a greatest.                                                   *)
LEMMA Least ==
    ASSUME NEW S \in SUBSET Nat, S # {}
    PROVE  \E m \in S : \A x \in S : m <= x
<1> DEFINE R == OpToRel(<, Nat)
<1>1. IsWellFoundedOn(R, Nat)
  BY NatLessThanWellFounded, Zenon
<1>2. PICK m \in S : \A y \in S : ~ (<<y, m>> \in R)
  <2> HIDE DEF R
  <2> QED BY <1>1, WFMin, Zenon
<1>3. \A x, y \in Nat : <<x, y>> \in R <=> x < y
  BY SMT DEF OpToRel
<1>4. \A x \in S : ~ (x < m)
  BY <1>2, <1>3, Zenon
<1> QED BY <1>4

LEMMA Greatest ==
    ASSUME NEW S \in SUBSET Nat, S # {}, NEW b \in Nat, \A x \in S : x <= b
    PROVE  \E m \in S : \A x \in S : x <= m
<1> DEFINE B == {c \in Nat : \A x \in S : x <= c}
<1>1. PICK m \in B : \A c \in B : m <= c
  <2>1. B \in SUBSET Nat /\ b \in B  OBVIOUS
  <2> HIDE DEF B
  <2> QED BY <2>1, Least
<1>2. m \in S
  <2> SUFFICES ASSUME m \notin S PROVE FALSE
    OBVIOUS
  <2>1. \A x \in S : x < m
    BY <1>1
  <2>2. PICK x \in S : TRUE
    OBVIOUS
  <2>3. m \in Nat /\ m > 0
    BY <2>1, <2>2
  <2>4. m - 1 \in B
    <3>1. m - 1 \in Nat /\ \A y \in S : y <= m - 1
      BY <2>1, <2>3
    <3> QED BY <3>1
  <2> QED BY <2>3, <2>4, <1>1
<1> QED BY <1>1, <1>2

-----------------------------------------------------------------------------
(* First-live times are bounded, so that there is a latest.                *)
Bounded == \E b \in Nat : \A c \in Roots : firstLive[c] <= b

LEMMA LatestBounds ==
    ASSUME TypeOK, Bounded
    PROVE  Latest \in Nat /\ \A c \in Roots : firstLive[c] <= Latest
<1> DEFINE T == {firstLive[c] : c \in Roots}
<1>1. T \in SUBSET Nat /\ T # {}
  BY DEF TypeOK
<1>2. PICK b \in Nat : \A x \in T : x <= b
  BY DEF Bounded
<1>3. \E t \in T : \A x \in T : x <= t
  <2> HIDE DEF T
  <2> QED BY <1>1, <1>2, Greatest
<1>4. \E t \in T : \A c \in Roots : firstLive[c] <= t
  BY <1>3
<1>5. Latest \in T /\ \A c \in Roots : firstLive[c] <= Latest
  BY <1>4, Zenon DEF Latest
<1> QED BY <1>1, <1>5

-----------------------------------------------------------------------------
LEMMA RunInit == Init => LockInv /\ Bounded
<1> SUFFICES ASSUME Init PROVE LockInv /\ Bounded
  OBVIOUS
<1> USE BoundsAssumption, NoneAssumption DEF Init
<1>1. NoRun \in Run
  BY DEF NoRun, Run, Stages
<1>2. TypeOK
  <2>1. deployments \in Seq(Deployment) /\ live \in DOMAIN deployments
    BY DEF Deployment
  <2> QED BY <1>1, <2>1 DEF TypeOK
<1>3. Issued /\ Held
  BY DEF Issued, Held, At, Releasing, NoRun
<1>4. Bounded
  BY DEF Bounded
<1> QED BY <1>2, <1>3, <1>4 DEF LockInv

(* What o does to its own run: it ends it, or moves it on, and does not    *)
(* start to release unless the lock is at its commit.                      *)
OwnStep(o, r) ==
    /\ run' = [run EXCEPT ![o] = r]
    /\ \/ r = NoRun
       \/ /\ r.stage # "idle" /\ ~At(o, "idle")
          /\ r.number = run[o].number /\ r.commit = run[o].commit
          /\ \/ r.stage \in {"lookup", "push", "readback", "done", "failed", "delete",
                             "confirm"}
             \/ Releasing(o)
             \/ lock = r.number

LEMMA OwnStepKeeps ==
    ASSUME LockInv, NEW o \in Operators, NEW r \in Run, OwnStep(o, r),
           runs' = runs,
           \/ lock' = lock
           \/ lock = None /\ lock' = run[o].number /\ ~At(o, "idle")
           \/ lock' = None /\ lock = run[o].number /\ r.stage = "confirm"
    PROVE  Issued' /\ Held'
<1> USE NoneAssumption DEF LockInv
<1>1. run \in [Operators -> Run] /\ runs \in Nat /\ NoRun.number = 0 /\ NoRun.commit = 0
       /\ NoRun.stage = "idle"
  BY BoundsAssumption DEF TypeOK, NoRun
<1>2. \A p \in Operators : run[p].number \in Nat /\ run'[p] = IF p = o THEN r ELSE run[p]
  BY <1>1, BoundsAssumption DEF OwnStep, Run
<1>3. Issued'
  BY <1>1, <1>2 DEF Issued, OwnStep, At
<1>4. Held'
  <2> SUFFICES ASSUME NEW p \in Operators, Releasing(p)'
               PROVE  lock' = run'[p].number
    BY DEF Held
  <2>1. ~At(p, "idle")'
    BY DEF Releasing, At
  <2>2. CASE p = o
    <3>1. lock = run[o].number /\ r.number = run[o].number /\ r.stage # "confirm"
      BY <1>1, <1>2, <2>1, <2>2 DEF Held, OwnStep, Releasing, At
    <3> QED BY <1>2, <2>2, <3>1
  <2>3. CASE p # o
    <3>1. Releasing(p) /\ ~At(p, "idle") /\ lock = run[p].number
      BY <1>2, <2>1, <2>3 DEF Held, Releasing, At
    <3>2. lock # None /\ lock # run[o].number
      BY <1>2, <2>3, <3>1 DEF Issued
    <3> QED BY <1>2, <2>3, <3>1, <3>2
  <2> QED BY <2>2, <2>3
<1> QED BY <1>3, <1>4

-----------------------------------------------------------------------------
(* Steps that only read what is shared.                                    *)
LooksOnly(o) ==
    \/ LookForLock(o) \/ ReadLockBack(o) \/ Prepare(o) \/ Publish(o) \/ Readiness(o)
    \/ Retain(o) \/ Fail(o) \/ CleanUp(o) \/ ConfirmRemoved(o) \/ Stop(o)

LEMMA ReadsOwnStep ==
    ASSUME LockInv, NEW o \in Operators, LooksOnly(o)
    PROVE  /\ \E r \in Run : OwnStep(o, r)
           /\ UNCHANGED <<main, lock, runs, projection, site>>
<1>1. run \in [Operators -> Run] /\ NoRun \in Run
  BY BoundsAssumption DEF LockInv, TypeOK, NoRun, Run, Stages
<1>2. ASSUME NEW t \in Stages, t # "idle", ~At(o, "idle"), Goto(o, t),
             \/ t \in {"lookup", "push", "readback", "done", "failed", "delete", "confirm"}
             \/ Releasing(o)
      PROVE  \E r \in Run : OwnStep(o, r)
  <2> DEFINE r == [run[o] EXCEPT !.stage = t]
  <2>1. r \in Run
    BY <1>1, <1>2 DEF Run
  <2>2. OwnStep(o, r)
    BY <1>1, <1>2 DEF OwnStep, Goto, Run
  <2> QED BY <2>1, <2>2
<1>3. ASSUME Leave(o) PROVE \E r \in Run : OwnStep(o, r)
  BY <1>1, <1>3 DEF Leave, OwnStep
<1> USE DEF Throw, Require, At, Stages
<1>4. CASE LookForLock(o)
  BY <1>2, <1>4 DEF LookForLock
<1>5. CASE ReadLockBack(o)
  <2>1. CASE lock = run[o].number
    <3> DEFINE r == [run[o] EXCEPT !.stage = "prepare", !.holds = TRUE]
    <3>1. r \in Run
      BY <1>1 DEF Run
    <3>2. OwnStep(o, r)
      BY <1>1, <1>5, <2>1 DEF OwnStep, ReadLockBack, Run
    <3> QED BY <1>5, <3>1, <3>2 DEF ReadLockBack
  <2>2. CASE lock # run[o].number
    BY <1>2, <1>5, <2>2 DEF ReadLockBack
  <2> QED BY <2>1, <2>2
<1>6. CASE Prepare(o) \/ Publish(o) \/ Readiness(o) \/ Retain(o)
  BY <1>2, <1>6 DEF Prepare, Publish, Readiness, Retain, Releasing
<1>7. CASE Fail(o)
  BY <1>2, <1>7 DEF Fail
<1>8. CASE CleanUp(o)
  BY <1>2, <1>3, <1>8 DEF CleanUp
<1>9. CASE ConfirmRemoved(o) \/ Stop(o)
  BY <1>3, <1>9 DEF ConfirmRemoved, Stop
<1> QED BY <1>4, <1>5, <1>6, <1>7, <1>8, <1>9 DEF LooksOnly

LEMMA OwnStepTyped ==
    ASSUME LockInv, NEW o \in Operators, NEW r \in Run, OwnStep(o, r)
    PROVE  run' \in [Operators -> Run]
BY DEF LockInv, TypeOK, OwnStep

LEMMA PruneSpares ==
    ASSUME TypeOK, NEW o \in Operators, Prune(o)
    PROVE  /\ firstLive' \in [Roots -> Nat]
           /\ firstLive'[pointer] = firstLive[pointer]
           /\ \A c \in Roots : firstLive'[c] <= firstLive[c]
<1>1. pointer \in Window
  BY DEF Window
<1>2. firstLive' = [c \in Roots |-> IF c \in Window THEN firstLive[c] ELSE 0]
  BY DEF Prune
<1> QED BY <1>1, <1>2 DEF TypeOK

LEMMA ActivateKeeps ==
    ASSUME TypeOK, Bounded, NEW o \in Operators, ActivateProjection(o)
    PROVE  /\ firstLive' \in [Roots -> Nat]
           /\ pointer' \in Roots /\ firstLive'[pointer'] > 0
           /\ \A c \in Roots : firstLive[c] > 0 => firstLive'[c] = firstLive[c]
           /\ Bounded'
<1>1. Latest \in Nat /\ \A c \in Roots : firstLive[c] <= Latest
  BY LatestBounds
<1>2. PICK c \in Roots :
        /\ pointer' = c
        /\ firstLive' = IF firstLive[c] > 0 THEN firstLive
                        ELSE [firstLive EXCEPT ![c] = Latest + 1]
  BY DEF ActivateProjection
<1>3. firstLive \in [Roots -> Nat]
  BY DEF TypeOK
<1>4. \A d \in Roots : firstLive'[d] <= Latest + 1
  BY <1>1, <1>2, <1>3
<1>5. Latest + 1 \in Nat
  BY <1>1
<1>6. Bounded'
  BY <1>4, <1>5, Zenon DEF Bounded
<1> QED BY <1>1, <1>2, <1>3, <1>6

LEMMA RunStep == LockInv /\ Bounded /\ [Next]_vars => LockInv' /\ Bounded'
<1> SUFFICES ASSUME LockInv, Bounded, [Next]_vars PROVE LockInv' /\ Bounded'
  OBVIOUS
<1> USE BoundsAssumption, NoneAssumption
<1>1. TypeOK /\ Issued /\ Held
  BY DEF LockInv
<1>2. run \in [Operators -> Run] /\ NoRun \in Run /\ runs \in 0 .. MaxRuns
  BY <1>1 DEF TypeOK, NoRun, Run, Stages
<1>3. ASSUME UNCHANGED firstLive PROVE Bounded'
  BY <1>3 DEF Bounded
<1>4. CASE UNCHANGED vars
  BY <1>1, <1>3, <1>4 DEF vars, LockInv, TypeOK, Issued, Held, Releasing, At
<1>5. ASSUME NEW o \in Operators, LooksOnly(o) PROVE LockInv' /\ Bounded'
  <2>1. PICK r \in Run : OwnStep(o, r)
    BY <1>5, ReadsOwnStep
  <2>2. UNCHANGED <<main, lock, runs, projection, site>>
    BY <1>5, ReadsOwnStep
  <2>3. TypeOK'
    BY <1>1, <2>1, <2>2, OwnStepTyped DEF TypeOK, projection, site
  <2>4. Issued' /\ Held'
    BY <2>1, <2>2, OwnStepKeeps
  <2> QED BY <1>3, <2>2, <2>3, <2>4 DEF LockInv, projection
<1>6. ASSUME NEW o \in Operators, Checkout(o) PROVE LockInv' /\ Bounded'
  <2> DEFINE r == [NoRun EXCEPT !.stage = "lookup", !.number = runs + 1, !.commit = main]
  <2>1. r \in Run /\ r.number = runs + 1 /\ r.stage = "lookup" /\ r.commit # 0
    <3>1. runs + 1 \in 0 .. MaxRuns /\ main \in 0 .. MaxCommits /\ main # 0
      BY <1>1, <1>2, <1>6 DEF Checkout, TypeOK
    <3> QED BY <3>1 DEF NoRun, Run, Stages
  <2>2. run' = [run EXCEPT ![o] = r] /\ runs' = runs + 1
    BY <1>6 DEF Checkout
  <2>3. TypeOK'
    <3>1. runs' \in 0 .. MaxRuns
      BY <1>2, <1>6 DEF Checkout
    <3>2. run' \in [Operators -> Run]
      BY <1>2, <2>1, <2>2
    <3> QED BY <1>1, <1>6, <3>1, <3>2 DEF Checkout, TypeOK, projection, site
  <2> HIDE DEF r
  <2>4. \A p \in Operators : run'[p] = IF p = o THEN r ELSE run[p]
    BY <1>2, <2>2
  <2>5. \A p \in Operators : run[p].number \in Nat
    BY <1>2 DEF Run
  <2>6. lock' = lock /\ (lock # None => lock \in Nat)
    BY <1>1, <1>6 DEF Checkout, TypeOK
  <2>7. Issued'
    BY <1>1, <1>2, <2>1, <2>2, <2>4, <2>5, <2>6 DEF Issued, At
  <2>8. Held'
    BY <1>1, <2>1, <2>4, <2>6 DEF Held, Releasing
  <2> QED BY <1>3, <1>6, <2>3, <2>7, <2>8 DEF LockInv, Checkout, projection
<1>7. ASSUME NEW o \in Operators, PushLock(o) PROVE LockInv' /\ Bounded'
  <2> DEFINE r(t) == [run[o] EXCEPT !.stage = t]
  <2>1. \A t \in {"readback", "failed"} : r(t) \in Run
    BY <1>2 DEF Run, Stages
  <2>2. PICK t \in {"readback", "failed"} : run' = [run EXCEPT ![o] = r(t)]
    BY <1>2, <1>7 DEF PushLock, Goto, Throw
  <2>3. OwnStep(o, r(t))
    BY <1>2, <1>7, <2>2 DEF OwnStep, PushLock, At, Run
  <2>4. lock' = lock \/ (lock = None /\ lock' = run[o].number /\ ~At(o, "idle"))
    BY <1>7 DEF PushLock, PushAccepted, At
  <2>5. lock' \in 1 .. MaxRuns \cup {None}
    <3>1. run[o].number \in 0 .. MaxRuns /\ (~At(o, "idle") => run[o].number # 0)
      BY <1>1, <1>2 DEF Issued, Run
    <3> QED BY <1>1, <2>4, <3>1 DEF TypeOK
  <2>6. UNCHANGED <<main, runs, projection, site>>
    BY <1>7 DEF PushLock
  <2>7. TypeOK'
    BY <1>1, <2>1, <2>3, <2>5, <2>6, OwnStepTyped DEF TypeOK, projection, site
  <2> HIDE DEF r
  <2>8. Issued' /\ Held'
    BY <2>1, <2>3, <2>4, <2>6, OwnStepKeeps
  <2> QED BY <1>3, <2>6, <2>7, <2>8 DEF LockInv, projection
<1>8. ASSUME NEW o \in Operators, DeleteLock(o) PROVE LockInv' /\ Bounded'
  <2>1. PICK r \in Run :
          /\ OwnStep(o, r)
          /\ lock' = lock \/ (lock' = None /\ lock = run[o].number /\ r.stage = "confirm")
    <3>1. CASE Leased(o)
      <4> DEFINE r == [run[o] EXCEPT !.stage = "confirm"]
      <4>1. r \in Run
        BY <1>2 DEF Run, Stages
      <4>2. OwnStep(o, r)
        BY <1>2, <1>8, <3>1 DEF OwnStep, DeleteLock, Goto, At, Run
      <4> QED BY <1>2, <1>8, <3>1, <4>1, <4>2 DEF DeleteLock, Leased, Run
    <3>2. CASE ~Leased(o)
      BY <1>2, <1>8, <3>2 DEF DeleteLock, Leave, OwnStep
    <3> QED BY <3>1, <3>2
  <2>2. UNCHANGED <<main, runs, projection, site>>
    BY <1>8 DEF DeleteLock
  <2>3. TypeOK'
    BY <1>1, <2>1, <2>2, OwnStepTyped DEF TypeOK, projection, site
  <2>4. Issued' /\ Held'
    BY <2>1, <2>2, OwnStepKeeps
  <2> QED BY <1>3, <2>2, <2>3, <2>4 DEF LockInv, projection
<1>9. ASSUME NEW o \in Operators, ActivateProjection(o) PROVE LockInv' /\ Bounded'
  <2>1. PICK c \in Roots : run' = [run EXCEPT ![o].stage = "publish", ![o].root = c]
    BY <1>9 DEF ActivateProjection
  <2> DEFINE r == [run[o] EXCEPT !.stage = "publish", !.root = c]
  <2>2. r \in Run
    BY <1>2 DEF Run, Stages
  <2>3. OwnStep(o, r)
    BY <1>2, <1>9, <2>1 DEF OwnStep, ActivateProjection, At, Releasing, Run
  <2>4. UNCHANGED <<main, lock, runs, site>>
    BY <1>9 DEF ActivateProjection
  <2>5. TypeOK'
    BY <1>1, <1>9, <2>2, <2>3, <2>4, OwnStepTyped, ActivateKeeps DEF TypeOK, site
  <2> HIDE DEF r
  <2>6. Issued' /\ Held'
    BY <2>2, <2>3, <2>4, OwnStepKeeps
  <2> QED BY <1>1, <1>9, <2>5, <2>6, ActivateKeeps DEF LockInv
<1>10. ASSUME NEW o \in Operators, Deploy(o) PROVE LockInv' /\ Bounded'
  <2> DEFINE r == [run[o] EXCEPT !.stage = "readiness", !.deployment = Len(deployments) + 1]
             d == [commit |-> run[o].commit, root |-> None]
  <2>1. r \in Run
    <3>1. Len(deployments) + 1 \in Nat
      BY <1>1 DEF TypeOK
    <3> QED BY <1>2, <3>1 DEF Run, Stages
  <2>2. OwnStep(o, r)
    BY <1>2, <1>10 DEF OwnStep, Deploy, At, Releasing, Run
  <2>3. UNCHANGED <<main, lock, runs, projection, live>> /\ deployments' = Append(deployments, d)
    BY <1>10 DEF Deploy
  <2>4. TypeOK'
    <3>1. d \in Deployment
      <4>1. run[o].commit \in 1 .. MaxCommits
        BY <1>1, <1>2, <1>10 DEF Issued, Deploy, At, Run
      <4> QED BY <4>1 DEF Deployment
    <3>2. deployments' \in Seq(Deployment) /\ live' \in DOMAIN deployments'
      BY <1>1, <2>3, <3>1 DEF TypeOK
    <3> QED BY <1>1, <2>1, <2>2, <2>3, <3>2, OwnStepTyped DEF TypeOK, projection
  <2> HIDE DEF r
  <2>5. Issued' /\ Held'
    BY <2>1, <2>2, <2>3, OwnStepKeeps
  <2> QED BY <1>3, <2>3, <2>4, <2>5 DEF LockInv, projection
<1>11. ASSUME NEW o \in Operators, Prune(o) PROVE LockInv' /\ Bounded'
  <2> DEFINE r == [run[o] EXCEPT !.stage = "retain"]
  <2>1. r \in Run
    BY <1>2 DEF Run, Stages
  <2>2. OwnStep(o, r)
    BY <1>2, <1>11 DEF OwnStep, Prune, Goto, At, Releasing, Run
  <2>3. UNCHANGED <<main, lock, runs, pointer, site>>
    BY <1>11 DEF Prune
  <2>4. TypeOK'
    BY <1>1, <1>11, <2>1, <2>2, <2>3, OwnStepTyped, PruneSpares DEF TypeOK, site
  <2> HIDE DEF r
  <2>5. Issued' /\ Held'
    BY <2>1, <2>2, <2>3, OwnStepKeeps
  <2>6. Bounded'
    <3>1. firstLive \in [Roots -> Nat] /\ firstLive' \in [Roots -> Nat]
      BY <1>1, <2>4 DEF TypeOK
    <3> QED BY <1>1, <1>11, <3>1, PruneSpares DEF Bounded
  <2> QED BY <2>4, <2>5, <2>6 DEF LockInv
<1>12. ASSUME RemoveAbandoned PROVE LockInv' /\ Bounded'
  BY <1>1, <1>3, <1>12
     DEF RemoveAbandoned, projection, site, LockInv, TypeOK, Issued, Held, Releasing, At
<1>13. ASSUME PushMain PROVE LockInv' /\ Bounded'
  BY <1>1, <1>3, <1>13
     DEF PushMain, projection, site, LockInv, TypeOK, Issued, Held, Releasing, At
<1>14. ASSUME NEW n \in DOMAIN deployments, Build(n) \/ Promote(n)
       PROVE  LockInv' /\ Bounded'
  <2>1. UNCHANGED <<main, lock, runs, run, projection>>
    BY <1>14 DEF Build, Promote
  <2>2. deployments' \in Seq(Deployment) /\ live' \in DOMAIN deployments'
    <3>1. /\ deployments \in Seq(Deployment) /\ deployments[n] \in Deployment
          /\ live \in DOMAIN deployments /\ pointer \in Roots
      BY <1>1, <1>14 DEF TypeOK
    <3>2. CASE Build(n)
      <4>1. [deployments[n] EXCEPT !.root = pointer] \in Deployment
        BY <3>1 DEF Deployment
      <4> QED BY <3>1, <3>2, <4>1 DEF Build
    <3>3. CASE Promote(n)
      BY <3>1, <3>3 DEF Promote
    <3> QED BY <1>14, <3>2, <3>3
  <2> QED BY <1>1, <1>3, <2>1, <2>2
          DEF projection, LockInv, TypeOK, Issued, Held, Releasing, At
<1> QED
  BY <1>4, <1>5, <1>6, <1>7, <1>8, <1>9, <1>10, <1>11, <1>12, <1>13, <1>14 DEF Next, LooksOnly

-----------------------------------------------------------------------------
LEMMA HeldByOne == LockInv => OneRelease
<1> SUFFICES ASSUME LockInv, NEW o \in Operators, NEW p \in Operators,
                    Releasing(o), Releasing(p)
             PROVE  o = p
  BY DEF OneRelease
<1>1. run[o].number = run[p].number
  BY DEF LockInv, Held
<1>2. ~At(o, "idle")
  BY DEF Releasing, At
<1> QED BY <1>1, <1>2 DEF LockInv, Issued

(* Whatever another run does while one releases, that run's stage and what *)
(* it has found are not touched; its own steps show what they rely on.     *)
OwnServing(o, r) ==
    /\ run' = [run EXCEPT ![o] = r]
    /\ \/ r.stage \notin {"readiness", "prune", "retain"}
       \/ /\ run[o].stage \in {"readiness", "prune", "retain"}
          /\ r.deployment = run[o].deployment
          /\ r.commit = run[o].commit /\ r.root = run[o].root
          /\ r.stage \in {"prune", "retain"} => Shown(o)

LEMMA OwnServingKeeps ==
    ASSUME LockInv, ServeInv, NEW o \in Operators, NEW r, OwnServing(o, r),
           UNCHANGED <<pointer, deployments, live>>
    PROVE  /\ Newest'
           /\ \A p \in Operators : run'[p].stage \in {"prune", "retain"} => Shown(p)'
<1>1. \A p \in Operators : run'[p] = IF p = o THEN r ELSE run[p]
  BY DEF LockInv, TypeOK, OwnServing
<1>2. Newest'
  BY <1>1 DEF ServeInv, Newest, OwnServing
<1>3. ASSUME NEW p \in Operators, run'[p].stage \in {"prune", "retain"}
      PROVE  Shown(p)'
  BY <1>1, <1>3 DEF ServeInv, Shown, OwnServing
<1> QED BY <1>2, <1>3

LEMMA ReadsServing ==
    ASSUME LockInv, NEW o \in Operators, LooksOnly(o)
    PROVE  \E r : OwnServing(o, r)
<1>1. run \in [Operators -> Run]
  BY DEF LockInv, TypeOK
<1>2. ASSUME NEW t \in Stages \ {"readiness", "prune", "retain"}, Goto(o, t)
      PROVE  \E r : OwnServing(o, r)
  <2> DEFINE r == [run[o] EXCEPT !.stage = t]
  <2>1. OwnServing(o, r)
    BY <1>1, <1>2 DEF OwnServing, Goto, Run
  <2> QED BY <2>1
<1>3. ASSUME Leave(o) PROVE \E r : OwnServing(o, r)
  <2>1. OwnServing(o, NoRun)
    BY <1>3 DEF Leave, OwnServing, NoRun
  <2> QED BY <2>1
<1> USE DEF Throw, Require, Stages
<1>4. CASE LookForLock(o) \/ Prepare(o) \/ Publish(o) \/ Retain(o) \/ Fail(o)
  BY <1>2, <1>4 DEF LookForLock, Prepare, Publish, Retain, Fail
<1>5. CASE ReadLockBack(o)
  <2>1. CASE lock = run[o].number
    <3> DEFINE r == [run[o] EXCEPT !.stage = "prepare", !.holds = TRUE]
    <3>1. run' = [run EXCEPT ![o].stage = "prepare", ![o].holds = TRUE]
      BY <1>5, <2>1 DEF ReadLockBack
    <3>2. run' = [run EXCEPT ![o] = r]
      BY <1>1, <3>1 DEF Run
    <3>3. r.stage = "prepare"
      BY <1>1 DEF Run
    <3>4. OwnServing(o, r)
      BY <3>2, <3>3 DEF OwnServing
    <3> QED BY <3>4
  <2>2. CASE lock # run[o].number
    BY <1>2, <1>5, <2>2 DEF ReadLockBack
  <2> QED BY <2>1, <2>2
<1>6. CASE Readiness(o)
  <2> DEFINE r == [run[o] EXCEPT !.stage = "prune"]
  <2>1. deployments[live] \in Deployment
    BY DEF LockInv, TypeOK
  <2>2. Shown(o)
    BY <1>6, <2>1 DEF Readiness, Converged, Shown, Deployment
  <2>3. OwnServing(o, r)
    BY <1>1, <1>6, <2>2 DEF OwnServing, Readiness, Goto, At, Run
  <2> QED BY <2>3
<1>7. CASE CleanUp(o) \/ ConfirmRemoved(o) \/ Stop(o)
  BY <1>2, <1>3, <1>7 DEF CleanUp, ConfirmRemoved, Stop
<1> QED BY <1>4, <1>5, <1>6, <1>7 DEF LooksOnly

LEMMA ServeInit == Init => ServeInv
BY NoneAssumption DEF Init, ServeInv, Newest, Servable, Shown, NoRun

LEMMA ServeStep == LockInv /\ Bounded /\ ServeInv /\ [Next]_vars => ServeInv'
<1> SUFFICES ASSUME LockInv, Bounded, ServeInv, [Next]_vars PROVE ServeInv'
  OBVIOUS
<1> USE NoneAssumption
<1>1. TypeOK /\ OneRelease /\ run \in [Operators -> Run]
  BY HeldByOne DEF LockInv, TypeOK
<1>2. ASSUME UNCHANGED <<firstLive, deployments, live>>
      PROVE  Servable' /\ deployments'[live'].root # None
  BY <1>2 DEF ServeInv, Servable
<1>3. CASE UNCHANGED vars
  BY <1>3 DEF vars, ServeInv, Newest, Servable, Shown
<1>4. ASSUME NEW o \in Operators, NEW r, OwnServing(o, r),
             UNCHANGED <<firstLive, pointer, deployments, live>>
      PROVE  ServeInv'
  BY <1>2, <1>4, OwnServingKeeps DEF ServeInv
<1>5. ASSUME NEW o \in Operators, LooksOnly(o) PROVE ServeInv'
  <2>1. PICK r : OwnServing(o, r)
    BY <1>5, ReadsServing
  <2>2. UNCHANGED <<firstLive, pointer, deployments, live>>
    BY <1>5, ReadsOwnStep DEF projection, site
  <2> QED BY <1>4, <2>1, <2>2
<1>6. ASSUME NEW o \in Operators, Checkout(o) \/ PushLock(o) \/ DeleteLock(o)
      PROVE  ServeInv'
  <2>1. \E r : OwnServing(o, r)
    <3>1. CASE Checkout(o)
      <4> DEFINE r == [NoRun EXCEPT !.stage = "lookup", !.number = runs + 1,
                                    !.commit = main]
      <4>1. run' = [run EXCEPT ![o] = r] /\ r.stage = "lookup"
        BY <3>1 DEF Checkout, NoRun
      <4>2. OwnServing(o, r)
        BY <4>1 DEF OwnServing
      <4> QED BY <4>2
    <3>2. ASSUME NEW t \in {"readback", "failed", "confirm"}, Goto(o, t)
          PROVE  \E r : OwnServing(o, r)
      <4> DEFINE r == [run[o] EXCEPT !.stage = t]
      <4>1. OwnServing(o, r)
        BY <1>1, <3>2 DEF OwnServing, Goto, Run
      <4> QED BY <4>1
    <3>3. CASE PushLock(o)
      BY <3>2, <3>3 DEF PushLock, Throw
    <3>4. CASE DeleteLock(o)
      <4>1. ASSUME Leave(o) PROVE OwnServing(o, NoRun)
        BY <4>1 DEF Leave, OwnServing, NoRun
      <4> QED BY <3>2, <3>4, <4>1 DEF DeleteLock
    <3> QED BY <1>6, <3>1, <3>3, <3>4
  <2>2. UNCHANGED <<firstLive, pointer, deployments, live>>
    BY <1>6 DEF Checkout, PushLock, DeleteLock, projection, site
  <2> QED BY <1>4, <2>1, <2>2
<1>7. ASSUME NEW o \in Operators, ActivateProjection(o) PROVE ServeInv'
  <2>1. Releasing(o) /\ UNCHANGED <<deployments, live>>
    BY <1>7 DEF ActivateProjection, Releasing, At, site
  <2>2. \A p \in Operators : run'[p].stage \notin {"readiness", "prune", "retain"}
    <3> SUFFICES ASSUME NEW p \in Operators, run'[p].stage \in {"readiness", "prune", "retain"}
                 PROVE  FALSE
      OBVIOUS
    <3>1. run'[o].stage = "publish" /\ (p # o => run'[p] = run[p])
      BY <1>1, <1>7 DEF ActivateProjection, Run
    <3> QED BY <1>1, <2>1, <3>1 DEF OneRelease, Releasing
  <2>3. \A c \in Roots : firstLive[c] > 0 => firstLive'[c] > 0
    BY <1>1, <1>7, ActivateKeeps
  <2>4. Servable'
    <3> SUFFICES ASSUME NEW n \in DOMAIN deployments, n >= live, deployments[n].root # None
                 PROVE  firstLive'[deployments[n].root] > 0
      BY <2>1 DEF Servable
    <3>1. deployments[n] \in Deployment
      BY <1>1 DEF TypeOK
    <3>2. deployments[n].root \in Roots
      BY <3>1 DEF Deployment
    <3> QED BY <2>3, <3>2 DEF ServeInv, Servable
  <2> QED BY <2>1, <2>2, <2>4 DEF ServeInv, Newest
<1>8. ASSUME NEW o \in Operators, Deploy(o) PROVE ServeInv'
  <2> DEFINE d == [commit |-> run[o].commit, root |-> None]
  <2>1. Releasing(o) /\ UNCHANGED <<firstLive, pointer, live>>
        /\ deployments' = Append(deployments, d)
    BY <1>8 DEF Deploy, Releasing, At, projection
  <2>2. deployments \in Seq(Deployment) /\ live \in DOMAIN deployments
    BY <1>1 DEF TypeOK
  <2>3. /\ Len(deployments') = Len(deployments) + 1
        /\ \A n \in DOMAIN deployments : deployments'[n] = deployments[n]
        /\ deployments'[Len(deployments) + 1] = d
    BY <2>1, <2>2
  <2>4. \A p \in Operators :
          run'[p].stage \in {"readiness", "prune", "retain"} =>
            p = o /\ run'[p].stage = "readiness"
                  /\ run'[p].deployment = Len(deployments) + 1
    <3> SUFFICES ASSUME NEW p \in Operators, run'[p].stage \in {"readiness", "prune", "retain"}
                 PROVE  p = o /\ run'[p].stage = "readiness"
                              /\ run'[p].deployment = Len(deployments) + 1
      OBVIOUS
    <3>1. run'[o].stage = "readiness" /\ run'[o].deployment = Len(deployments) + 1
          /\ (p # o => run'[p] = run[p])
      BY <1>1, <1>8 DEF Deploy, Run
    <3> QED BY <1>1, <2>1, <3>1 DEF OneRelease, Releasing
  <2>5. Servable'
    BY <2>1, <2>2, <2>3 DEF ServeInv, Servable
  <2> QED BY <2>1, <2>2, <2>3, <2>4, <2>5 DEF ServeInv, Newest
<1>9. ASSUME NEW o \in Operators, Prune(o) PROVE ServeInv'
  <2>1. Shown(o)
    BY <1>9 DEF Prune, At, ServeInv
  <2>2. live = Len(deployments) /\ deployments[live].root = pointer
    BY <1>9, <2>1 DEF Prune, At, ServeInv, Newest, Shown
  <2>3. UNCHANGED <<pointer, deployments, live>>
    BY <1>9 DEF Prune, site
  <2>4. firstLive'[pointer] > 0
    BY <1>1, <1>9, PruneSpares DEF TypeOK
  <2>5. Servable'
    <3> SUFFICES ASSUME NEW n \in DOMAIN deployments, n >= live
                 PROVE  firstLive'[deployments[n].root] > 0
      BY <2>3 DEF Servable
    <3>1. n = live
      BY <1>1, <2>2 DEF TypeOK
    <3> QED BY <2>2, <2>4, <3>1
  <2>6. OwnServing(o, [run[o] EXCEPT !.stage = "retain"])
    BY <1>1, <1>9, <2>1 DEF OwnServing, Prune, Goto, At, Run
  <2> QED BY <2>3, <2>5, <2>6, OwnServingKeeps DEF ServeInv
<1>10. ASSUME RemoveAbandoned \/ PushMain PROVE ServeInv'
  BY <1>10 DEF RemoveAbandoned, PushMain, projection, site, ServeInv, Newest, Servable, Shown
<1>11. ASSUME NEW n \in DOMAIN deployments, Build(n) PROVE ServeInv'
  <2>1. /\ UNCHANGED <<run, firstLive, pointer, live>>
        /\ deployments' = [deployments EXCEPT ![n].root = pointer]
        /\ deployments[n].root = None
    BY <1>11 DEF Build, projection
  <2>2. deployments \in Seq(Deployment) /\ live # n /\ pointer \in Roots /\ firstLive[pointer] > 0
    BY <1>1, <2>1 DEF TypeOK, ServeInv
  <2>3. /\ Len(deployments') = Len(deployments)
        /\ \A k \in DOMAIN deployments : k # n => deployments'[k] = deployments[k]
        /\ deployments'[n].root = pointer
    <3>1. deployments[n] \in Deployment
      BY <2>2
    <3> QED BY <2>1, <2>2, <3>1 DEF Deployment
  <2>4. deployments'[live] = deployments[live]
    BY <1>1, <2>2, <2>3 DEF TypeOK
  <2>5. Servable'
    BY <2>1, <2>2, <2>3 DEF ServeInv, Servable
  <2>6. Newest' /\ deployments'[live'].root # None
    BY <2>1, <2>3, <2>4 DEF ServeInv, Newest
  <2>7. \A o \in Operators : Shown(o) => Shown(o)'
    BY <2>1, <2>4 DEF Shown
  <2> QED BY <2>1, <2>5, <2>6, <2>7 DEF ServeInv
<1>12. ASSUME NEW n \in DOMAIN deployments, Promote(n) PROVE ServeInv'
  <2>1. /\ UNCHANGED <<run, firstLive, pointer, deployments>>
        /\ live' = n /\ n > live /\ deployments[n].root # None
    BY <1>12 DEF Promote, projection
  <2>2. Newest'
    BY <2>1 DEF ServeInv, Newest
  <2>3. \A o \in Operators : run[o].stage \notin {"prune", "retain"}
    BY <1>1, <2>1 DEF ServeInv, Newest, Shown, TypeOK
  <2>4. Servable'
    BY <1>1, <2>1 DEF ServeInv, Servable, TypeOK
  <2> QED BY <2>1, <2>2, <2>3, <2>4 DEF ServeInv
<1> QED
  BY <1>3, <1>5, <1>6, <1>7, <1>8, <1>9, <1>10, <1>11, <1>12 DEF Next, LooksOnly

-----------------------------------------------------------------------------
LEMMA Orchestrated == Spec => [](LockInv /\ Bounded /\ ServeInv)
<1>1. Init => LockInv /\ Bounded /\ ServeInv
  BY RunInit, ServeInit
<1>2. LockInv /\ Bounded /\ ServeInv /\ [Next]_vars => (LockInv /\ Bounded /\ ServeInv)'
  BY RunStep, ServeStep
<1> QED BY <1>1, <1>2, PTL DEF Spec

(* release-problems.mjs keeps every variable of the model in its type, and *)
(* the current release is one that is stored.                              *)
THEOREM OrchestrationTypes == Spec => []TypeOK
<1>1. LockInv => TypeOK
  BY DEF LockInv
<1> QED BY <1>1, Orchestrated, PTL

(* The branch works as a lock: whatever operators, stages, failures,       *)
(* stopped machines and hands that clean up interleave, no two runs        *)
(* release at once, for any number of operators.                           *)
THEOREM OneRunReleases == Spec => []OneRelease
BY HeldByOne, Orchestrated, PTL

(* Production serves a release that no prune has removed, and what a run   *)
(* retains is what production serves at that moment, however late and in   *)
(* whatever order Vercel builds and promotes.                              *)
THEOREM ProductionStaysTrue == Spec => []ProductionTrue
<1>1. LockInv /\ ServeInv => ProductionTrue
  <2> SUFFICES ASSUME LockInv, ServeInv PROVE ProductionTrue
    OBVIOUS
  <2>1. LiveServable
    BY DEF LockInv, TypeOK, ServeInv, Servable, LiveServable
  <2>2. RecordTrue
    BY DEF ServeInv, RecordTrue, Shown, At
  <2> QED BY <2>1, <2>2 DEF ProductionTrue
<1> QED BY <1>1, Orchestrated, PTL
=============================================================================
