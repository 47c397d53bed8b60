-------------------------- MODULE MCReleaseServing --------------------------
(* What a projection release says and how it reaches readers: a build      *)
(* replays the history of a Repository, operators release the site, and    *)
(* callers walk the pages of one release.  The three share no state here,  *)
(* so a behaviour is one of them, chosen at the start.                     *)
EXTENDS ReleaseOrchestration, TLC

CONSTANTS o1, o2, root1, root2, root3, long, short, empty, reader,
          Releases, Rows, Length, Kinds, Limit, Readers, MaxMoves,
          old, new, other, Claims, Imported, Corrects, MaxHistory, MaxUnread

VARIABLES part,
          liveAt, current, moves, pruning, doomed, seenMoves, crossed, read,
          revisions, head, side, fork, history

Reads == INSTANCE ProjectionReads WITH
    Roots <- Releases, firstLive <- liveAt, pointer <- current

History == INSTANCE RepositoryHistory WITH
    commits <- revisions, published <- history

ASSUME ReadsAssumption   == Reads!ConstantsTyped
ASSUME HistoryAssumption == History!ConstantsTyped

(* Two releases of more than one page, and one of none.  Later keys have   *)
(* shorter texts.                                                          *)
MCRows == (long :> {1, 2, 3}) @@ (short :> {1, 3}) @@ (empty :> {})

MCLength == <<3, 2, 1>>

(* A Claim that is there from the start, a correction of it, and another.  *)
MCCorrects == (old :> None) @@ (new :> old) @@ (other :> None)

orchestration == vars
serving == <<liveAt, current, moves, pruning, doomed, seenMoves, crossed, read>>
building == <<revisions, head, side, fork, history>>

OfOrchestration == part = "orchestration" /\ UNCHANGED <<part, serving, building>>
OfReads         == part = "reads" /\ UNCHANGED <<part, orchestration, building>>
OfHistory       == part = "history" /\ UNCHANGED <<part, orchestration, serving>>

MCInit ==
    /\ part \in {"orchestration", "reads", "history"}
    /\ Init
    /\ Reads!Init
    /\ History!Init
    /\ part # "reads" => current = long
    /\ part # "orchestration" => pointer = root1
    /\ part # "history" => revisions[1].reading = "listed"

MCNext ==
    \/ \E o \in Operators :
         \/ OfOrchestration /\ Checkout(o)
         \/ OfOrchestration /\ LookForLock(o)
         \/ OfOrchestration /\ PushLock(o)
         \/ OfOrchestration /\ ReadLockBack(o)
         \/ OfOrchestration /\ Prepare(o)
         \/ OfOrchestration /\ ActivateProjection(o)
         \/ OfOrchestration /\ Publish(o)
         \/ OfOrchestration /\ Deploy(o)
         \/ OfOrchestration /\ Readiness(o)
         \/ OfOrchestration /\ Prune(o)
         \/ OfOrchestration /\ Retain(o)
         \/ OfOrchestration /\ Fail(o)
         \/ OfOrchestration /\ CleanUp(o)
         \/ OfOrchestration /\ DeleteLock(o)
         \/ OfOrchestration /\ ConfirmRemoved(o)
         \/ OfOrchestration /\ Stop(o)
    \/ OfOrchestration /\ RemoveAbandoned
    \/ OfOrchestration /\ PushMain
    \/ \E n \in DOMAIN deployments : OfOrchestration /\ Build(n)
    \/ \E n \in DOMAIN deployments : OfOrchestration /\ Promote(n)
    \/ \E c \in Releases : OfReads /\ Reads!Point(c)
    \/ OfReads /\ Reads!PruneSnapshot
    \/ OfReads /\ Reads!PruneDelete
    \/ \E d \in Readers :
         \/ OfReads /\ Reads!Start(d)
         \/ OfReads /\ Reads!Gate(d)
         \/ OfReads /\ Reads!CheckPresent(d)
         \/ OfReads /\ Reads!ReadRows(d)
         \/ OfReads /\ Reads!ReadBeside(d)
         \/ OfReads /\ Reads!Answer(d)
    \/ OfHistory /\ History!Advance
    \/ OfHistory /\ History!Branch
    \/ OfHistory /\ History!Merge
    \/ OfHistory /\ History!Squash
    \/ OfHistory /\ History!Upgrade
    \/ OfHistory /\ History!BuildProjection

MCSpec == MCInit /\ [][MCNext]_<<part, orchestration, serving, building>>

Symmetric == Permutations(Operators) \cup Permutations(Roots)

PagesComplete  == Reads!PagesComplete
TornOnlyByMove == Reads!TornOnlyByMove
BrowseComplete == Reads!BrowseComplete

TypesOK == TypeOK /\ History!TypeOK

PreviewsBound       == History!PreviewsBound
PreviewsStay        == History!PreviewsStay
ChangesExplainState == History!ChangesExplainState
=============================================================================
