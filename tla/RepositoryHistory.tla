-------------------------- MODULE RepositoryHistory --------------------------
(***************************************************************************)
(* scripts/projection-builder.mjs: the history of a Vela Repository as a   *)
(* release publishes it.  Git and the Core reader (the vela binary) are    *)
(* outside: commits arrive on the branch that is published and on a side   *)
(* branch, which is merged or squashed into it, and Core reads one commit  *)
(* strictly or refuses it.  BuildProjection replays what the log shows and *)
(* publishes where each Proposal was decided, with the preview that was    *)
(* reviewed, and which commits changed what is accepted.                   *)
(*                                                                         *)
(* A Claim is brought by one Proposal, and both are named by the Claim.    *)
(* The Repository index, and with it the Repository root, is where every   *)
(* Claim stands.  A build reads one checkout, which nobody changes, so it  *)
(* is one step; an assertion that fails refuses it and publishes nothing.  *)
(***************************************************************************)
EXTENDS Naturals, Sequences, FiniteSets

CONSTANTS
    Claims,
    Imported,     \* Claims that the first commit brings accepted, with no Proposal
    Corrects,     \* Claim -> the Claim it retires once accepted, or None
    MaxHistory,   \* bound: commits
    MaxUnread,    \* bound: commits that Core refuses or lists no Proposals at
    None

VARIABLES
    commits,    \* every commit, in order of their time
    head,       \* origin/<branch>, which a build checks out
    side,       \* a branch beside it, or 0
    fork,       \* the commit of head where side began
    published   \* what the last build published, or None

branches == <<head, side, fork>>
vars     == <<commits, branches, published>>

ConstantsTyped == Imported \subseteq Claims

Standings == {"none", "pending", "accepted", "superseded", "rejected", "withdrawn"}
Indexes   == [Claims -> Standings]

(* What Core makes of a commit.  An unlisted one is read, and its Decision *)
(* Inbox lacks the Proposals that are pending.                             *)
Readings == {"listed", "unlisted", "refused"}

(* parent is the first parent; other the second, of a merge; decides are   *)
(* the Proposals whose fate is decided by this commit itself.              *)
Commit ==
    [parent : Nat, other : Nat, index : Indexes, touched : BOOLEAN,
     reading : Readings, decides : SUBSET Claims]

AcceptedIn(index) == {c \in Claims : index[c] = "accepted"}
PendingIn(index)  == {c \in Claims : index[c] = "pending"}
IsDecided(standing) == standing \notin {"none", "pending"}

-----------------------------------------------------------------------------
(* Core, as the builder relies on it.                                      *)

(* standing_delta of a Decision Inbox entry.                               *)
IfAccept(index, c) ==
    [d \in Claims |-> IF d = c THEN "accepted"
                      ELSE IF d = Corrects[c] /\ index[d] = "accepted"
                      THEN "superseded" ELSE index[d]]

IfReject(index, c) == [index EXCEPT ![c] = "rejected"]

(* Indexes one protocol command away.                                      *)
Successors(index) ==
    {[index EXCEPT ![c] = "pending"] : c \in {d \in Claims : index[d] = "none"}}
    \cup UNION {{IfAccept(index, c), IfReject(index, c),
                 [index EXCEPT ![c] = "withdrawn"]} : c \in PendingIn(index)}

Unread == {x \in DOMAIN commits : commits[x].reading # "listed"}

(* Without pending Proposals there is nothing to list.                     *)
ReadingsOf(index) ==
    IF Cardinality(Unread) >= MaxUnread THEN {"listed"}
    ELSE {"listed", "refused"} \cup
         (IF PendingIn(index) = {} THEN {} ELSE {"unlisted"})

NewCommit(parent, other, index, touched, reading) ==
    [parent |-> parent, other |-> other, index |-> index, touched |-> touched,
     reading |-> reading,
     decides |-> IF other # 0 THEN {} ELSE
                 {c \in Claims : /\ IsDecided(index[c])
                                 /\ parent # 0 => ~IsDecided(commits[parent].index[c])}]

(* A commit on the published branch: a command, or an editorial change.    *)
Advance ==
    /\ Len(commits) < MaxHistory
    /\ LET was == commits[head].index IN
       \E index \in Successors(was) \cup {was} : \E reading \in ReadingsOf(index) :
         commits' = Append(commits, NewCommit(head, 0, index, index # was, reading))
    /\ head' = Len(commits) + 1
    /\ UNCHANGED <<side, fork, published>>

(* A command on the side branch, which begins at the published one.        *)
Branch ==
    /\ Len(commits) < MaxHistory
    /\ LET base == IF side = 0 THEN head ELSE side IN
       \E index \in Successors(commits[base].index) : \E reading \in ReadingsOf(index) :
         commits' = Append(commits, NewCommit(base, 0, index, TRUE, reading))
    /\ side' = Len(commits) + 1
    /\ fork' = IF side = 0 THEN head ELSE fork
    /\ UNCHANGED <<head, published>>

(* The index is one line, so Git brings two branches together only if one  *)
(* of them left it alone.                                                  *)
Joins == /\ side # 0
         /\ Len(commits) < MaxHistory
         /\ commits[head].index = commits[fork].index

JoinWith(parent, other) ==
    /\ Joins
    /\ LET index == commits[side].index IN
       \E reading \in ReadingsOf(index) :
         commits' = Append(commits, NewCommit(parent, other, index,
                      other = 0 /\ index # commits[parent].index, reading))
    /\ head' = Len(commits) + 1
    /\ side' = 0 /\ fork' = 0
    /\ UNCHANGED published

(* git log --name-only names no path of a merge; it does of a squash.      *)
Merge  == JoinWith(head, side)
Squash == JoinWith(head, 0)

(* A newer Core refuses the layout of an older commit.                     *)
Upgrade ==
    /\ \E x \in DOMAIN commits :
         /\ commits[x].reading # "refused"
         /\ Cardinality(Unread \cup {x}) <= MaxUnread
         /\ commits' = [commits EXCEPT ![x].reading = "refused"]
    /\ UNCHANGED <<branches, published>>

-----------------------------------------------------------------------------
(* A commit with everything it descends from.                              *)
Ancestry ==
    LET upTo[x \in 0 .. Len(commits)] ==
          IF x = 0 THEN {}
          ELSE {x} \cup upTo[commits[x].parent] \cup upTo[commits[x].other]
    IN  upTo

(* readCommits *)
Log == Ancestry[head]

ChangedIndex == {x \in Log : commits[x].touched}
ParentOf(x)  == commits[x].parent

(* readRepositoryRevisions reads the published commit, every commit that   *)
(* changed the index, and the parent of each: all that are asked about.    *)
Verified(x) == x # 0 /\ commits[x].reading # "refused"

(* A revision that is not verified has no state, which reads as empty.     *)
Accepted(x) == IF Verified(x) THEN AcceptedIn(commits[x].index) ELSE {}
Pending(x)  == IF Verified(x) THEN PendingIn(commits[x].index) ELSE {}

(* readRepositoryTransitions: one row for every commit of ChangedIndex.    *)
AcceptedAdded(x)   == Accepted(x) \ Accepted(ParentOf(x))
AcceptedRemoved(x) == Accepted(ParentOf(x)) \ Accepted(x)
PendingRemoved(x)  == Pending(ParentOf(x)) \ Pending(x)

(* Faulty variant of Comparable: the rows are used as they are.            *)
ComparableAll(x) == TRUE

Comparable(x) == Verified(ParentOf(x)) /\ Verified(x)

(* projectFrontierEdges: the edges named state_change.                     *)
StateChange == [commit : Nat, claim : Claims, change : {"added", "removed"}]

StateChanges ==
    {e \in [commit : ChangedIndex, claim : Claims, change : {"added", "removed"}] :
       /\ Comparable(e.commit)
       /\ e.claim \in IF e.change = "added" THEN AcceptedAdded(e.commit)
                                            ELSE AcceptedRemoved(e.commit)}

(* projectReviewFromCore: the Proposals, and the status Core gives them.   *)
Reviews == {c \in Claims \ Imported : commits[head].index[c] # "none"}

Status(c) ==
    LET standing == commits[head].index[c] IN
    IF standing = "superseded" THEN "accepted" ELSE standing

(* Where a Proposal left review: the row that takes its Claim from pending, *)
(* into what is accepted if it was accepted and not if it was not.         *)
TerminalTransitions(c) ==
    {x \in ChangedIndex :
       /\ c \in PendingRemoved(x)
       /\ Status(c) = "accepted" <=> c \in AcceptedAdded(x)}

Terminal(c) == CHOOSE x \in TerminalTransitions(c) : TRUE

Predicted(index, c) ==
    IF Status(c) = "accepted" THEN IfAccept(index, c) ELSE IfReject(index, c)

(* A withdrawal has no Decision to preview, and an inbox that did not list *)
(* the Proposal has none either.                                           *)
PreviewKind(c) ==
    IF Status(c) = "pending" THEN "current"
    ELSE IF \/ Status(c) = "withdrawn"
            \/ commits[ParentOf(Terminal(c))].reading # "listed"
    THEN "unavailable"
    ELSE "terminal_historical"

PreviewOf(c) ==
    [state    |-> PreviewKind(c),
     base     |-> IF Status(c) = "pending" THEN head ELSE ParentOf(Terminal(c)),
     terminal |-> IF Status(c) = "pending" THEN 0 ELSE Terminal(c)]

(* Faulty variant of Previewable: an empty state counts as a state.        *)
PreviewableUnread(c) ==
    Status(c) # "pending" =>
      /\ Cardinality(TerminalTransitions(c)) = 1
      /\ PreviewKind(c) = "terminal_historical" =>
           Predicted(commits[ParentOf(Terminal(c))].index, c)
             = commits[Terminal(c)].index

(* The assertions of projectProposedStatePreviews and of the two previews  *)
(* it makes.  The commit of the base is among those the inboxes were read  *)
(* at, because its row took the Claim.                                     *)
Previewable(c) ==
    IF Status(c) = "pending" THEN commits[head].reading = "listed"
    ELSE /\ Cardinality(TerminalTransitions(c)) = 1
         /\ Verified(ParentOf(Terminal(c)))
         /\ Verified(Terminal(c))
         /\ PreviewKind(c) = "terminal_historical" =>
              Predicted(commits[ParentOf(Terminal(c))].index, c)
                = commits[Terminal(c)].index

(* buildProjection, as far as the history goes.                            *)
BuildProjection ==
    /\ Verified(head)
    /\ \A c \in Reviews : Previewable(c)
    /\ published' =
         [head     |-> head,
          previews |-> [c \in Claims |-> IF c \in Reviews THEN PreviewOf(c) ELSE None],
          changes  |-> StateChanges]
    /\ UNCHANGED <<commits, branches>>

-----------------------------------------------------------------------------
Genesis == [c \in Claims |-> IF c \in Imported THEN "accepted" ELSE "none"]

Init ==
    /\ commits \in {<<[parent |-> 0, other |-> 0, index |-> Genesis, touched |-> TRUE,
                       reading |-> reading, decides |-> Imported]>> :
                      reading \in {"listed", "refused"}}
    /\ head = 1
    /\ side = 0 /\ fork = 0
    /\ published = None

Next ==
    \/ Advance
    \/ Branch
    \/ Merge
    \/ Squash
    \/ Upgrade
    \/ BuildProjection

Spec == Init /\ [][Next]_vars

-----------------------------------------------------------------------------
(* Properties.                                                             *)

Preview ==
    [state : {"current", "unavailable", "terminal_historical"}, base : Nat,
     terminal : Nat]

(* Commits, branches and what is published are of their types.             *)
TypeOK ==
    /\ \A x \in DOMAIN commits : commits[x] \in Commit
    /\ head \in DOMAIN commits
    /\ {side, fork} \subseteq DOMAIN commits \cup {0}
    /\ published # None =>
         /\ published.head \in DOMAIN commits
         /\ \A c \in Claims : published.previews[c] \in Preview \cup {None}
         /\ published.changes \subseteq StateChange

Shown(c) ==
    IF published = None THEN None ELSE published.previews[c]

(* projection-builder.mjs:267-270: whatever Core refuses to read, wherever *)
(* a Proposal was decided and however the commit reached the branch, a     *)
(* published preview of a decided Proposal names the commit that decided   *)
(* it and the one before, and one that was applied as reviewed led from    *)
(* the one index to the other by that Decision alone.                      *)
PreviewsBound ==
    \A c \in Claims : Shown(c) # None /\ Shown(c).terminal # 0 =>
      LET terminal == commits[Shown(c).terminal] IN
      /\ c \in terminal.decides
      /\ Shown(c).base = terminal.parent
      /\ Shown(c).state = "terminal_historical" =>
           terminal.index \in {IfAccept(commits[terminal.parent].index, c),
                               IfReject(commits[terminal.parent].index, c)}

PreviewsKept ==
    \A c \in Claims :
      Shown(c) # None /\ Shown(c).terminal # 0 /\ Shown(c)' # None =>
        Shown(c)' = Shown(c)

(* Once a release has said where a Proposal was decided, no later one says *)
(* otherwise, also when Core no longer reads a commit it read before.      *)
PreviewsStay == [][PreviewsKept]_vars

AcceptedAt(x) == IF x = 0 THEN {} ELSE AcceptedIn(commits[x].index)

Of(change) == {e.claim : e \in {f \in published.changes : f.change = change}}

(* projection-builder.mjs:381-386: the changes a release publishes are what *)
(* happened.  Each is one its commit made; and while Core reads every      *)
(* commit, they lead from the Claims the first commit brought to those     *)
(* that are accepted now, also across merges, which have no row.           *)
ChangesExplainState ==
    published # None =>
      /\ \A e \in published.changes :
           e.claim \in IF e.change = "added"
                       THEN AcceptedAt(e.commit) \ AcceptedAt(ParentOf(e.commit))
                       ELSE AcceptedAt(ParentOf(e.commit)) \ AcceptedAt(e.commit)
      /\ (\A x \in DOMAIN commits : commits[x].reading # "refused") =>
           AcceptedAt(published.head) = (Imported \cup Of("added")) \ Of("removed")

=============================================================================
