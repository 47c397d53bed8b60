--------------------------- MODULE ProjectionReads ---------------------------
(***************************************************************************)
(* Paged reads of one exact projection release (read-contracts.ts and      *)
(* projection-data/src/index.ts).  Every page is a request of its own: it  *)
(* passes the gate on its root, then runs its statements one by one, with  *)
(* no transaction around them, and the caller walks on from the cursor it  *)
(* is given until there is none.  Meanwhile releases go live, an operator  *)
(* goes back to an earlier one, and a prune deletes what its own snapshot  *)
(* found outside the window.                                               *)
(*                                                                         *)
(* The store is reduced to what ProjectionRelease is checked to provide.   *)
(* A release goes live under the instant it was built, so any unused one.  *)
(***************************************************************************)
EXTENDS Naturals, Sequences, FiniteSets

CONSTANTS
    Roots,         \* releases
    Predecessors,  \* releases retained behind the current one; 2 in the code
    Rows,          \* root -> the row keys its list holds, positive and in key order
    Length,        \* key -> length of the text the row is searched by
    Kinds,         \* reads that callers walk, of AllKinds
    Limit,         \* rows on a page, at least 1
    Readers,
    MaxMoves       \* bound: moves of the pointer

(* "frontier" is the frontier of a repository, read by its slug, and        *)
(* "entity" that of one problem entity.                                    *)
AllKinds == {"graph", "frontier", "entity", "native", "browse"}

VARIABLES
    firstLive,  \* root -> when it first went live; 0 if it is not stored
    pointer,    \* the current release
    moves,      \* moves of the pointer so far
    pruning,    \* whether a prune is between its snapshot and its deletion
    doomed,     \* what it found disposable
    seenMoves,  \* moves when it took its snapshot
    crossed,    \* history: releases gone by a prune the pointer moved under
    read        \* reader -> its walk

store == <<firstLive, pointer, moves>>
prune == <<pruning, doomed, seenMoves, crossed>>
vars  == <<firstLive, pointer, moves, pruning, doomed, seenMoves, crossed, read>>

Instants == 1 .. MaxMoves + 1
Keys     == DOMAIN Length

ConstantsTyped ==
    /\ IsFiniteSet(Roots)
    /\ Length \in Seq(Nat) /\ Rows \in [Roots -> SUBSET Keys]
    /\ Kinds \subseteq AllKinds
    /\ Limit \in Nat \ {0}
    /\ Predecessors \in Nat /\ MaxMoves \in Nat

(* The statements of one page: the window, a row that must be there, the   *)
(* listed rows, and what is read beside them.                              *)
Parts == {"gate", "check", "rows", "beside"}

(* No row has to be there for the frontier of an entity, and only a graph  *)
(* and the registry read anything beside their rows.                       *)
PartsOf(kind) ==
    Parts \ ((IF kind = "entity" THEN {"check"} ELSE {}) \cup
             (IF kind \in {"graph", "native"} THEN {} ELSE {"beside"}))

(* cursor is the key to go on after and next the one the page will give,   *)
(* 0 for none; began the moves when the page passed its gate; got and      *)
(* repeated what the walk has collected; torn whether a statement found    *)
(* the release gone and its page was answered nevertheless.                *)
Walk ==
    [kind : AllKinds, root : Roots, todo : SUBSET Parts, cursor : Keys \cup {0},
     next : Keys \cup {0}, began : Nat, got : SUBSET Keys, repeated : BOOLEAN,
     torn : BOOLEAN, outcome : {"new", "walking", "complete", "refused"}]

IsStored(c) == firstLive[c] > 0

-----------------------------------------------------------------------------
(* Releases.                                                               *)

Used == {firstLive[c] : c \in Roots}

(* A refresh publishes a release, or an operator selects one that is       *)
(* stored.  The row of a release that is being deleted is locked.          *)
Point(c) ==
    /\ moves < MaxMoves
    /\ c # pointer
    /\ pointer' = c
    /\ moves' = moves + 1
    /\ crossed' = crossed \ {c}
    /\ IF IsStored(c)
       THEN UNCHANGED firstLive
       ELSE \E t \in Instants \ Used : firstLive' = [firstLive EXCEPT ![c] = t]
    /\ UNCHANGED <<pruning, doomed, seenMoves, read>>

(* The current release and the latest ones that first went live at or      *)
(* before it: the gate and the prune each compute it.                      *)
Behind == {c \in Roots \ {pointer} : IsStored(c) /\ firstLive[c] <= firstLive[pointer]}

Latest(n) == {c \in Behind : Cardinality({d \in Behind : firstLive[d] > firstLive[c]}) < n}

Kept == {pointer} \cup Latest(Predecessors)

PruneSnapshot ==
    /\ ~pruning
    /\ pruning'   = TRUE
    /\ doomed'    = {c \in Roots : IsStored(c)} \ Kept
    /\ seenMoves' = moves
    /\ UNCHANGED <<store, crossed, read>>

(* The foreign key of current_release refuses the whole deletion when the  *)
(* pointer has moved to one of them.                                       *)
PruneDelete ==
    /\ pruning
    /\ pruning'   = FALSE
    /\ doomed'    = {}
    /\ seenMoves' = 0
    /\ IF pointer \in doomed
       THEN UNCHANGED <<firstLive, crossed>>
       ELSE /\ firstLive' = [c \in Roots |-> IF c \in doomed THEN 0 ELSE firstLive[c]]
            /\ crossed' = IF moves = seenMoves THEN crossed ELSE crossed \cup doomed
    /\ UNCHANGED <<pointer, moves, read>>

-----------------------------------------------------------------------------
(* One page.                                                               *)

Todo(d, part) == read[d].outcome = "walking" /\ part \in read[d].todo

Step(d, part) == [read[d] EXCEPT !.todo = @ \ {part}]

Become(d, walk) ==
    /\ read' = [read EXCEPT ![d] = walk]
    /\ UNCHANGED <<store, prune>>

Refused(d) == Become(d, [read[d] EXCEPT !.todo = {}, !.outcome = "refused"])

Start(d) ==
    /\ read[d].outcome = "new"
    /\ \E k \in Kinds :
         Become(d, [read[d] EXCEPT !.kind = k, !.root = pointer, !.todo = PartsOf(k),
                                   !.outcome = "walking"])

(* Faulty variant of Readable: the gate's window is one release longer.    *)
ReadableLonger(c) == c \in {pointer} \cup Latest(Predecessors + 1)

(* assertReadableRelease                                                   *)
Readable(c) == c \in Kept

Gate(d) ==
    /\ Todo(d, "gate")
    /\ IF Readable(read[d].root)
       THEN Become(d, [Step(d, "gate") EXCEPT !.began = moves])
       ELSE Refused(d)

(* The row of the repository or of the release, without which a read is    *)
(* refused.  A search reads it at the same time as its documents.          *)
CheckPresent(d) ==
    /\ Todo(d, "check") /\ ~Todo(d, "gate")
    /\ IF IsStored(read[d].root) THEN Become(d, Step(d, "check")) ELSE Refused(d)

(* Faulty variant of After: the page begins with the row of the cursor.    *)
AtOrAfter(x, cursor) == x >= cursor

After(x, cursor) == x > cursor

(* The order a page is cut in.  Search orders by rank, which is the same   *)
(* for every row when nothing is asked for, then by length, then by key.   *)
Before(kind, x, y) ==
    IF kind = "browse"
    THEN Length[x] < Length[y] \/ (Length[x] = Length[y] /\ x < y)
    ELSE x < y

Listed(d) ==
    {x \in Rows[read[d].root] : IsStored(read[d].root) /\ After(x, read[d].cursor)}

Page(d) ==
    {x \in Listed(d) :
       Cardinality({y \in Listed(d) : Before(read[d].kind, y, x)}) < Limit}

(* The registry reads one row more than it shows to know whether there is  *)
(* a next page; the others give a cursor whenever the page is full.        *)
MoreToCome(d) ==
    IF read[d].kind = "native"
    THEN Cardinality(Listed(d)) > Limit
    ELSE Cardinality(Page(d)) = Limit

Last(kind, page) == CHOOSE x \in page : \A y \in page \ {x} : Before(kind, y, x)

ReadRows(d) ==
    LET k == read[d].kind IN
    /\ Todo(d, "rows") /\ ~Todo(d, "gate")
    /\ k # "browse" => ~Todo(d, "check")
    /\ Become(d, [Step(d, "rows") EXCEPT
                    !.got = @ \cup Page(d),
                    !.repeated = @ \/ read[d].got \cap Page(d) # {},
                    !.torn = @ \/ ~IsStored(read[d].root),
                    !.next = IF MoreToCome(d) THEN Last(k, Page(d)) ELSE 0])

(* Neighbours and edges of a graph, bindings of the registry.              *)
ReadBeside(d) ==
    /\ Todo(d, "beside") /\ ~Todo(d, "gate") /\ ~Todo(d, "check")
    /\ read[d].kind = "graph" => ~Todo(d, "rows")
    /\ Become(d, [Step(d, "beside") EXCEPT !.torn = @ \/ ~IsStored(read[d].root)])

(* The caller asks for the next page, or has all there is.                 *)
Answer(d) ==
    /\ read[d].outcome = "walking" /\ read[d].todo = {}
    /\ Become(d, IF read[d].next = 0
                 THEN [read[d] EXCEPT !.outcome = "complete"]
                 ELSE [read[d] EXCEPT !.todo = PartsOf(read[d].kind),
                                      !.cursor = read[d].next])

-----------------------------------------------------------------------------
Fresh(c) ==
    [kind |-> "graph", root |-> c, todo |-> {}, cursor |-> 0, next |-> 0,
     began |-> 0, got |-> {}, repeated |-> FALSE, torn |-> FALSE, outcome |-> "new"]

Init ==
    /\ pointer \in Roots
    /\ firstLive = [c \in Roots |-> IF c = pointer THEN 1 ELSE 0]
    /\ moves = 0
    /\ pruning = FALSE
    /\ doomed = {}
    /\ seenMoves = 0
    /\ crossed = {}
    /\ read = [d \in Readers |-> Fresh(pointer)]

Next ==
    \/ \E c \in Roots : Point(c)
    \/ PruneSnapshot
    \/ PruneDelete
    \/ \E d \in Readers :
         \/ Start(d)
         \/ Gate(d)
         \/ CheckPresent(d)
         \/ ReadRows(d)
         \/ ReadBeside(d)
         \/ Answer(d)

Spec == Init /\ [][Next]_vars

-----------------------------------------------------------------------------
(* Properties.                                                             *)

(* Following the cursors to the end gives every row of the one release the *)
(* walk is about, each once, however the pointer moves under it; a page    *)
(* that was read while its release was being deleted is the exception.     *)
PagesComplete ==
    \A d \in Readers : ~read[d].torn =>
      /\ ~read[d].repeated
      /\ read[d].outcome = "complete" => read[d].got = Rows[read[d].root]

MovedUnder ==
    \A d \in Readers : ~read[d].torn /\ read'[d].torn =>
      read[d].began < moves \/ read[d].root \in crossed

(* The gate admits a release and the statements after it find it gone only *)
(* if the pointer moved under that page or under the prune: the window of  *)
(* the gate and the window of the prune, written twice, agree.             *)
TornOnlyByMove == [][MovedUnder]_vars

(* read-contracts.ts:770-774: a browse without a query has a cursor that   *)
(* neither skips nor repeats rows.                                         *)
BrowseComplete ==
    \A d \in Readers :
      read[d].outcome = "complete" /\ ~read[d].torn /\ read[d].kind = "browse" =>
        read[d].got = Rows[read[d].root] /\ ~read[d].repeated
=============================================================================
