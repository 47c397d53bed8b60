--------------------------- MODULE AtomicCommands ---------------------------
(***************************************************************************)
(* What a client of the workspace commands may rely on, without sessions,  *)
(* locks or statements: every key is applied at most once, in one step     *)
(* that makes one new row, or moves one row to its next version, or sets   *)
(* one follow, or adds one member, and records the answer with it.         *)
(***************************************************************************)
EXTENDS Naturals

CONSTANTS Accounts, Keys, Granted, Ids, Lifecycle, None

VARIABLES members, follows, rows, applied

vars == <<members, follows, rows, applied>>

Mutable == {"attempt", "submission_draft"}

(* Applying a request takes an unused key, for good.                       *)
Record(k, root, id, row) ==
    /\ applied[k] = None
    /\ applied' = [applied EXCEPT
                     ![k] = [ws |-> row.ws, root |-> root, id |-> id, row |-> row]]

(* A new row starts at version one, in the caller's name.                  *)
Create(k, root, id, row) ==
    /\ rows[id] = None
    /\ row.version = 1 /\ row.by = k[1]
    /\ <<k[1], row.ws>> \in members
    /\ Record(k, root, id, row)
    /\ rows' = [rows EXCEPT ![id] = row]
    /\ UNCHANGED <<members, follows>>

(* A mutable row moves from the version the caller expected to the next.   *)
Advance(k, root, id, row) ==
    LET old == rows[id] IN
    /\ old # None
    /\ old.table \in Mutable
    /\ old.version = root.expected
    /\ row = [old EXCEPT !.version = @ + 1, !.value = root.value,
                         !.anchor = row.anchor]
    /\ old.table = "attempt" =>
         /\ row.anchor = old.anchor
         /\ old.value = row.value \/ <<old.value, row.value>> \in Lifecycle
    /\ <<k[1], row.ws>> \in members
    /\ Record(k, root, id, row)
    /\ rows' = [rows EXCEPT ![id] = row]
    /\ UNCHANGED <<members, follows>>

(* An update that is already stored answers with the stored row.           *)
Find(k, root, id, row) ==
    /\ rows[id] = row
    /\ row.table = "crdt_update" /\ row.value = root.value
    /\ <<k[1], row.ws>> \in members
    /\ Record(k, root, id, row)
    /\ UNCHANGED <<members, follows, rows>>

(* A follow is the caller's own.  When it was already as asked at the time *)
(* the statement ran, a later change by another call stays.                *)
SetFollow(k, root, row) ==
    LET f == <<row.ws, k[1], root.anchor>> IN
    /\ root.kind = "follow.set"
    /\ <<k[1], row.ws>> \in members
    /\ Record(k, root, 0, row)
    /\ \/ follows' = IF root.value = "following"
                     THEN follows \cup {f} ELSE follows \ {f}
       \/ follows' = follows
    /\ UNCHANGED <<members, rows>>

(* A workspace that had no member gets its creator, and nobody else.       *)
Found(k, root, row) ==
    /\ root.kind = "workspace.create"
    /\ \A m \in members : m[2] # row.ws
    /\ Record(k, root, 0, row)
    /\ members' = members \cup {<<k[1], row.ws>>}
    /\ UNCHANGED <<follows, rows>>

Init ==
    /\ members = Granted
    /\ follows = {}
    /\ rows    = [i \in Ids |-> None]
    /\ applied = [k \in Accounts \X Keys |-> None]

(* The step is named by what it records.                                   *)
Next ==
    \E k \in Accounts \X Keys :
      LET new == applied'[k] IN
      /\ new # applied[k]
      /\ \/ \E id \in Ids : \/ Create(k, new.root, id, new.row)
                            \/ Advance(k, new.root, id, new.row)
                            \/ Find(k, new.root, id, new.row)
         \/ SetFollow(k, new.root, new.row)
         \/ Found(k, new.root, new.row)

Spec == Init /\ [][Next]_vars

=============================================================================
