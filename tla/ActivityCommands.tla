-------------------------- MODULE ActivityCommands --------------------------
(***************************************************************************)
(* The workspace commands of packages/activity-data: one call of           *)
(* activity_api.execute_command, append_workspace_crdt_update or           *)
(* create_workspace is one READ COMMITTED transaction.  Several calls run  *)
(* at once, each in a database session, and interleave statement by        *)
(* statement: a statement reads what is committed when it runs and waits   *)
(* for the locks other transactions hold; a transaction shows its writes   *)
(* to the others only when it commits.                                     *)
(*                                                                         *)
(* A caller may repeat a call (a lost answer, a double click), reuse a key *)
(* for another request, and send any expected version: all of that is a    *)
(* choice among Requests.                                                  *)
(***************************************************************************)
EXTENDS Naturals, FiniteSets

CONSTANTS
    Accounts,    \* hosted accounts
    Workspaces,  \* workspaces, named by their unique slug
    Granted,     \* memberships that exist at the start: <<account, workspace>>
    Anchors,     \* exact Problem reads; a root stands for the fields it hashes
    Keys,        \* idempotency keys
    Contents,    \* titles, bodies, artifact roots, update roots, payloads
    Sessions,    \* database sessions
    Requests,    \* the calls clients make
    MaxCalls,    \* bound: calls in one behaviour
    None         \* SQL NULL, and "no request"

Ids == 1 .. MaxCalls

AttemptStates ==
    {"planned", "running", "paused", "completed", "failed", "abandoned"}

(* The legal moves of an attempt; a state is also always allowed to stay.  *)
Lifecycle ==
    ({"planned"} \X {"running", "abandoned"})
      \cup ({"running"} \X {"paused", "completed", "failed", "abandoned"})
      \cup ({"paused"} \X {"running", "abandoned"})

Kinds ==
    {"workspace.create", "follow.set", "approach.create", "approach.fork",
     "attempt.create", "attempt.update", "discussion.add", "artifact.attach",
     "submission_draft.save", "crdt_update.append"}

(* Kinds whose payload carries an anchor.                                  *)
AnchoredKinds ==
    {"follow.set", "approach.create", "discussion.add", "artifact.attach",
     "submission_draft.save", "crdt_update.append"}

(* Kinds whose payload may name an approach, or an attempt.                *)
ApproachKinds == {"approach.fork", "attempt.create", "discussion.add"}
AttemptKinds  == {"attempt.update", "discussion.add", "artifact.attach"}

Tables ==
    {"workspace", "follow", "approach", "attempt", "discussion",
     "artifact_ref", "submission_draft", "crdt_update"}

Values == AttemptStates \cup {"following", "unfollowed"} \cup Contents

(* 0 is SQL NULL for row ids and expected versions.                        *)
Request ==
    [account : Accounts, ws : Workspaces, key : Keys, kind : Kinds,
     anchor : Anchors \cup {None},
     approach : Ids \cup {0}, attempt : Ids \cup {0}, draft : Ids \cup {0},
     value : Values, expected : Ids \cup {0}]

Row ==
    [table : Tables, ws : Workspaces, anchor : Anchors \cup {None},
     approach : Ids \cup {0}, attempt : Ids \cup {0},
     by : Accounts, value : Values, version : Nat \ {0}]

(* commandRequestRoot hashes the kind, the expected version and the input: *)
(* not the account, the workspace or the key.                              *)
RequestRoot(r) ==
    [kind |-> r.kind, anchor |-> r.anchor, approach |-> r.approach,
     attempt |-> r.attempt, draft |-> r.draft, value |-> r.value,
     expected |-> r.expected]

Records ==
    [ws : Workspaces, root : {RequestRoot(r) : r \in Requests},
     id : Ids \cup {0}, row : Row]

(* A payload that carries an anchor carries one with a root, and it names  *)
(* the rows that its kind of command reads.                                *)
ASSUME RequestsAssumption ==
    /\ Requests \subseteq Request
    /\ \A r \in Requests :
         /\ r.kind \in AnchoredKinds => r.anchor \in Anchors
         /\ r.approach # 0 => r.kind \in ApproachKinds
         /\ r.attempt # 0 => r.kind \in AttemptKinds
ASSUME NoneAssumption   == None \notin Row \cup Records \cup Requests \cup Anchors
ASSUME BoundsAssumption == MaxCalls \in Nat
ASSUME GrantedAssumption == Granted \subseteq Accounts \X Workspaces

VARIABLES
    members,  \* workspace_memberships, <<account, workspace>>
    anchors,  \* scientific_anchors, <<workspace, anchor>>
    follows,  \* follows, <<workspace, account, anchor>>
    rows,     \* id -> row of approaches, attempts, drafts, ...; None if absent
    idem,     \* idempotency_records, <<account, key>> -> record or None
    audit,    \* activity_audit_entries
    calls,    \* calls made so far; a call's number is the id of a row it makes
    pc,       \* where each session's transaction is
    req,      \* the request each session is serving
    call,     \* its call number
    held,     \* the locks its transaction holds
    staged,   \* its uncommitted writes
    answers   \* history: every answer the database gave

tables == <<members, anchors, follows, rows, idem, audit>>
vars   == <<members, anchors, follows, rows, idem, audit,
            calls, pc, req, call, held, staged, answers>>

-----------------------------------------------------------------------------
(* Requests, rows and locks.                                               *)

KeyOf(r) == <<r.account, r.key>>

NothingStaged ==
    [anchors |-> {}, members |-> {}, on |-> {}, off |-> {},
     id |-> 0, row |-> None]

(* Faulty variant of NewRow: the version starts at zero.                   *)
NewRowAtZero(r, table, anchor, value) ==
    [table |-> table, ws |-> r.ws, anchor |-> anchor, approach |-> r.approach,
     attempt |-> r.attempt, by |-> r.account, value |-> value, version |-> 0]

(* A new row of a table, as its INSERT and column defaults make it.        *)
NewRow(r, table, anchor, value) ==
    [table |-> table, ws |-> r.ws, anchor |-> anchor, approach |-> r.approach,
     attempt |-> r.attempt, by |-> r.account, value |-> value, version |-> 1]

(* Two locks exclude each other when they are the same lock (a unique key  *)
(* being inserted, a locked row, an advisory key), except that foreign-key *)
(* checks share a row among themselves; FOR UPDATE excludes those checks.  *)
Conflicts(k, l) ==
    /\ \/ k[1] = l[1] /\ k[1] # "fk"
       \/ {k[1], l[1]} = {"row", "fk"}
    /\ k[2] = l[2]

Grantable(s, locks) ==
    \A t \in Sessions \ {s} : \A k \in locks, l \in held[t] : ~Conflicts(k, l)

(* The rows a new row's foreign keys name.                                 *)
References(row) ==
    {<<"fk", i>> : i \in {row.approach, row.attempt} \ {0}}

(* The committed row of a table in this workspace, by id.                  *)
Present(id, table, ws) ==
    id # 0 /\ rows[id] # None /\ rows[id].table = table /\ rows[id].ws = ws

OnThread(id, table, ws, anchor) ==
    Present(id, table, ws) /\ rows[id].anchor = anchor

(* A committed row that a unique constraint on content would collide with. *)
SameContent(table, r) ==
    {i \in Ids : OnThread(i, table, r.ws, r.anchor) /\ rows[i].value = r.value}

-----------------------------------------------------------------------------
(* Ends of a transaction: every lock it held is released.                  *)

(* Faulty variant of EndTransaction: the key is a session lock, which      *)
(* outlives the transaction.                                               *)
EndKeepingKey(s) ==
    /\ pc'     = [pc EXCEPT ![s] = "idle"]
    /\ req'    = [req EXCEPT ![s] = None]
    /\ call'   = [call EXCEPT ![s] = 0]
    /\ held'   = [held EXCEPT ![s] = {k \in @ : k[1] = "key"}]
    /\ staged' = [staged EXCEPT ![s] = NothingStaged]

EndTransaction(s) ==
    /\ pc'     = [pc EXCEPT ![s] = "idle"]
    /\ req'    = [req EXCEPT ![s] = None]
    /\ call'   = [call EXCEPT ![s] = 0]
    /\ held'   = [held EXCEPT ![s] = {}]
    /\ staged' = [staged EXCEPT ![s] = NothingStaged]

Answer(s, code, id, row) ==
    answers' = answers \cup {[call |-> call[s], req |-> req[s], code |-> code,
                              id |-> id, row |-> row]}

(* Faulty variant of Refuse: the anchor outlives the refused command.      *)
RefuseKeepingAnchor(s, code) ==
    /\ EndTransaction(s)
    /\ Answer(s, code, 0, None)
    /\ anchors' = anchors \cup staged[s].anchors
    /\ UNCHANGED <<members, follows, rows, idem, audit, calls>>

(* RAISE EXCEPTION: the transaction rolls back and the caller gets a code. *)
Refuse(s, code) ==
    /\ EndTransaction(s)
    /\ Answer(s, code, 0, None)
    /\ UNCHANGED <<tables, calls>>

Stage(s, writes, locks) ==
    /\ staged' = [staged EXCEPT ![s] = writes]
    /\ held'   = [held EXCEPT ![s] = @ \cup locks]
    /\ pc'     = [pc EXCEPT ![s] = "commit"]
    /\ UNCHANGED <<tables, calls, req, call, answers>>

(* INSERT ... RETURNING of a row with a generated id.                      *)
Insert(s, row, locks) ==
    /\ Grantable(s, locks \cup References(row))
    /\ Stage(s, [staged[s] EXCEPT !.id = call[s], !.row = row],
             locks \cup References(row))

-----------------------------------------------------------------------------
(* A call arrives, is authorised, and takes its key.                       *)

Call(s) ==
    /\ pc[s] = "idle"
    /\ calls < MaxCalls
    /\ \E r \in Requests :
         /\ pc'   = [pc EXCEPT ![s] = "enter"]
         /\ req'  = [req EXCEPT ![s] = r]
    /\ calls' = calls + 1
    /\ call'  = [call EXCEPT ![s] = calls + 1]
    /\ UNCHANGED <<tables, held, staged, answers>>

(* require_membership; create_workspace only needs the account.            *)
Authorised(r) ==
    r.kind = "workspace.create" \/ <<r.account, r.ws>> \in members

(* Faulty variant of KeyLock: no advisory lock.                            *)
NoKeyLock(r) == {}

(* pg_advisory_xact_lock on account and key: waits for the other holder.   *)
KeyLock(r) == {<<"key", KeyOf(r)>>}

LockKey(s) ==
    /\ Grantable(s, KeyLock(req[s]))
    /\ held' = [held EXCEPT ![s] = KeyLock(req[s])]
    /\ pc'   = [pc EXCEPT ![s] = "prior"]
    /\ UNCHANGED <<tables, calls, req, call, staged, answers>>

Enter(s) ==
    /\ pc[s] = "enter"
    /\ IF Authorised(req[s]) THEN LockKey(s) ELSE Refuse(s, "VA403")

(* Faulty variant of Replays: any request with the key gets the answer.    *)
ReplaysAny(r) == TRUE

(* The stored record for this key is the answer, if the request is the one *)
(* it records.                                                             *)
Replays(r) == idem[KeyOf(r)].root = RequestRoot(r)

Replay(s) ==
    /\ pc[s] = "prior"
    /\ idem[KeyOf(req[s])] # None
    /\ Replays(req[s])
    /\ EndTransaction(s)
    /\ Answer(s, "ok", idem[KeyOf(req[s])].id, idem[KeyOf(req[s])].row)
    /\ UNCHANGED <<tables, calls>>

KeyReused(s) ==
    /\ pc[s] = "prior"
    /\ idem[KeyOf(req[s])] # None
    /\ ~Replays(req[s])
    /\ Refuse(s, "VAI01")

Fresh(s) ==
    /\ pc[s] = "prior"
    /\ idem[KeyOf(req[s])] = None
    /\ pc' = [pc EXCEPT
                ![s] = IF req[s].kind \in AnchoredKinds THEN "anchor" ELSE "work"]
    /\ UNCHANGED <<tables, calls, req, call, held, staged, answers>>

(* ensure_anchor: INSERT ... ON CONFLICT DO NOTHING.  It waits for another *)
(* transaction that is inserting the same anchor.                          *)
EnsureAnchor(s) ==
    LET a == <<req[s].ws, req[s].anchor>> IN
    /\ pc[s] = "anchor"
    /\ Grantable(s, {<<"anchor", a>>})
    /\ IF a \in anchors
       THEN UNCHANGED <<held, staged>>
       ELSE /\ held'   = [held EXCEPT ![s] = @ \cup {<<"anchor", a>>}]
            /\ staged' = [staged EXCEPT ![s].anchors = {a}]
    /\ pc' = [pc EXCEPT ![s] = "work"]
    /\ UNCHANGED <<tables, calls, req, call, answers>>

-----------------------------------------------------------------------------
(* The statement of each kind of command.                                  *)

At(s, kind) == pc[s] = "work" /\ req[s].kind = kind

(* The slug is unique: a concurrent creator is waited for.                 *)
CreateWorkspace(s) ==
    LET r == req[s] IN
    /\ At(s, "workspace.create")
    /\ Grantable(s, {<<"slug", r.ws>>})
    /\ IF \E m \in members : m[2] = r.ws
       THEN Refuse(s, "23505")
       ELSE Stage(s, [staged[s] EXCEPT
                        !.members = {<<r.account, r.ws>>},
                        !.row = NewRow(r, "workspace", None, r.value)],
                  {<<"slug", r.ws>>})

(* Following inserts the row or finds it there; a finder takes no lock.    *)
(* Unfollowing deletes the row it sees, and sees no uncommitted one.       *)
SetFollow(s) ==
    LET r == req[s]
        f == <<r.ws, r.account, r.anchor>>
        seen == NewRow(r, "follow", r.anchor, r.value)
    IN  /\ At(s, "follow.set")
        /\ IF r.value = "following"
           THEN /\ Grantable(s, {<<"follow", f>>})
                /\ IF f \in follows
                   THEN Stage(s, [staged[s] EXCEPT !.row = seen], {})
                   ELSE Stage(s, [staged[s] EXCEPT !.row = seen, !.on = {f}],
                              {<<"follow", f>>})
           ELSE IF f \in follows
                THEN /\ Grantable(s, {<<"follow", f>>})
                     /\ Stage(s, [staged[s] EXCEPT !.row = seen, !.off = {f}],
                              {<<"follow", f>>})
                ELSE Stage(s, [staged[s] EXCEPT !.row = seen], {})

CreateApproach(s) ==
    /\ At(s, "approach.create")
    /\ Insert(s, NewRow(req[s], "approach", req[s].anchor, req[s].value), {})

(* The source approach is locked, its version compared, its anchor kept.   *)
ForkApproach(s) ==
    LET r == req[s] IN
    /\ At(s, "approach.fork")
    /\ IF ~Present(r.approach, "approach", r.ws)
       THEN Refuse(s, "VA404")
       ELSE /\ Grantable(s, {<<"row", r.approach>>})
            /\ IF rows[r.approach].version # r.expected
               THEN Refuse(s, "VACAS")
               ELSE Insert(s, NewRow(r, "approach", rows[r.approach].anchor,
                                     r.value),
                           {<<"row", r.approach>>})

CreateAttempt(s) ==
    LET r == req[s] IN
    /\ At(s, "attempt.create")
    /\ IF ~Present(r.approach, "approach", r.ws)
       THEN Refuse(s, "VA404")
       ELSE Insert(s, NewRow(r, "attempt", rows[r.approach].anchor, "planned"),
                   {})

(* attempt.update, first statement: SELECT ... FOR UPDATE OF a, then the   *)
(* lifecycle check on the state it read.                                   *)
LegalMove(from, to) == from = to \/ <<from, to>> \in Lifecycle

(* Faulty variant of AttemptLock: a plain SELECT.                          *)
NoAttemptLock(s) == {}

AttemptLock(s) == {<<"row", req[s].attempt>>}

ReadAttempt(s) ==
    LET r == req[s] IN
    /\ At(s, "attempt.update")
    /\ IF ~Present(r.attempt, "attempt", r.ws)
       THEN Refuse(s, "VA404")
       ELSE /\ Grantable(s, AttemptLock(s))
            /\ IF ~LegalMove(rows[r.attempt].value, r.value)
               THEN Refuse(s, "22023")
               ELSE /\ held' = [held EXCEPT ![s] = @ \cup AttemptLock(s)]
                    /\ pc'   = [pc EXCEPT ![s] = "update"]
                    /\ UNCHANGED <<tables, calls, req, call, staged, answers>>

(* Its second statement: UPDATE ... WHERE version = expected.              *)
UpdateAttempt(s) ==
    LET r == req[s]
        old == rows[r.attempt]
    IN  /\ pc[s] = "update"
        /\ IF old.version # r.expected
           THEN Refuse(s, "VACAS")
           ELSE /\ Grantable(s, {<<"row", r.attempt>>})
                /\ Stage(s, [staged[s] EXCEPT
                               !.id  = r.attempt,
                               !.row = [old EXCEPT !.value = r.value,
                                                   !.version = @ + 1]],
                         {<<"row", r.attempt>>})

(* Faulty variant of AnchorTargets: approach and attempt each checked      *)
(* against the anchor, but not against one another.                        *)
AnchorTargetsApart(r) ==
    IF \/ r.approach # 0 /\ ~OnThread(r.approach, "approach", r.ws, r.anchor)
       \/ r.attempt # 0 /\ ~OnThread(r.attempt, "attempt", r.ws, r.anchor)
    THEN "VA404"
    ELSE "ok"

(* require_anchor_targets, and the composite foreign keys behind it.       *)
AnchorTargets(r) ==
    IF \/ r.approach # 0 /\ ~OnThread(r.approach, "approach", r.ws, r.anchor)
       \/ r.attempt # 0 /\ ~OnThread(r.attempt, "attempt", r.ws, r.anchor)
    THEN "VA404"
    ELSE IF /\ r.approach # 0 /\ r.attempt # 0
            /\ rows[r.attempt].approach # r.approach
         THEN "22023"
         ELSE "ok"

AddDiscussion(s) ==
    LET r == req[s] IN
    /\ At(s, "discussion.add")
    /\ IF AnchorTargets(r) # "ok"
       THEN Refuse(s, AnchorTargets(r))
       ELSE Insert(s, NewRow(r, "discussion", r.anchor, r.value), {})

(* One content root and path per anchor: the second insert waits, then     *)
(* fails on the unique constraint.                                         *)
AttachArtifact(s) ==
    LET r == req[s]
        unique == {<<"artifact", <<r.ws, r.anchor, r.value>>>>}
    IN  /\ At(s, "artifact.attach")
        /\ IF AnchorTargets(r) # "ok"
           THEN Refuse(s, AnchorTargets(r))
           ELSE /\ Grantable(s, unique)
                /\ IF SameContent("artifact_ref", r) # {}
                   THEN Refuse(s, "23505")
                   ELSE Insert(s, NewRow(r, "artifact_ref", r.anchor, r.value),
                               unique)

(* A draft is inserted, or revised when its version is the expected one;   *)
(* the revision also takes the anchor the caller is reading now.           *)
(* The faulty RevisableUnversioned omits the version from the WHERE.       *)
RevisableUnversioned(r) == Present(r.draft, "submission_draft", r.ws)

Revisable(r) ==
    /\ Present(r.draft, "submission_draft", r.ws)
    /\ rows[r.draft].version = r.expected

SaveDraft(s) ==
    LET r == req[s] IN
    /\ At(s, "submission_draft.save")
    /\ IF r.draft = 0
       THEN Insert(s, NewRow(r, "submission_draft", r.anchor, r.value), {})
       ELSE IF ~Revisable(r)
            THEN Refuse(s, "VACAS")
            ELSE /\ Grantable(s, {<<"row", r.draft>>})
                 /\ Stage(s, [staged[s] EXCEPT
                                !.id  = r.draft,
                                !.row = [rows[r.draft] EXCEPT
                                           !.anchor = r.anchor,
                                           !.value = r.value,
                                           !.version = @ + 1]],
                          {<<"row", r.draft>>})

(* append_workspace_crdt_update: the same update is stored once, and the   *)
(* row of its first author answers every later append.                     *)
AppendUpdate(s) ==
    LET r == req[s]
        unique == {<<"crdt", <<r.ws, r.anchor, r.value>>>>}
        same == SameContent("crdt_update", r)
    IN  /\ At(s, "crdt_update.append")
        /\ Grantable(s, unique)
        /\ IF same = {}
           THEN Insert(s, NewRow(r, "crdt_update", r.anchor, r.value), unique)
           ELSE \E i \in same :
                  Stage(s, [staged[s] EXCEPT !.id = i, !.row = rows[i]], unique)

-----------------------------------------------------------------------------
(* Commit: the audit entry and the idempotency record are inserted with    *)
(* everything else; the record's primary key is the last line of defence.  *)
(* An entry's call and key are history: the table has no such columns.     *)

AuditEntry(s) ==
    [call |-> call[s], account |-> req[s].account, key |-> req[s].key,
     ws |-> req[s].ws, anchor |-> staged[s].row.anchor, id |-> staged[s].id,
     root |-> RequestRoot(req[s])]

IdemRecord(s) ==
    [ws |-> req[s].ws, root |-> RequestRoot(req[s]),
     id |-> staged[s].id, row |-> staged[s].row]

(* Faulty variant of Remember: the record is never written.                *)
RememberNothing(s) == UNCHANGED idem

Remember(s) == idem' = [idem EXCEPT ![KeyOf(req[s])] = IdemRecord(s)]

Install(s) ==
    /\ members' = members \cup staged[s].members
    /\ anchors' = anchors \cup staged[s].anchors
    /\ follows' = (follows \ staged[s].off) \cup staged[s].on
    /\ rows'    = IF staged[s].id = 0
                  THEN rows
                  ELSE [rows EXCEPT ![staged[s].id] = staged[s].row]
    /\ Remember(s)
    /\ audit'   = audit \cup {AuditEntry(s)}

Commit(s) ==
    /\ pc[s] = "commit"
    /\ IF idem[KeyOf(req[s])] # None
       THEN Refuse(s, "key_collision")
       ELSE /\ Install(s)
            /\ EndTransaction(s)
            /\ Answer(s, "ok", staged[s].id, staged[s].row)
            /\ UNCHANGED calls

(* Faulty variant of Crash: each statement commits by itself, so the row   *)
(* is there and its record is not.                                         *)
CrashBetweenStatements(s) ==
    /\ pc[s] # "idle"
    /\ EndTransaction(s)
    /\ rows' = IF staged[s].id = 0
               THEN rows
               ELSE [rows EXCEPT ![staged[s].id] = staged[s].row]
    /\ UNCHANGED <<members, anchors, follows, idem, audit, calls, answers>>

(* The connection or the server is lost before the commit.                 *)
Crash(s) ==
    /\ pc[s] # "idle"
    /\ EndTransaction(s)
    /\ UNCHANGED <<tables, calls, answers>>

-----------------------------------------------------------------------------
Init ==
    /\ members = Granted
    /\ anchors = {}
    /\ follows = {}
    /\ rows    = [i \in Ids |-> None]
    /\ idem    = [k \in Accounts \X Keys |-> None]
    /\ audit   = {}
    /\ calls   = 0
    /\ pc      = [s \in Sessions |-> "idle"]
    /\ req     = [s \in Sessions |-> None]
    /\ call    = [s \in Sessions |-> 0]
    /\ held    = [s \in Sessions |-> {}]
    /\ staged  = [s \in Sessions |-> NothingStaged]
    /\ answers = {}

Statement(s) ==
    \/ CreateWorkspace(s)
    \/ SetFollow(s)
    \/ CreateApproach(s)
    \/ ForkApproach(s)
    \/ CreateAttempt(s)
    \/ ReadAttempt(s)
    \/ UpdateAttempt(s)
    \/ AddDiscussion(s)
    \/ AttachArtifact(s)
    \/ SaveDraft(s)
    \/ AppendUpdate(s)

(* What the database does by itself once a call has arrived.               *)
Progress(s) ==
    \/ Enter(s)
    \/ Replay(s)
    \/ KeyReused(s)
    \/ Fresh(s)
    \/ EnsureAnchor(s)
    \/ Statement(s)
    \/ Commit(s)

Next == \E s \in Sessions : Call(s) \/ Progress(s) \/ Crash(s)

(* PostgreSQL keeps running a transaction that is not waiting for a lock.  *)
Fairness == \A s \in Sessions : WF_vars(Progress(s))

Spec     == Init /\ [][Next]_vars
FairSpec == Spec /\ Fairness

-----------------------------------------------------------------------------
(* Properties.                                                             *)

Stages == {"idle", "enter", "prior", "anchor", "work", "update", "commit"}

Staged ==
    [anchors : SUBSET (Workspaces \X Anchors),
     members : SUBSET (Accounts \X Workspaces),
     on      : SUBSET (Workspaces \X Accounts \X Anchors),
     off     : SUBSET (Workspaces \X Accounts \X Anchors),
     id      : Ids \cup {0}, row : Row \cup {None}]

(* Every table and every session variable holds what its schema allows.    *)
TypeOK ==
    /\ members \subseteq Accounts \X Workspaces
    /\ anchors \subseteq Workspaces \X Anchors
    /\ follows \subseteq Workspaces \X Accounts \X Anchors
    /\ rows \in [Ids -> Row \cup {None}]
    /\ idem \in [Accounts \X Keys -> Records \cup {None}]
    /\ calls \in 0 .. MaxCalls
    /\ pc \in [Sessions -> Stages]
    /\ req \in [Sessions -> Requests \cup {None}]
    /\ call \in [Sessions -> Ids \cup {0}]
    /\ DOMAIN held = Sessions
    /\ staged \in [Sessions -> Staged]

(* A key is applied at most once: execute_command never writes two audit   *)
(* entries for one account and key, whatever overlaps, retries or crashes  *)
(* happen.                                                                 *)
AppliedOnce ==
    \A e, f \in audit : e.account = f.account /\ e.key = f.key => e = f

(* The advisory lock makes the read of the prior record and the insert of  *)
(* the new one a single critical section: a concurrent retry is answered   *)
(* by replay and never by the primary key of idempotency_records.          *)
NoKeyCollision == \A a \in answers : a.code # "key_collision"

(* A caller who was told "ok" was told what is on record for that key, for *)
(* exactly the request it sent; so all of its retries agree.               *)
AnswersMatchRecord ==
    \A a \in answers :
      a.code = "ok" =>
        /\ idem[KeyOf(a.req)] # None
        /\ idem[KeyOf(a.req)].root = RequestRoot(a.req)
        /\ idem[KeyOf(a.req)].id = a.id
        /\ idem[KeyOf(a.req)].row = a.row

(* A refused or lost command leaves nothing behind: every stored anchor is *)
(* there because an audited command bound it, although ensure_anchor wrote *)
(* it before the checks that can still refuse.                             *)
AnchorsExplained ==
    anchors = {<<e.ws, e.anchor>> : e \in {f \in audit : f.anchor # None}}

(* Attempts move only along the lifecycle and never leave completed,       *)
(* failed or abandoned, also when two updates overlap.                     *)
LifecycleLegal ==
    [][\A i \in Ids :
         rows[i] # None /\ rows[i].table = "attempt" =>
           \/ rows'[i].value = rows[i].value
           \/ <<rows[i].value, rows'[i].value>> \in Lifecycle]_vars

Updates(i) == {e \in audit : e.id = i /\ e.call # i}

(* No update is lost: the applied updates of a row each consumed a version *)
(* of its own, all versions before the current one were consumed, and the  *)
(* row holds what the last of them wrote.                                  *)
VersionsConsumed ==
    \A i \in Ids :
      rows[i] # None /\ rows[i].table \in {"attempt", "submission_draft"} =>
        /\ {e.root.expected : e \in Updates(i)} = 1 .. rows[i].version - 1
        /\ \A e, f \in Updates(i) : e.root.expected = f.root.expected => e = f
        /\ \A e \in Updates(i) :
             e.root.expected = rows[i].version - 1 =>
               e.root.value = rows[i].value

(* Rows that hang together belong to one thread: a row's approach and      *)
(* attempt are of its workspace and anchor, and a row that names both an   *)
(* approach and an attempt names the attempt's own approach.               *)
SameThread ==
    \A i \in Ids :
      rows[i] # None =>
        LET row == rows[i] IN
        /\ row.approach # 0 =>
             OnThread(row.approach, "approach", row.ws, row.anchor)
        /\ row.attempt # 0 =>
             OnThread(row.attempt, "attempt", row.ws, row.anchor)
        /\ row.approach # 0 /\ row.attempt # 0 =>
             rows[row.attempt].approach = row.approach

(* The interleaved statements of concurrent transactions amount to         *)
(* commands applied one at a time, each at most once.                      *)
Atomic == INSTANCE AtomicCommands WITH applied <- idem

ImplementsAtomic == Atomic!Spec

(* Every call is answered or cut off: no two transactions wait for each    *)
(* other, and no lock outlives its transaction.                            *)
Answered == \A s \in Sessions : pc[s] # "idle" ~> pc[s] = "idle"

(* docs/WEB.md:399-403 says a thread binds the exact read its work began   *)
(* on and that the old anchor is never rewritten.                          *)
DraftKeepsAnchor ==
    [][\A i \in Ids :
         rows[i] # None /\ rows[i].table = "submission_draft" =>
           rows'[i].anchor = rows[i].anchor]_vars

=============================================================================
