----------------------- MODULE ActivityCommandsProofs -----------------------
(***************************************************************************)
(* What the workspace commands promise, for every number of sessions,      *)
(* accounts and requests: type correctness; what the advisory lock on a    *)
(* key gives, every key applied once and answered alike; what is written   *)
(* into threads; and that the whole amounts to atomic commands.            *)
(***************************************************************************)
EXTENDS ActivityCommands, TLAPS

(* TypeOK is not inductive: what a statement reads is typed only because   *)
(* the stages before it were passed.                                       *)
Working ==
    \A s \in Sessions :
      /\ pc[s] # "idle" => req[s] \in Requests /\ call[s] \in Ids
      /\ pc[s] = "anchor" => req[s].kind \in AnchoredKinds
      /\ pc[s] = "update" => /\ req[s].attempt \in Ids
                             /\ rows[req[s].attempt] # None
      /\ pc[s] = "commit" => staged[s].row \in Row

TypeInv == TypeOK /\ Working

-----------------------------------------------------------------------------
(* A request's fields have the types of its columns.                       *)
LEMMA RequestFields ==
    ASSUME NEW r \in Requests
    PROVE  /\ r \in Request
           /\ r.account \in Accounts /\ r.ws \in Workspaces /\ r.key \in Keys
           /\ r.kind \in Kinds /\ r.anchor \in Anchors \cup {None}
           /\ r.approach \in Ids \cup {0} /\ r.attempt \in Ids \cup {0}
           /\ r.draft \in Ids \cup {0} /\ r.value \in Values
           /\ r.expected \in Ids \cup {0}
           /\ r.kind \in AnchoredKinds => r.anchor \in Anchors
           /\ KeyOf(r) \in Accounts \X Keys
           /\ RequestRoot(r) \in {RequestRoot(q) : q \in Requests}
BY RequestsAssumption DEF Request, KeyOf

(* An inserted row has the type of its table.                              *)
LEMMA NewRowType ==
    ASSUME NEW r \in Requests, NEW table \in Tables,
           NEW anchor \in Anchors \cup {None}, NEW value \in Values
    PROVE  NewRow(r, table, anchor, value) \in Row
BY RequestFields DEF NewRow, Row

(* The writes a statement stages, and the row an update writes, named so   *)
(* that the lemmas on them can be applied as they stand.                   *)
WithRow(w, row) == [w EXCEPT !.row = row]

WithIdRow(w, i, row) == [w EXCEPT !.id = i, !.row = row]

WithMember(w, m, row) == [w EXCEPT !.members = {m}, !.row = row]

WithOn(w, f, row) == [w EXCEPT !.row = row, !.on = {f}]

WithOff(w, f, row) == [w EXCEPT !.row = row, !.off = {f}]

Moved(row, value) == [row EXCEPT !.value = value, !.version = @ + 1]

Revised(row, anchor, value) ==
    [row EXCEPT !.anchor = anchor, !.value = value, !.version = @ + 1]

LEMMA WithRowType ==
    ASSUME NEW w \in Staged, NEW row \in Row
    PROVE  WithRow(w, row) \in Staged /\ WithRow(w, row).row = row
BY DEF Staged, WithRow

LEMMA WithIdRowType ==
    ASSUME NEW w \in Staged, NEW row \in Row, NEW i \in Ids \cup {0}
    PROVE  WithIdRow(w, i, row) \in Staged /\ WithIdRow(w, i, row).row = row
BY DEF Staged, WithIdRow

LEMMA WithMemberType ==
    ASSUME NEW w \in Staged, NEW row \in Row, NEW m \in Accounts \X Workspaces
    PROVE  WithMember(w, m, row) \in Staged /\ WithMember(w, m, row).row = row
BY DEF Staged, WithMember

LEMMA WithFollowType ==
    ASSUME NEW w \in Staged, NEW row \in Row,
           NEW f \in Workspaces \X Accounts \X Anchors
    PROVE  /\ WithOn(w, f, row) \in Staged /\ WithOn(w, f, row).row = row
           /\ WithOff(w, f, row) \in Staged /\ WithOff(w, f, row).row = row
BY DEF Staged, WithOn, WithOff

LEMMA MovedType ==
    ASSUME NEW row \in Row, NEW value \in Values
    PROVE  Moved(row, value) \in Row
<1> DEFINE Versions == Nat \ {0}
<1>1. row.version + 1 \in Versions
  BY DEF Row
<1>2. Row = [table : Tables, ws : Workspaces, anchor : Anchors \cup {None},
             approach : Ids \cup {0}, attempt : Ids \cup {0},
             by : Accounts, value : Values, version : Versions]
  BY DEF Row
<1> HIDE DEF Versions
<1> QED BY <1>1, <1>2 DEF Moved

LEMMA RevisedType ==
    ASSUME NEW row \in Row, NEW anchor \in Anchors, NEW value \in Values
    PROVE  Revised(row, anchor, value) \in Row
<1> DEFINE Versions == Nat \ {0}
<1>1. row.version + 1 \in Versions
  BY DEF Row
<1>2. Row = [table : Tables, ws : Workspaces, anchor : Anchors \cup {None},
             approach : Ids \cup {0}, attempt : Ids \cup {0},
             by : Accounts, value : Values, version : Versions]
  BY DEF Row
<1> HIDE DEF Versions
<1> QED BY <1>1, <1>2 DEF Revised

-----------------------------------------------------------------------------
(* Whatever kind of command a session runs, its statement does one of      *)
(* three things: it is refused, it stages a row, or it read the attempt it *)
(* is about to update.                                                     *)
RefusalCodes == {"VA403", "VA404", "VAI01", "VACAS", "22023", "23505"}

Refused(s) == \E code \in RefusalCodes : Refuse(s, code)

StagedARow(s) ==
    \E w \in Staged : \E locks : w.row \in Row /\ Stage(s, w, locks)

ReadOn(s) ==
    /\ \E locks : held' = [held EXCEPT ![s] = @ \cup locks]
    /\ pc' = [pc EXCEPT ![s] = "update"]
    /\ req[s].attempt \in Ids
    /\ rows[req[s].attempt] # None
    /\ UNCHANGED <<tables, calls, req, call, staged, answers>>

LEMMA InsertStages ==
    ASSUME TypeInv, NEW s \in Sessions, pc[s] # "idle",
           NEW row \in Row, NEW locks, Insert(s, row, locks)
    PROVE  StagedARow(s)
<1> DEFINE w == WithIdRow(staged[s], call[s], row)
<1>1. staged[s] \in Staged /\ call[s] \in Ids \cup {0}
  BY DEF TypeInv, TypeOK
<1>2. w \in Staged /\ w.row = row
  BY <1>1, WithIdRowType
<1>3. Stage(s, w, locks \cup References(row))
  BY DEF Insert, WithIdRow
<1> HIDE DEF w
<1> QED BY <1>2, <1>3 DEF StagedARow

(* What a present row of the workspace is.                                 *)
LEMMA PresentRow ==
    ASSUME TypeInv, NEW i \in Ids \cup {0}, NEW table, NEW ws,
           Present(i, table, ws)
    PROVE  i \in Ids /\ rows[i] # None /\ rows[i] \in Row
BY DEF TypeInv, TypeOK, Present

LEMMA StatementShape ==
    ASSUME TypeInv, NEW s \in Sessions, Statement(s)
    PROVE  /\ pc[s] \in {"work", "update"}
           /\ Refused(s) \/ StagedARow(s) \/ ReadOn(s)
<1> DEFINE r == req[s]
<1>w. pc[s] \in {"work", "update"}
  BY DEF Statement, At, CreateWorkspace, SetFollow, CreateApproach,
         ForkApproach, CreateAttempt, ReadAttempt, UpdateAttempt,
         AddDiscussion, AttachArtifact, SaveDraft, AppendUpdate
<1>r. /\ r \in Requests /\ call[s] \in Ids /\ pc[s] # "idle"
      /\ staged[s] \in Staged
  BY <1>w DEF TypeInv, TypeOK, Working
<1>f. /\ r.anchor \in Anchors \cup {None} /\ r.value \in Values
      /\ r.account \in Accounts /\ r.ws \in Workspaces
      /\ r.approach \in Ids \cup {0} /\ r.attempt \in Ids \cup {0}
      /\ r.draft \in Ids \cup {0}
      /\ r.kind \in AnchoredKinds => r.anchor \in Anchors
  BY <1>r, RequestFields
<1>1. CASE CreateWorkspace(s)
  <2> DEFINE row == NewRow(r, "workspace", None, r.value)
             w == WithMember(staged[s], <<r.account, r.ws>>, row)
  <2>1. row \in Row
    BY <1>r, <1>f, NewRowType DEF Tables
  <2>2. w \in Staged /\ w.row = row
    <3> HIDE DEF row
    <3> QED BY <1>r, <1>f, <2>1, WithMemberType
  <2>3. Refuse(s, "23505") \/ Stage(s, w, {<<"slug", r.ws>>})
    BY <1>1 DEF CreateWorkspace, WithMember
  <2> HIDE DEF w
  <2> QED BY <1>w, <2>1, <2>2, <2>3 DEF Refused, RefusalCodes, StagedARow
<1>2. CASE SetFollow(s)
  <2> DEFINE row == NewRow(r, "follow", r.anchor, r.value)
             f == <<r.ws, r.account, r.anchor>>
             w == WithRow(staged[s], row)
             on == WithOn(staged[s], f, row)
             off == WithOff(staged[s], f, row)
  <2>1. row \in Row
    BY <1>r, <1>f, NewRowType DEF Tables
  <2>2. f \in Workspaces \X Accounts \X Anchors
    BY <1>2, <1>f DEF SetFollow, At, AnchoredKinds
  <2>3. \A x \in {w, on, off} : x \in Staged /\ x.row = row
    <3> HIDE DEF row, f
    <3> QED BY <1>r, <2>1, <2>2, WithRowType, WithFollowType
  <2>4. \E x \in {w, on, off} : \E locks : Stage(s, x, locks)
    BY <1>2 DEF SetFollow, WithRow, WithOn, WithOff
  <2> HIDE DEF w, on, off
  <2> QED BY <1>w, <2>1, <2>3, <2>4 DEF StagedARow
<1>3. CASE CreateApproach(s)
  <2>1. NewRow(r, "approach", r.anchor, r.value) \in Row
    BY <1>r, <1>f, NewRowType DEF Tables
  <2> QED BY <1>3, <1>r, <1>w, <2>1, InsertStages DEF CreateApproach
<1>4. CASE ForkApproach(s)
  <2> DEFINE row == NewRow(r, "approach", rows[r.approach].anchor, r.value)
  <2>1. CASE Refuse(s, "VA404") \/ Refuse(s, "VACAS")
    BY <1>w, <2>1 DEF Refused, RefusalCodes
  <2>2. CASE /\ Present(r.approach, "approach", r.ws)
             /\ Insert(s, row, {<<"row", r.approach>>})
    <3>1. rows[r.approach].anchor \in Anchors \cup {None}
      BY <1>f, <2>2, PresentRow DEF Row
    <3>2. row \in Row
      BY <1>r, <1>f, <3>1, NewRowType DEF Tables
    <3> HIDE DEF row
    <3> QED BY <1>r, <1>w, <2>2, <3>2, InsertStages
  <2> QED BY <1>4, <2>1, <2>2 DEF ForkApproach
<1>5. CASE CreateAttempt(s)
  <2> DEFINE row == NewRow(r, "attempt", rows[r.approach].anchor, "planned")
  <2>1. CASE Refuse(s, "VA404")
    BY <1>w, <2>1 DEF Refused, RefusalCodes
  <2>2. CASE /\ Present(r.approach, "approach", r.ws)
             /\ Insert(s, row, {})
    <3>1. rows[r.approach].anchor \in Anchors \cup {None}
      BY <1>f, <2>2, PresentRow DEF Row
    <3>2. row \in Row
      BY <1>r, <3>1, NewRowType DEF Tables, Values, AttemptStates
    <3> HIDE DEF row
    <3> QED BY <1>r, <1>w, <2>2, <3>2, InsertStages
  <2> QED BY <1>5, <2>1, <2>2 DEF CreateAttempt
<1>6. CASE ReadAttempt(s)
  <2>1. CASE Refuse(s, "VA404") \/ Refuse(s, "22023")
    BY <1>w, <2>1 DEF Refused, RefusalCodes
  <2>2. CASE ~(Refuse(s, "VA404") \/ Refuse(s, "22023"))
    <3>1. Present(r.attempt, "attempt", r.ws)
      BY <1>6, <2>2 DEF ReadAttempt
    <3>2. r.attempt \in Ids /\ rows[r.attempt] # None
      BY <1>f, <3>1, PresentRow
    <3> QED BY <1>6, <1>w, <2>2, <3>2 DEF ReadAttempt, ReadOn
  <2> QED BY <2>1, <2>2
<1>7. CASE UpdateAttempt(s)
  <2> DEFINE old == rows[r.attempt]
             row == Moved(old, r.value)
             w == WithIdRow(staged[s], r.attempt, row)
  <2>1. CASE Refuse(s, "VACAS")
    BY <1>w, <2>1 DEF Refused, RefusalCodes
  <2>2. CASE Stage(s, w, {<<"row", r.attempt>>})
    <3>1. old \in Row
      BY <1>7 DEF UpdateAttempt, TypeInv, TypeOK, Working
    <3>2. row \in Row
      BY <1>f, <3>1, MovedType
    <3> HIDE DEF row
    <3>3. w \in Staged /\ w.row = row
      BY <1>r, <1>f, <3>2, WithIdRowType
    <3> HIDE DEF w
    <3> QED BY <1>w, <2>2, <3>2, <3>3 DEF StagedARow
  <2> QED BY <1>7, <2>1, <2>2 DEF UpdateAttempt, WithIdRow, Moved
<1>8. CASE AddDiscussion(s)
  <2>1. CASE Refuse(s, AnchorTargets(r)) /\ AnchorTargets(r) # "ok"
    BY <1>w, <2>1 DEF AnchorTargets, Refused, RefusalCodes
  <2>2. CASE Insert(s, NewRow(r, "discussion", r.anchor, r.value), {})
    <3>1. NewRow(r, "discussion", r.anchor, r.value) \in Row
      BY <1>r, <1>f, NewRowType DEF Tables
    <3> QED BY <1>r, <1>w, <2>2, <3>1, InsertStages
  <2> QED BY <1>8, <2>1, <2>2 DEF AddDiscussion
<1>9. CASE AttachArtifact(s)
  <2> DEFINE row == NewRow(r, "artifact_ref", r.anchor, r.value)
             unique == {<<"artifact", <<r.ws, r.anchor, r.value>>>>}
  <2>1. CASE Refuse(s, AnchorTargets(r)) /\ AnchorTargets(r) # "ok"
    BY <1>w, <2>1 DEF AnchorTargets, Refused, RefusalCodes
  <2>2. CASE Refuse(s, "23505")
    BY <1>w, <2>2 DEF Refused, RefusalCodes
  <2>3. CASE Insert(s, row, unique)
    <3>1. row \in Row
      BY <1>r, <1>f, NewRowType DEF Tables
    <3> HIDE DEF row, unique
    <3> QED BY <1>r, <1>w, <2>3, <3>1, InsertStages
  <2> QED BY <1>9, <2>1, <2>2, <2>3 DEF AttachArtifact
<1>10. CASE SaveDraft(s)
  <2> DEFINE new == NewRow(r, "submission_draft", r.anchor, r.value)
             row == Revised(rows[r.draft], r.anchor, r.value)
             w == WithIdRow(staged[s], r.draft, row)
  <2>1. CASE Refuse(s, "VACAS")
    BY <1>w, <2>1 DEF Refused, RefusalCodes
  <2>2. CASE Insert(s, new, {})
    <3>1. new \in Row
      BY <1>r, <1>f, NewRowType DEF Tables
    <3> HIDE DEF new
    <3> QED BY <1>r, <1>w, <2>2, <3>1, InsertStages
  <2>3. CASE Revisable(r) /\ Stage(s, w, {<<"row", r.draft>>})
    <3>1. rows[r.draft] \in Row
      BY <1>f, <2>3, PresentRow DEF Revisable
    <3>2. row \in Row
      BY <1>10, <1>f, <3>1, RevisedType DEF SaveDraft, At, AnchoredKinds
    <3> HIDE DEF row
    <3>3. w \in Staged /\ w.row = row
      BY <1>r, <1>f, <3>2, WithIdRowType
    <3> HIDE DEF w
    <3> QED BY <1>w, <2>3, <3>2, <3>3 DEF StagedARow
  <2> QED BY <1>10, <2>1, <2>2, <2>3 DEF SaveDraft, WithIdRow, Revised
<1>11. CASE AppendUpdate(s)
  <2> DEFINE row == NewRow(r, "crdt_update", r.anchor, r.value)
             unique == {<<"crdt", <<r.ws, r.anchor, r.value>>>>}
  <2>1. CASE Insert(s, row, unique)
    <3>1. row \in Row
      BY <1>r, <1>f, NewRowType DEF Tables
    <3> HIDE DEF row, unique
    <3> QED BY <1>r, <1>w, <2>1, <3>1, InsertStages
  <2>2. CASE \E i \in SameContent("crdt_update", r) :
               Stage(s, WithIdRow(staged[s], i, rows[i]), unique)
    <3>1. PICK i \in SameContent("crdt_update", r) :
            Stage(s, WithIdRow(staged[s], i, rows[i]), unique)
      BY <2>2
    <3>2. i \in Ids /\ rows[i] \in Row
      BY PresentRow DEF SameContent, OnThread
    <3>3. /\ WithIdRow(staged[s], i, rows[i]) \in Staged
          /\ WithIdRow(staged[s], i, rows[i]).row = rows[i]
      BY <1>r, <3>2, WithIdRowType
    <3> QED BY <1>w, <3>1, <3>2, <3>3 DEF StagedARow
  <2> QED BY <1>11, <2>1, <2>2 DEF AppendUpdate, WithIdRow
<1> QED
  BY <1>1, <1>2, <1>3, <1>4, <1>5, <1>6, <1>7, <1>8, <1>9, <1>10, <1>11
     DEF Statement

-----------------------------------------------------------------------------
(* TypeInv is inductive.                                                   *)
LEMMA TypeInit == ASSUME Init PROVE TypeInv
<1>1. NothingStaged \in Staged
  BY DEF NothingStaged, Staged
<1>2. TypeOK
  BY <1>1, GrantedAssumption, BoundsAssumption DEF Init, TypeOK, Stages
<1>3. Working
  BY DEF Init, Working
<1> QED BY <1>2, <1>3 DEF TypeInv

(* Ending a transaction that installed nothing keeps the types.            *)
LEMMA EndType ==
    ASSUME TypeInv, NEW s \in Sessions, EndTransaction(s),
           UNCHANGED <<tables, calls>>
    PROVE  TypeInv'
<1>1. NothingStaged \in Staged
  BY DEF NothingStaged, Staged
<1>2. TypeOK'
  BY <1>1 DEF TypeInv, TypeOK, EndTransaction, tables, Stages
<1>3. Working'
  BY DEF TypeInv, TypeOK, Working, EndTransaction, tables
<1> QED BY <1>2, <1>3 DEF TypeInv

(* So does staging well-typed writes.                                      *)
LEMMA StageType ==
    ASSUME TypeInv, NEW s \in Sessions, pc[s] # "idle",
           NEW w \in Staged, w.row \in Row, NEW locks, Stage(s, w, locks)
    PROVE  TypeInv'
<1>1. TypeOK'
  BY DEF TypeInv, TypeOK, Stage, tables, Stages
<1>2. Working'
  BY DEF TypeInv, TypeOK, Working, Stage, tables
<1> QED BY <1>1, <1>2 DEF TypeInv

(* Ids counts calls, so the number of a new call is one of them.           *)
LEMMA CallType ==
    ASSUME TypeInv, NEW s \in Sessions, Call(s)
    PROVE  TypeInv'
<1>1. calls + 1 \in Ids /\ calls + 1 \in 0 .. MaxCalls
  BY BoundsAssumption DEF TypeInv, TypeOK, Call, Ids
<1>2. TypeOK'
  BY <1>1 DEF TypeInv, TypeOK, Call, tables, Stages
<1>3. Working'
  BY <1>1 DEF TypeInv, TypeOK, Working, Call, tables
<1> QED BY <1>2, <1>3 DEF TypeInv

(* Moving on with nothing staged keeps the types.                          *)
LEMMA LockType ==
    ASSUME TypeInv, NEW s \in Sessions, pc[s] # "idle", LockKey(s)
    PROVE  TypeInv'
<1>1. TypeOK'
  BY DEF TypeInv, TypeOK, LockKey, tables, Stages
<1>2. Working'
  BY DEF TypeInv, TypeOK, Working, LockKey, tables
<1> QED BY <1>1, <1>2 DEF TypeInv

LEMMA FreshType ==
    ASSUME TypeInv, NEW s \in Sessions, Fresh(s)
    PROVE  TypeInv'
<1>1. TypeOK'
  BY DEF TypeInv, TypeOK, Fresh, tables, Stages
<1>2. Working'
  BY DEF TypeInv, TypeOK, Working, Fresh, tables
<1> QED BY <1>1, <1>2 DEF TypeInv

LEMMA ReadOnType ==
    ASSUME TypeInv, NEW s \in Sessions, pc[s] # "idle", ReadOn(s)
    PROVE  TypeInv'
<1>1. TypeOK'
  BY DEF TypeInv, TypeOK, ReadOn, tables, Stages
<1>2. Working'
  BY DEF TypeInv, TypeOK, Working, ReadOn, tables
<1> QED BY <1>1, <1>2 DEF TypeInv

(* The anchor stage is entered only with a payload that has an anchor.     *)
LEMMA EnsureAnchorType ==
    ASSUME TypeInv, NEW s \in Sessions, EnsureAnchor(s)
    PROVE  TypeInv'
<1> DEFINE a == <<req[s].ws, req[s].anchor>>
           w == [staged[s] EXCEPT !.anchors = {a}]
<1>1. req[s] \in Requests /\ req[s].kind \in AnchoredKinds
  BY DEF TypeInv, Working, EnsureAnchor
<1>2. a \in Workspaces \X Anchors
  BY <1>1, RequestFields
<1>3. w \in Staged
  <2>1. staged[s] \in Staged
    BY DEF TypeInv, TypeOK
  <2> HIDE DEF a
  <2> QED BY <1>2, <2>1 DEF Staged
<1>4. staged' = staged \/ staged' = [staged EXCEPT ![s] = w]
  BY DEF EnsureAnchor, TypeInv, TypeOK
<1>5. held' = held \/ \E h : held' = [held EXCEPT ![s] = h]
  BY DEF EnsureAnchor
<1>6. /\ pc' = [pc EXCEPT ![s] = "work"] /\ pc[s] = "anchor"
      /\ UNCHANGED <<tables, calls, req, call, answers>>
  BY DEF EnsureAnchor
<1> HIDE DEF w
<1>7. TypeOK'
  BY <1>3, <1>4, <1>5, <1>6 DEF TypeInv, TypeOK, tables, Stages
<1>8. Working'
  BY <1>6, <1>4 DEF TypeInv, TypeOK, Working, tables
<1> QED BY <1>7, <1>8 DEF TypeInv

(* A commit installs a row under an id of its own or of the row it updates.*)
LEMMA InstallType ==
    ASSUME TypeInv, NEW s \in Sessions, pc[s] = "commit",
           Install(s), EndTransaction(s), calls' = calls
    PROVE  TypeInv'
<1>1. req[s] \in Requests /\ staged[s] \in Staged /\ staged[s].row \in Row
  BY DEF TypeInv, TypeOK, Working
<1>2. /\ staged[s].anchors \subseteq Workspaces \X Anchors
      /\ staged[s].members \subseteq Accounts \X Workspaces
      /\ staged[s].on \subseteq Workspaces \X Accounts \X Anchors
      /\ staged[s].id \in Ids \cup {0}
  BY <1>1 DEF Staged
<1>3. IdemRecord(s) \in Records
  BY <1>1, <1>2, RequestFields DEF IdemRecord, Records
<1>4. /\ members' \subseteq Accounts \X Workspaces
      /\ anchors' \subseteq Workspaces \X Anchors
      /\ follows' \subseteq Workspaces \X Accounts \X Anchors
  BY <1>2 DEF TypeInv, TypeOK, Install
<1>5. rows' \in [Ids -> Row \cup {None}]
  BY <1>1, <1>2 DEF TypeInv, TypeOK, Install
<1>6. idem' \in [Accounts \X Keys -> Records \cup {None}]
  BY <1>3 DEF TypeInv, TypeOK, Install, Remember
<1>7. NothingStaged \in Staged
  BY DEF NothingStaged, Staged
<1>8. TypeOK'
  BY <1>4, <1>5, <1>6, <1>7 DEF TypeInv, TypeOK, EndTransaction, Stages
<1>9. \A i \in Ids : rows[i] # None => rows'[i] # None
  BY <1>1, <1>2, NoneAssumption DEF TypeInv, TypeOK, Install
<1>10. Working'
  BY <1>9 DEF TypeInv, TypeOK, Working, EndTransaction
<1> QED BY <1>8, <1>10 DEF TypeInv

LEMMA TypeStep == TypeInv /\ [Next]_vars => TypeInv'
<1> SUFFICES ASSUME TypeInv, [Next]_vars
             PROVE  TypeInv'
  OBVIOUS
<1>1. ASSUME NEW s \in Sessions, Call(s) PROVE TypeInv'
  BY <1>1, CallType
<1>2. ASSUME NEW s \in Sessions, Enter(s) PROVE TypeInv'
  BY <1>2, LockType, EndType DEF Enter, Refuse
<1>3. ASSUME NEW s \in Sessions, Replay(s) \/ KeyReused(s) PROVE TypeInv'
  BY <1>3, EndType DEF Replay, KeyReused, Refuse
<1>4. ASSUME NEW s \in Sessions, Fresh(s) PROVE TypeInv'
  BY <1>4, FreshType
<1>5. ASSUME NEW s \in Sessions, EnsureAnchor(s) PROVE TypeInv'
  BY <1>5, EnsureAnchorType
<1>6. ASSUME NEW s \in Sessions, Statement(s) PROVE TypeInv'
  <2>1. pc[s] # "idle" /\ (Refused(s) \/ StagedARow(s) \/ ReadOn(s))
    BY <1>6, StatementShape
  <2>2. CASE Refused(s)
    BY <2>2, EndType DEF Refused, Refuse
  <2>3. CASE StagedARow(s)
    BY <2>1, <2>3, StageType DEF StagedARow
  <2>4. CASE ReadOn(s)
    BY <2>1, <2>4, ReadOnType
  <2> QED BY <2>1, <2>2, <2>3, <2>4
<1>7. ASSUME NEW s \in Sessions, Commit(s) PROVE TypeInv'
  <2>1. CASE Refuse(s, "key_collision")
    BY <2>1, EndType DEF Refuse
  <2>2. CASE Install(s) /\ EndTransaction(s) /\ calls' = calls
    BY <1>7, <2>2, InstallType DEF Commit
  <2> QED BY <1>7, <2>1, <2>2 DEF Commit
<1>8. ASSUME NEW s \in Sessions, Crash(s) PROVE TypeInv'
  BY <1>8, EndType DEF Crash
<1>9. CASE UNCHANGED vars
  BY <1>9 DEF vars, TypeInv, TypeOK, Working
<1> QED
  BY <1>1, <1>2, <1>3, <1>4, <1>5, <1>6, <1>7, <1>8, <1>9 DEF Next, Progress

(* Every reachable state is well typed, and a session holds a request of   *)
(* the stage it is in.                                                     *)
LEMMA Typed == Spec => []TypeInv
BY TypeInit, TypeStep, PTL DEF Spec

(* The tables always hold what their schema allows, for any number of      *)
(* accounts, sessions and calls.                                           *)
THEOREM TypeCorrect == Spec => []TypeOK
<1>1. TypeInv => TypeOK
  BY DEF TypeInv
<1> QED BY <1>1, Typed, PTL

-----------------------------------------------------------------------------
(* Why a key is applied once.  A session past LockKey holds its key, so no *)
(* two of them serve one key; and past Fresh the key's record is still     *)
(* missing, because only a session that holds the key writes it.           *)
Inside == {"prior", "anchor", "work", "update", "commit"}

HoldsKey ==
    \A s \in Sessions :
      pc[s] \in Inside => <<"key", KeyOf(req[s])>> \in held[s]

Exclusive ==
    \A s, t \in Sessions :
      s # t /\ pc[s] \in Inside /\ pc[t] \in Inside =>
        KeyOf(req[s]) # KeyOf(req[t])

StillFresh ==
    \A s \in Sessions :
      pc[s] \in Inside \ {"prior"} => idem[KeyOf(req[s])] = None

(* An audit entry and an "ok" answer are there only with their record.     *)
Recorded ==
    /\ \A e \in audit : /\ <<e.account, e.key>> \in Accounts \X Keys
                        /\ idem[<<e.account, e.key>>] # None
    /\ \A a \in answers : a.req \in Requests

KeyInv ==
    /\ HoldsKey
    /\ Exclusive
    /\ StillFresh
    /\ Recorded
    /\ AppliedOnce
    /\ NoKeyCollision
    /\ AnswersMatchRecord

(* A session inside that stays inside, writing nothing.                    *)
LEMMA MoveKeepsKeys ==
    ASSUME KeyInv, TypeInv, NEW s \in Sessions, pc[s] \in Inside,
           NEW p \in Inside \ {"prior"}, pc' = [pc EXCEPT ![s] = p],
           \A t \in Sessions : held[t] \subseteq held'[t],
           idem[KeyOf(req[s])] = None,
           UNCHANGED <<req, idem, audit, answers>>
    PROVE  KeyInv'
<1>1. HoldsKey'
  BY DEF KeyInv, HoldsKey, TypeInv, TypeOK
<1>2. Exclusive'
  BY DEF KeyInv, Exclusive, TypeInv, TypeOK
<1>3. StillFresh'
  BY DEF KeyInv, StillFresh, TypeInv, TypeOK
<1>4. Recorded' /\ AppliedOnce' /\ NoKeyCollision' /\ AnswersMatchRecord'
  BY DEF KeyInv, Recorded, AppliedOnce, NoKeyCollision, AnswersMatchRecord
<1> QED BY <1>1, <1>2, <1>3, <1>4 DEF KeyInv

(* A session that leaves, having committed nothing, gives no answer or one *)
(* that is a refusal or what the record says.                              *)
Truthful(a) ==
    /\ a.req \in Requests
    /\ a.code # "key_collision"
    /\ a.code = "ok" => /\ idem[KeyOf(a.req)] # None
                        /\ idem[KeyOf(a.req)].root = RequestRoot(a.req)
                        /\ idem[KeyOf(a.req)].id = a.id
                        /\ idem[KeyOf(a.req)].row = a.row

LEMMA LeaveKeepsKeys ==
    ASSUME KeyInv, TypeInv, NEW s \in Sessions, EndTransaction(s),
           \A a \in answers' : a \in answers \/ Truthful(a),
           UNCHANGED <<idem, audit>>
    PROVE  KeyInv'
<1>1. \A t \in Sessions :
        pc'[t] \in Inside =>
          /\ t # s /\ pc[t] = pc'[t] /\ req[t] = req'[t] /\ held[t] = held'[t]
  BY DEF EndTransaction, TypeInv, TypeOK, Inside
<1>2. HoldsKey' /\ Exclusive' /\ StillFresh'
  BY <1>1 DEF KeyInv, HoldsKey, Exclusive, StillFresh
<1>3. Recorded' /\ AppliedOnce'
  BY DEF KeyInv, Recorded, AppliedOnce, Truthful
<1>4. NoKeyCollision' /\ AnswersMatchRecord'
  BY DEF KeyInv, NoKeyCollision, AnswersMatchRecord, Truthful
<1> QED BY <1>2, <1>3, <1>4 DEF KeyInv

LEMMA RefuseKeepsKeys ==
    ASSUME KeyInv, TypeInv, NEW s \in Sessions, pc[s] # "idle",
           NEW code \in RefusalCodes, Refuse(s, code)
    PROVE  KeyInv'
<1>1. req[s] \in Requests
  BY DEF TypeInv, Working
<1>2. \A a \in answers' : a \in answers \/ Truthful(a)
  BY <1>1 DEF Refuse, Answer, Truthful, RefusalCodes
<1> QED BY <1>2, LeaveKeepsKeys DEF Refuse, tables

(* Taking the key: no other session inside has it, for its lock would      *)
(* conflict.                                                               *)
LEMMA LockKeepsKeys ==
    ASSUME KeyInv, TypeInv, NEW s \in Sessions, pc[s] = "enter", LockKey(s)
    PROVE  KeyInv'
<1>1. \A t \in Sessions \ {s} :
        pc[t] \in Inside => KeyOf(req[t]) # KeyOf(req[s])
  BY DEF KeyInv, HoldsKey, LockKey, Grantable, KeyLock, Conflicts
<1>2. /\ pc' = [pc EXCEPT ![s] = "prior"]
      /\ held' = [held EXCEPT ![s] = {<<"key", KeyOf(req[s])>>}]
      /\ UNCHANGED <<req, idem, audit, answers>>
  BY DEF LockKey, KeyLock, tables
<1>3. HoldsKey'
  BY <1>2 DEF KeyInv, HoldsKey, TypeInv, TypeOK, Inside
<1>4. Exclusive'
  BY <1>1, <1>2 DEF KeyInv, Exclusive, TypeInv, TypeOK, Inside
<1>5. StillFresh'
  BY <1>2 DEF KeyInv, StillFresh, TypeInv, TypeOK, Inside
<1>6. Recorded' /\ AppliedOnce' /\ NoKeyCollision' /\ AnswersMatchRecord'
  BY <1>2 DEF KeyInv, Recorded, AppliedOnce, NoKeyCollision,
              AnswersMatchRecord
<1> QED BY <1>3, <1>4, <1>5, <1>6 DEF KeyInv

(* The commit writes the one record its key did not have; every other      *)
(* session inside is waiting for another key.                              *)
LEMMA CommitKeepsKeys ==
    ASSUME KeyInv, TypeInv, NEW s \in Sessions, Commit(s)
    PROVE  KeyInv'
<1> DEFINE k == KeyOf(req[s])
           new == [call |-> call[s], req |-> req[s], code |-> "ok",
                   id |-> staged[s].id, row |-> staged[s].row]
<1>1. /\ pc[s] \in Inside \ {"prior"} /\ req[s] \in Requests
      /\ k \in Accounts \X Keys /\ idem[k] = None
  BY RequestFields DEF Commit, TypeInv, Working, KeyInv, StillFresh, Inside
<1>2. /\ EndTransaction(s)
      /\ idem' = [idem EXCEPT ![k] = IdemRecord(s)]
      /\ audit' = audit \cup {AuditEntry(s)}
      /\ answers' = answers \cup {new}
  BY <1>1 DEF Commit, Install, Remember, Answer
<1>3. IdemRecord(s) \in Records
  BY <1>1, RequestFields DEF IdemRecord, Records, Commit, TypeInv, TypeOK,
                             Working, Staged
<1>4. idem'[k] = IdemRecord(s) /\ idem'[k] # None
  BY <1>1, <1>2, <1>3, NoneAssumption DEF TypeInv, TypeOK
<1>5. \A x \in Accounts \X Keys : x # k => idem'[x] = idem[x]
  BY <1>2 DEF TypeInv, TypeOK
<1>6. \A t \in Sessions :
        pc'[t] \in Inside =>
          /\ t # s /\ pc[t] = pc'[t] /\ req[t] = req'[t] /\ held[t] = held'[t]
  BY <1>2 DEF EndTransaction, TypeInv, TypeOK, Inside
<1>7. HoldsKey' /\ Exclusive'
  BY <1>6 DEF KeyInv, HoldsKey, Exclusive
<1>8. StillFresh'
  <2> SUFFICES ASSUME NEW t \in Sessions, pc'[t] \in Inside \ {"prior"}
               PROVE  idem'[KeyOf(req'[t])] = None
    BY DEF StillFresh
  <2>1. t # s /\ pc[t] \in Inside \ {"prior"} /\ req'[t] = req[t]
    BY <1>6
  <2>2. KeyOf(req[t]) # k /\ idem[KeyOf(req[t])] = None
    BY <1>1, <2>1 DEF KeyInv, Exclusive, StillFresh
  <2>3. KeyOf(req[t]) \in Accounts \X Keys
    BY <2>1, RequestFields DEF TypeInv, Working, Inside
  <2> QED BY <1>5, <2>1, <2>2, <2>3
<1>9. \A e \in audit : <<e.account, e.key>> # k
  BY <1>1 DEF KeyInv, Recorded
<1>10. <<AuditEntry(s).account, AuditEntry(s).key>> = k
  BY DEF AuditEntry, KeyOf
<1>11. Recorded'
  <2>1. \A e \in audit' : /\ <<e.account, e.key>> \in Accounts \X Keys
                          /\ idem'[<<e.account, e.key>>] # None
    BY <1>1, <1>2, <1>4, <1>5, <1>9, <1>10 DEF KeyInv, Recorded
  <2>2. \A a \in answers' : a.req \in Requests
    BY <1>1, <1>2 DEF KeyInv, Recorded
  <2> QED BY <2>1, <2>2 DEF Recorded
<1>12. AppliedOnce'
  <2> SUFFICES ASSUME NEW e \in audit', NEW f \in audit',
                      e.account = f.account, e.key = f.key
               PROVE  e = f
    BY DEF AppliedOnce
  <2>1. CASE e \in audit /\ f \in audit
    BY <2>1 DEF KeyInv, AppliedOnce
  <2>2. CASE e \notin audit \/ f \notin audit
    BY <1>2, <1>9, <1>10, <2>2
  <2> QED BY <2>1, <2>2
<1>13. NoKeyCollision'
  BY <1>2 DEF KeyInv, NoKeyCollision
<1>14. AnswersMatchRecord'
  <2> SUFFICES ASSUME NEW a \in answers', a.code = "ok"
               PROVE  /\ idem'[KeyOf(a.req)] # None
                      /\ idem'[KeyOf(a.req)].root = RequestRoot(a.req)
                      /\ idem'[KeyOf(a.req)].id = a.id
                      /\ idem'[KeyOf(a.req)].row = a.row
    BY DEF AnswersMatchRecord
  <2>1. CASE a \in answers
    <3>1. idem[KeyOf(a.req)] # None /\ a.req \in Requests
      BY <2>1 DEF KeyInv, AnswersMatchRecord, Recorded
    <3>2. idem'[KeyOf(a.req)] = idem[KeyOf(a.req)]
      BY <1>1, <1>5, <3>1, RequestFields
    <3> QED BY <2>1, <3>2 DEF KeyInv, AnswersMatchRecord
  <2>2. CASE a = new
    BY <1>4, <2>2 DEF IdemRecord
  <2> QED BY <1>2, <2>1, <2>2
<1> QED BY <1>7, <1>8, <1>11, <1>12, <1>13, <1>14 DEF KeyInv

LEMMA KeyInit == ASSUME Init PROVE KeyInv
BY DEF Init, KeyInv, HoldsKey, Exclusive, StillFresh, Recorded, AppliedOnce,
       NoKeyCollision, AnswersMatchRecord, Inside

LEMMA KeyStep == KeyInv /\ TypeInv /\ [Next]_vars => KeyInv'
<1> SUFFICES ASSUME KeyInv, TypeInv, [Next]_vars
             PROVE  KeyInv'
  OBVIOUS
<1>1. ASSUME NEW s \in Sessions, Call(s) PROVE KeyInv'
  <2>1. /\ \A t \in Sessions : pc'[t] \in Inside =>
             pc[t] = pc'[t] /\ req[t] = req'[t] /\ held[t] = held'[t]
        /\ UNCHANGED <<idem, audit, answers>>
    BY <1>1 DEF Call, TypeInv, TypeOK, Inside, tables
  <2> QED BY <2>1 DEF KeyInv, HoldsKey, Exclusive, StillFresh, Recorded,
                      AppliedOnce, NoKeyCollision, AnswersMatchRecord
<1>2. ASSUME NEW s \in Sessions, Enter(s) PROVE KeyInv'
  BY <1>2, LockKeepsKeys, RefuseKeepsKeys DEF Enter, RefusalCodes
<1>3. ASSUME NEW s \in Sessions, Replay(s) PROVE KeyInv'
  <2>1. req[s] \in Requests
    BY <1>3 DEF Replay, TypeInv, Working
  <2>2. \A a \in answers' : a \in answers \/ Truthful(a)
    BY <1>3, <2>1 DEF Replay, Replays, Answer, Truthful
  <2> QED BY <1>3, <2>2, LeaveKeepsKeys DEF Replay, tables
<1>4. ASSUME NEW s \in Sessions, KeyReused(s) PROVE KeyInv'
  BY <1>4, RefuseKeepsKeys DEF KeyReused, RefusalCodes
<1>5. ASSUME NEW s \in Sessions, Fresh(s) PROVE KeyInv'
  <2>1. /\ pc[s] = "prior" /\ idem[KeyOf(req[s])] = None
        /\ \E p \in {"anchor", "work"} : pc' = [pc EXCEPT ![s] = p]
        /\ UNCHANGED <<req, held, idem, audit, answers>>
    BY <1>5 DEF Fresh, tables
  <2> QED BY <2>1, MoveKeepsKeys DEF Inside
<1>6. ASSUME NEW s \in Sessions, EnsureAnchor(s) PROVE KeyInv'
  <2>1. /\ pc[s] = "anchor" /\ pc' = [pc EXCEPT ![s] = "work"]
        /\ UNCHANGED <<req, idem, audit, answers>>
    BY <1>6 DEF EnsureAnchor, tables
  <2>2. \A t \in Sessions : held[t] \subseteq held'[t]
    BY <1>6 DEF EnsureAnchor, TypeInv, TypeOK
  <2>3. idem[KeyOf(req[s])] = None
    BY <2>1 DEF KeyInv, StillFresh, Inside
  <2> QED BY <2>1, <2>2, <2>3, MoveKeepsKeys DEF Inside
<1>7. ASSUME NEW s \in Sessions, Statement(s) PROVE KeyInv'
  <2>1. pc[s] \in {"work", "update"}
    BY <1>7, StatementShape
  <2>2. idem[KeyOf(req[s])] = None
    BY <2>1 DEF KeyInv, StillFresh, Inside
  <2>3. CASE Refused(s)
    BY <2>1, <2>3, RefuseKeepsKeys DEF Refused
  <2>4. CASE StagedARow(s) \/ ReadOn(s)
    <3>1. /\ \E p \in Inside \ {"prior"} : pc' = [pc EXCEPT ![s] = p]
          /\ UNCHANGED <<req, idem, audit, answers>>
      BY <2>4 DEF StagedARow, ReadOn, Stage, tables, Inside
    <3>2. \A t \in Sessions : held[t] \subseteq held'[t]
      BY <2>4 DEF StagedARow, ReadOn, Stage, TypeInv, TypeOK
    <3> QED BY <2>1, <2>2, <3>1, <3>2, MoveKeepsKeys DEF Inside
  <2> QED BY <1>7, <2>3, <2>4, StatementShape
<1>8. ASSUME NEW s \in Sessions, Commit(s) PROVE KeyInv'
  BY <1>8, CommitKeepsKeys
<1>9. ASSUME NEW s \in Sessions, Crash(s) PROVE KeyInv'
  BY <1>9, LeaveKeepsKeys DEF Crash, tables
<1>10. CASE UNCHANGED vars
  BY <1>10 DEF vars, KeyInv, HoldsKey, Exclusive, StillFresh, Recorded,
               AppliedOnce, NoKeyCollision, AnswersMatchRecord
<1> QED
  BY <1>1, <1>2, <1>3, <1>4, <1>5, <1>6, <1>7, <1>8, <1>9, <1>10
     DEF Next, Progress

LEMMA Keyed == Spec => []KeyInv
BY Typed, KeyInit, KeyStep, PTL DEF Spec

(* execute_command applies an account's key at most once, for any number   *)
(* of sessions, retries and crashes.                                       *)
THEOREM KeyAppliedOnce == Spec => []AppliedOnce
<1>1. KeyInv => AppliedOnce
  BY DEF KeyInv
<1> QED BY <1>1, Keyed, PTL

(* The advisory lock leaves nothing for the primary key of the records to  *)
(* refuse.                                                                 *)
THEOREM RetryNeverCollides == Spec => []NoKeyCollision
<1>1. KeyInv => NoKeyCollision
  BY DEF KeyInv
<1> QED BY <1>1, Keyed, PTL

(* Every caller told "ok" was told what its key's record holds, for the    *)
(* request it sent.                                                        *)
THEOREM AnswersAgree == Spec => []AnswersMatchRecord
<1>1. KeyInv => AnswersMatchRecord
  BY DEF KeyInv
<1> QED BY <1>1, Keyed, PTL

-----------------------------------------------------------------------------
(* What the commands write into threads: a refused command leaves nothing, *)
(* rows that hang together are of one thread, attempts follow their        *)
(* lifecycle, and no update of an attempt or a draft is lost.              *)

(* What a row hangs from is there and of its thread.                       *)
Hangs(row) ==
    /\ row.approach # 0 => OnThread(row.approach, "approach", row.ws, row.anchor)
    /\ row.attempt # 0 => OnThread(row.attempt, "attempt", row.ws, row.anchor)
    /\ row.approach # 0 /\ row.attempt # 0 =>
         rows[row.attempt].approach = row.approach

Loose(row) ==
    row.table \in {"submission_draft", "crdt_update"} =>
      row.approach = 0 /\ row.attempt = 0

(* What a statement may stage under an id: a row of its own, the next      *)
(* version of a row it has locked, or the row that is there already.       *)
Adds(s, w) ==
    /\ w.id = call[s]
    /\ w.row.version = 1
    /\ Hangs(w.row) /\ Loose(w.row)

Revises(s, w, locks) ==
    LET old == rows[w.id]
        r == req[s]
    IN  /\ w.id \in Ids /\ old # None
        /\ <<"row", w.id>> \in locks
        /\ r.expected = old.version
        /\ w.row = [old EXCEPT !.anchor = w.row.anchor, !.value = r.value,
                               !.version = @ + 1]
        /\ \/ /\ old.table = "attempt"
              /\ w.row.anchor = old.anchor
              /\ LegalMove(old.value, r.value)
           \/ old.table = "submission_draft"

Returns(w) ==
    /\ w.id \in Ids /\ rows[w.id] # None
    /\ rows[w.id].table = "crdt_update"
    /\ w.row = rows[w.id]

Writes(s, w, locks) ==
    w.id = 0 \/ Adds(s, w) \/ Revises(s, w, locks) \/ Returns(w)

(* The row is of the workspace of the request, and its anchor is bound or  *)
(* about to be bound with it.                                              *)
Binds(s, w) ==
    /\ w.row.ws = req[s].ws
    /\ req[s].kind \in AnchoredKinds => w.row.anchor = req[s].anchor
    /\ w.row.anchor # None => <<w.row.ws, w.row.anchor>> \in anchors \cup w.anchors

(* Between its two statements an update holds the attempt it has read.     *)
Reading(s) ==
    LET r == req[s] IN
    /\ r.kind = "attempt.update"
    /\ Present(r.attempt, "attempt", r.ws)
    /\ <<"row", r.attempt>> \in held[s]
    /\ LegalMove(rows[r.attempt].value, r.value)

(* An anchor is staged by the command that names it, before it works.      *)
Anchoring(s) ==
    LET a == <<req[s].ws, req[s].anchor>> IN
    IF req[s].kind \in AnchoredKinds
    THEN staged[s].anchors \in {{}, {a}} /\ a \in anchors \cup staged[s].anchors
    ELSE staged[s].anchors = {}

Fits(s) ==
    /\ pc[s] # "idle" => call[s] <= calls /\ rows[call[s]] = None
    /\ IF pc[s] \in {"work", "commit"} THEN Anchoring(s) ELSE staged[s].anchors = {}
    /\ pc[s] # "commit" => staged[s].id = 0
    /\ pc[s] = "update" => Reading(s)
    /\ pc[s] = "commit" => Writes(s, staged[s], held[s]) /\ Binds(s, staged[s])

(* Calls have numbers of their own, and a row is locked by one session.    *)
Apart ==
    \A s, t \in Sessions : s # t =>
      /\ pc[s] # "idle" /\ pc[t] # "idle" => call[s] # call[t]
      /\ \A i \in Ids : <<"row", i>> \in held[s] => <<"row", i>> \notin held[t]

Kept ==
    \A i \in Ids :
      rows[i] # None =>
        /\ i <= calls
        /\ Hangs(rows[i]) /\ Loose(rows[i])
        /\ rows[i].anchor # None => <<rows[i].ws, rows[i].anchor>> \in anchors

Audited == \A e \in audit : e.id # 0 => e.id \in Ids /\ rows[e.id] # None

ThreadInv ==
    /\ Apart
    /\ \A s \in Sessions : Fits(s)
    /\ Kept
    /\ Audited
    /\ AnchorsExplained
    /\ VersionsConsumed

-----------------------------------------------------------------------------
(* The writes named in ActivityCommandsProofs change what they say, and    *)
(* leave the staged anchor alone.                                          *)
LEMMA WithRowFields ==
    ASSUME NEW w \in Staged, NEW row
    PROVE  WithRow(w, row).anchors = w.anchors /\ WithRow(w, row).id = w.id
BY DEF Staged, WithRow

LEMMA WithIdRowFields ==
    ASSUME NEW w \in Staged, NEW i, NEW row
    PROVE  /\ WithIdRow(w, i, row).anchors = w.anchors
           /\ WithIdRow(w, i, row).id = i
           /\ WithIdRow(w, i, row).row = row
BY DEF Staged, WithIdRow

LEMMA WithMemberFields ==
    ASSUME NEW w \in Staged, NEW m, NEW row
    PROVE  WithMember(w, m, row).anchors = w.anchors /\ WithMember(w, m, row).id = w.id
BY DEF Staged, WithMember

LEMMA WithFollowFields ==
    ASSUME NEW w \in Staged, NEW f, NEW row
    PROVE  /\ WithOn(w, f, row).anchors = w.anchors /\ WithOn(w, f, row).id = w.id
           /\ WithOff(w, f, row).anchors = w.anchors /\ WithOff(w, f, row).id = w.id
BY DEF Staged, WithOn, WithOff

LEMMA NewRowFields ==
    ASSUME NEW r, NEW table, NEW anchor, NEW value
    PROVE  /\ NewRow(r, table, anchor, value).table = table
           /\ NewRow(r, table, anchor, value).ws = r.ws
           /\ NewRow(r, table, anchor, value).anchor = anchor
           /\ NewRow(r, table, anchor, value).approach = r.approach
           /\ NewRow(r, table, anchor, value).attempt = r.attempt
           /\ NewRow(r, table, anchor, value).version = 1
BY DEF NewRow

(* No other transaction has locked a row that the statement locks.         *)
Takes(s, locks) ==
    \A i \in Ids, t \in Sessions \ {s} : <<"row", i>> \in locks => <<"row", i>> \notin held[t]

LEMMA GrantedTakes ==
    ASSUME NEW s \in Sessions, NEW locks, Grantable(s, locks)
    PROVE  Takes(s, locks)
BY DEF Takes, Grantable, Conflicts

(* A statement that stages a row has read what the row hangs from.         *)
StagedWell(s) ==
    \E w \in Staged : \E locks :
      /\ Stage(s, w, locks)
      /\ Takes(s, locks)
      /\ w.row \in Row
      /\ w.anchors = staged[s].anchors
      /\ Writes(s, w, held[s] \cup locks)
      /\ Binds(s, w)

ReadWell(s) ==
    \E locks :
      /\ held' = [held EXCEPT ![s] = @ \cup locks]
      /\ Takes(s, locks)
      /\ pc' = [pc EXCEPT ![s] = "update"]
      /\ UNCHANGED <<tables, calls, req, call, staged, answers>>
      /\ req[s].kind = "attempt.update"
      /\ Present(req[s].attempt, "attempt", req[s].ws)
      /\ <<"row", req[s].attempt>> \in locks
      /\ LegalMove(rows[req[s].attempt].value, req[s].value)

(* Inserting a row that hangs from what is there.                          *)
LEMMA InsertFits ==
    ASSUME TypeInv, NEW s \in Sessions, pc[s] # "idle",
           NEW row \in Row, NEW locks, Insert(s, row, locks),
           row.version = 1, Hangs(row), Loose(row),
           Binds(s, WithIdRow(staged[s], call[s], row))
    PROVE  StagedWell(s)
<1> DEFINE w == WithIdRow(staged[s], call[s], row)
           all == locks \cup References(row)
<1>1. staged[s] \in Staged /\ call[s] \in Ids \cup {0}
  BY DEF TypeInv, TypeOK
<1>2. /\ w \in Staged /\ w.row = row /\ w.id = call[s]
      /\ w.anchors = staged[s].anchors
  BY <1>1, WithIdRowType, WithIdRowFields
<1>3. Stage(s, w, all) /\ Grantable(s, all)
  BY DEF Insert, WithIdRow
<1>4. Takes(s, all)
  BY <1>3, GrantedTakes
<1>5. Binds(s, w)
  OBVIOUS
<1> HIDE DEF w, all
<1>6. Writes(s, w, held[s] \cup all)
  BY <1>2 DEF Writes, Adds
<1> QED BY <1>2, <1>3, <1>4, <1>5, <1>6 DEF StagedWell

-----------------------------------------------------------------------------
(* What a request that works may rely on.                                  *)
LEMMA WorkingRequest ==
    ASSUME TypeInv, NEW s \in Sessions, pc[s] \in {"work", "update"}
    PROVE  /\ req[s] \in Requests /\ call[s] \in Ids /\ staged[s] \in Staged
           /\ req[s].anchor \in Anchors \cup {None} /\ req[s].value \in Values
           /\ req[s].account \in Accounts /\ req[s].ws \in Workspaces
           /\ req[s].approach \in Ids \cup {0} /\ req[s].attempt \in Ids \cup {0}
           /\ req[s].draft \in Ids \cup {0}
           /\ req[s].kind \in AnchoredKinds => req[s].anchor \in Anchors
           /\ req[s].approach # 0 => req[s].kind \in ApproachKinds
           /\ req[s].attempt # 0 => req[s].kind \in AttemptKinds
BY RequestFields, RequestsAssumption DEF TypeInv, TypeOK, Working

(* A row of an anchored kind is bound by the anchor before it.             *)
LEMMA AnchoredBinds ==
    ASSUME TypeInv, ThreadInv, NEW s \in Sessions, pc[s] = "work",
           req[s].kind \in AnchoredKinds, NEW w, w.anchors = staged[s].anchors,
           w.row.ws = req[s].ws, w.row.anchor = req[s].anchor
    PROVE  Binds(s, w)
<1>1. <<req[s].ws, req[s].anchor>> \in anchors \cup staged[s].anchors
  BY DEF ThreadInv, Fits, Anchoring
<1> QED BY <1>1 DEF Binds

(* A row of another kind is bound to the anchor of a row that is there.    *)
LEMMA InheritedBinds ==
    ASSUME TypeInv, ThreadInv, NEW s \in Sessions, req[s].kind \notin AnchoredKinds,
           NEW i \in Ids, rows[i] # None, rows[i].ws = req[s].ws,
           NEW w, w.row.ws = req[s].ws, w.row.anchor = rows[i].anchor
    PROVE  Binds(s, w)
BY DEF ThreadInv, Kept, Binds

(* Inserts of new rows of an anchored kind.                                *)
LEMMA NewRowFits ==
    ASSUME TypeInv, ThreadInv, NEW s \in Sessions, pc[s] = "work",
           req[s].kind \in AnchoredKinds,
           NEW table \in Tables, NEW locks,
           Insert(s, NewRow(req[s], table, req[s].anchor, req[s].value), locks),
           Hangs(NewRow(req[s], table, req[s].anchor, req[s].value)),
           Loose(NewRow(req[s], table, req[s].anchor, req[s].value))
    PROVE  StagedWell(s)
<1> DEFINE row == NewRow(req[s], table, req[s].anchor, req[s].value)
           w == WithIdRow(staged[s], call[s], row)
<1>1. row \in Row
  BY WorkingRequest, NewRowType
<1>2. row.ws = req[s].ws /\ row.anchor = req[s].anchor /\ row.version = 1
  BY NewRowFields
<1>3. w.anchors = staged[s].anchors /\ w.row = row
  BY WorkingRequest, WithIdRowFields
<1>4. Hangs(row) /\ Loose(row) /\ Insert(s, row, locks)
  OBVIOUS
<1>5. Binds(s, w)
  <2> HIDE DEF w, row
  <2> QED BY <1>2, <1>3, AnchoredBinds
<1> HIDE DEF row
<1> QED BY <1>1, <1>2, <1>4, <1>5, InsertFits

LEMMA AnchorTargetsHang ==
    ASSUME TypeInv, NEW s \in Sessions, NEW table,
           AnchorTargets(req[s]) = "ok"
    PROVE  Hangs(NewRow(req[s], table, req[s].anchor, req[s].value))
BY DEF AnchorTargets, Hangs, NewRow

LEMMA CreatesFit ==
    ASSUME TypeInv, ThreadInv, NEW s \in Sessions,
           CreateWorkspace(s) \/ SetFollow(s) \/ CreateApproach(s)
    PROVE  Refused(s) \/ StagedWell(s)
<1> DEFINE r == req[s]
<1>1. pc[s] = "work" /\ staged[s].id = 0 /\ staged[s] \in Staged /\ r \in Requests
  BY WorkingRequest DEF CreateWorkspace, SetFollow, CreateApproach, At, ThreadInv, Fits
<1>2. CASE CreateWorkspace(s)
  <2> DEFINE row == NewRow(r, "workspace", None, r.value)
             w == WithMember(staged[s], <<r.account, r.ws>>, row)
             locks == {<<"slug", r.ws>>}
  <2>1. Refuse(s, "23505") \/ (Stage(s, w, locks) /\ Grantable(s, locks))
    BY <1>2 DEF CreateWorkspace, WithMember
  <2>2. row \in Row /\ row.anchor = None /\ row.ws = r.ws
    <3>1. row \in Row
      BY <1>1, WorkingRequest, NewRowType DEF Tables
    <3> QED BY <3>1, NewRowFields
  <2>3. w \in Staged /\ w.row = row /\ w.anchors = staged[s].anchors /\ w.id = 0
    <3>1. <<r.account, r.ws>> \in Accounts \X Workspaces
      BY <1>1, WorkingRequest
    <3> HIDE DEF row
    <3> QED BY <1>1, <2>2, <3>1, WithMemberType, WithMemberFields
  <2>4. r.kind \notin AnchoredKinds
    BY <1>2 DEF CreateWorkspace, At, AnchoredKinds
  <2> HIDE DEF w, row, locks
  <2>5. Binds(s, w)
    BY <2>2, <2>3, <2>4 DEF Binds
  <2>6. Writes(s, w, held[s] \cup locks)
    BY <2>3 DEF Writes
  <2> QED BY <2>1, <2>2, <2>3, <2>5, <2>6, GrantedTakes DEF Refused, RefusalCodes, StagedWell
<1>3. CASE SetFollow(s)
  <2> DEFINE row == NewRow(r, "follow", r.anchor, r.value)
             f == <<r.ws, r.account, r.anchor>>
             w == WithRow(staged[s], row)
             on == WithOn(staged[s], f, row)
             off == WithOff(staged[s], f, row)
  <2>1. r.kind \in AnchoredKinds
    BY <1>3 DEF SetFollow, At, AnchoredKinds
  <2>2. row \in Row /\ row.anchor = r.anchor /\ row.ws = r.ws
    <3>1. row \in Row
      BY <1>1, WorkingRequest, NewRowType DEF Tables
    <3> QED BY <3>1, NewRowFields
  <2>3. f \in Workspaces \X Accounts \X Anchors
    BY <1>1, <2>1, WorkingRequest
  <2>4. \A x \in {w, on, off} :
          x \in Staged /\ x.row = row /\ x.anchors = staged[s].anchors /\ x.id = 0
    <3> HIDE DEF row, f
    <3> QED BY <1>1, <2>2, <2>3, WithRowType, WithRowFields, WithFollowType,
                WithFollowFields
  <2>5. \E x \in {w, on, off}, locks \in {{}, {<<"follow", f>>}} :
          Stage(s, x, locks) /\ (locks # {} => Grantable(s, locks))
    BY <1>3 DEF SetFollow, WithRow, WithOn, WithOff
  <2>6. \A locks \in {{}, {<<"follow", f>>}} : Takes(s, locks)
    BY DEF Takes
  <2> HIDE DEF w, on, off, row, f
  <2>7. \A x \in {w, on, off} : Binds(s, x) /\ \A locks : Writes(s, x, locks)
    BY <1>1, <2>1, <2>2, <2>4, AnchoredBinds DEF Writes
  <2> QED BY <2>2, <2>4, <2>5, <2>6, <2>7 DEF StagedWell
<1>4. CASE CreateApproach(s)
  <2>1. r.kind = "approach.create" /\ r.approach = 0 /\ r.attempt = 0
    BY <1>1, <1>4, WorkingRequest DEF CreateApproach, At, ApproachKinds, AttemptKinds
  <2>2. Hangs(NewRow(r, "approach", r.anchor, r.value))
        /\ Loose(NewRow(r, "approach", r.anchor, r.value))
    BY <2>1 DEF Hangs, Loose, NewRow
  <2> QED BY <1>1, <1>4, <2>1, <2>2, NewRowFits DEF CreateApproach, AnchoredKinds, Tables
<1> QED BY <1>2, <1>3, <1>4

(* Forks and attempts take the anchor of the approach they hang from.      *)
LEMMA ChildrenFit ==
    ASSUME TypeInv, ThreadInv, NEW s \in Sessions,
           ForkApproach(s) \/ CreateAttempt(s)
    PROVE  Refused(s) \/ StagedWell(s)
<1> DEFINE r == req[s]
           up == rows[r.approach]
<1>1. pc[s] = "work" /\ staged[s] \in Staged /\ r \in Requests
  BY WorkingRequest DEF ForkApproach, CreateAttempt, At
<1>2. r.kind \notin AnchoredKinds /\ r.attempt = 0
  BY <1>1, WorkingRequest DEF ForkApproach, CreateAttempt, At, AnchoredKinds, AttemptKinds
<1>3. SUFFICES ASSUME Present(r.approach, "approach", r.ws),
                      NEW table \in {"approach", "attempt"}, NEW value \in Values, NEW locks,
                      Insert(s, NewRow(r, table, up.anchor, value), locks)
               PROVE  StagedWell(s)
  <2>1. r.value \in Values /\ "planned" \in Values
    BY <1>1, WorkingRequest DEF Values, AttemptStates
  <2> QED BY <1>3, <2>1 DEF ForkApproach, CreateAttempt, Refused, RefusalCodes
<1> DEFINE row == NewRow(r, table, up.anchor, value)
           w == WithIdRow(staged[s], call[s], row)
<1>4. /\ r.approach \in Ids /\ up # None /\ up \in Row
      /\ up.table = "approach" /\ up.ws = r.ws
  BY <1>1, <1>3, WorkingRequest, PresentRow DEF Present
<1>5. row \in Row
  BY <1>1, <1>4, NewRowType DEF Row, Tables
<1>6. /\ row.ws = r.ws /\ row.anchor = up.anchor /\ row.version = 1
      /\ row.approach = r.approach /\ row.attempt = 0 /\ row.table = table
  BY <1>2, NewRowFields
<1>7. Insert(s, row, locks)
  BY <1>3
<1> HIDE DEF row
<1>8. Hangs(row) /\ Loose(row)
  BY <1>3, <1>4, <1>6 DEF Hangs, Loose, OnThread
<1>9. w.row = row
  BY <1>1, WithIdRowFields
<1>10. Binds(s, w)
  <2> HIDE DEF w
  <2> QED BY <1>2, <1>4, <1>6, <1>9, InheritedBinds
<1> QED BY <1>1, <1>5, <1>6, <1>7, <1>8, <1>10, InsertFits

(* The attempt is read under its lock, and updated under it.               *)
LEMMA AttemptReadFits ==
    ASSUME TypeInv, NEW s \in Sessions, ReadAttempt(s)
    PROVE  Refused(s) \/ ReadWell(s)
<1>1. CASE Refuse(s, "VA404") \/ Refuse(s, "22023")
  BY <1>1 DEF Refused, RefusalCodes
<1>2. CASE ~(Refuse(s, "VA404") \/ Refuse(s, "22023"))
  <2>1. /\ Present(req[s].attempt, "attempt", req[s].ws)
        /\ Grantable(s, AttemptLock(s))
        /\ LegalMove(rows[req[s].attempt].value, req[s].value)
        /\ held' = [held EXCEPT ![s] = @ \cup AttemptLock(s)]
        /\ pc'   = [pc EXCEPT ![s] = "update"]
        /\ UNCHANGED <<tables, calls, req, call, staged, answers>>
        /\ req[s].kind = "attempt.update"
    BY <1>2 DEF ReadAttempt, At
  <2>2. Takes(s, AttemptLock(s))
    BY <2>1, GrantedTakes
  <2>3. <<"row", req[s].attempt>> \in AttemptLock(s)
    BY DEF AttemptLock
  <2> HIDE DEF AttemptLock
  <2> QED BY <2>1, <2>2, <2>3 DEF ReadWell
<1> QED BY <1>1, <1>2

LEMMA RevisedFields ==
    ASSUME NEW row \in Row, NEW anchor, NEW value
    PROVE  /\ Revised(row, anchor, value).ws = row.ws
           /\ Revised(row, anchor, value).anchor = anchor
           /\ Moved(row, value) = Revised(row, row.anchor, value)
BY DEF Row, Revised, Moved

(* Staging the next version of a row that is locked.                       *)
LEMMA RevisionFits ==
    ASSUME TypeInv, NEW s \in Sessions, pc[s] \in {"work", "update"},
           NEW i \in Ids, rows[i] # None, rows[i].ws = req[s].ws,
           req[s].expected = rows[i].version,
           NEW anchor \in Anchors \cup {None},
           Revised(rows[i], anchor, req[s].value) \in Row,
           Grantable(s, {<<"row", i>>}),
           Stage(s, WithIdRow(staged[s], i, Revised(rows[i], anchor, req[s].value)),
                 {<<"row", i>>}),
           \/ /\ rows[i].table = "attempt" /\ anchor = rows[i].anchor
              /\ LegalMove(rows[i].value, req[s].value)
           \/ rows[i].table = "submission_draft",
           \A w : w.anchors = staged[s].anchors /\ w.row.ws = req[s].ws
                    /\ w.row.anchor = anchor => Binds(s, w)
    PROVE  StagedWell(s)
<1> DEFINE row == Revised(rows[i], anchor, req[s].value)
           w == WithIdRow(staged[s], i, row)
<1>1. rows[i] \in Row /\ staged[s] \in Staged
  BY DEF TypeInv, TypeOK
<1>2. row \in Row /\ row.ws = req[s].ws /\ row.anchor = anchor
  BY <1>1, RevisedFields
<1>3. /\ w \in Staged /\ w.row = row /\ w.id = i
      /\ w.anchors = staged[s].anchors
  <2> HIDE DEF row
  <2> QED BY <1>1, <1>2, WithIdRowType, WithIdRowFields
<1>4. Takes(s, {<<"row", i>>})
  BY GrantedTakes
<1>5. Stage(s, w, {<<"row", i>>})
  OBVIOUS
<1>6. row = [rows[i] EXCEPT !.anchor = row.anchor, !.value = req[s].value, !.version = @ + 1]
  BY <1>2 DEF Revised
<1> HIDE DEF w, row
<1>7. Binds(s, w)
  BY <1>2, <1>3
<1>8. Revises(s, w, held[s] \cup {<<"row", i>>})
  BY <1>2, <1>3, <1>6 DEF Revises
<1> QED BY <1>2, <1>3, <1>4, <1>5, <1>7, <1>8 DEF StagedWell, Writes

LEMMA AttemptUpdateFits ==
    ASSUME TypeInv, ThreadInv, NEW s \in Sessions, UpdateAttempt(s)
    PROVE  Refused(s) \/ StagedWell(s)
<1> DEFINE r == req[s]
           old == rows[r.attempt]
<1>1. CASE Refuse(s, "VACAS")
  BY <1>1 DEF Refused, RefusalCodes
<1>2. CASE ~Refuse(s, "VACAS")
  <2>1. pc[s] = "update" /\ r \in Requests /\ r.value \in Values
    BY WorkingRequest DEF UpdateAttempt
  <2>2. Reading(s)
    BY <2>1 DEF ThreadInv, Fits
  <2>3. /\ r.attempt \in Ids /\ old # None /\ old \in Row /\ old.ws = r.ws
        /\ old.table = "attempt" /\ LegalMove(old.value, r.value)
        /\ r.kind \notin AnchoredKinds
    BY <2>1, <2>2, WorkingRequest, PresentRow DEF Reading, Present, AnchoredKinds
  <2>4. old.anchor \in Anchors \cup {None} /\ Moved(old, r.value) = Revised(old, old.anchor, r.value)
    BY <2>3, RevisedFields DEF Row
  <2>5. /\ old.version = r.expected /\ Grantable(s, {<<"row", r.attempt>>})
        /\ Stage(s, WithIdRow(staged[s], r.attempt, Moved(old, r.value)),
                 {<<"row", r.attempt>>})
    BY <1>2 DEF UpdateAttempt, WithIdRow, Moved
  <2>6. Revised(old, old.anchor, r.value) \in Row
    BY <2>1, <2>3, <2>4, MovedType
  <2>7. \A w : w.anchors = staged[s].anchors /\ w.row.ws = r.ws
                 /\ w.row.anchor = old.anchor => Binds(s, w)
    BY <2>3, InheritedBinds
  <2> QED BY <2>1, <2>3, <2>4, <2>5, <2>6, <2>7, RevisionFits
<1> QED BY <1>1, <1>2

LEMMA DraftFits ==
    ASSUME TypeInv, ThreadInv, NEW s \in Sessions, SaveDraft(s)
    PROVE  Refused(s) \/ StagedWell(s)
<1> DEFINE r == req[s]
           old == rows[r.draft]
<1>1. /\ pc[s] = "work" /\ r.kind \in AnchoredKinds /\ r.anchor \in Anchors
      /\ r.value \in Values /\ r.draft \in Ids \cup {0}
      /\ r.approach = 0 /\ r.attempt = 0
  BY WorkingRequest DEF SaveDraft, At, AnchoredKinds, ApproachKinds, AttemptKinds
<1>2. CASE Refuse(s, "VACAS")
  BY <1>2 DEF Refused, RefusalCodes
<1>3. CASE Insert(s, NewRow(r, "submission_draft", r.anchor, r.value), {})
  <2>1. Hangs(NewRow(r, "submission_draft", r.anchor, r.value))
        /\ Loose(NewRow(r, "submission_draft", r.anchor, r.value))
    BY <1>1 DEF Hangs, Loose, NewRow
  <2> QED BY <1>1, <1>3, <2>1, NewRowFits DEF Tables
<1>4. CASE /\ Revisable(r) /\ Grantable(s, {<<"row", r.draft>>})
           /\ Stage(s, WithIdRow(staged[s], r.draft, Revised(old, r.anchor, r.value)),
                    {<<"row", r.draft>>})
  <2>1. /\ r.draft \in Ids /\ old # None /\ old \in Row /\ old.ws = r.ws
        /\ old.table = "submission_draft" /\ r.expected = old.version
    BY <1>1, <1>4, PresentRow DEF Revisable, Present
  <2>2. Revised(old, r.anchor, r.value) \in Row
    BY <1>1, <2>1, RevisedType
  <2>3. \A w : w.anchors = staged[s].anchors /\ w.row.ws = r.ws
                 /\ w.row.anchor = r.anchor => Binds(s, w)
    BY <1>1, AnchoredBinds
  <2> QED BY <1>1, <1>4, <2>1, <2>2, <2>3, RevisionFits
<1> QED BY <1>2, <1>3, <1>4 DEF SaveDraft, WithIdRow, Revised

LEMMA TargetsFit ==
    ASSUME TypeInv, ThreadInv, NEW s \in Sessions,
           AddDiscussion(s) \/ AttachArtifact(s)
    PROVE  Refused(s) \/ StagedWell(s)
<1> DEFINE r == req[s]
<1>1. pc[s] = "work" /\ r.kind \in AnchoredKinds
  BY DEF AddDiscussion, AttachArtifact, At, AnchoredKinds
<1>2. CASE (\E code \in {"VA404", "22023", "23505"} : Refuse(s, code))
  BY <1>2 DEF Refused, RefusalCodes
<1>3. ASSUME AnchorTargets(r) = "ok", NEW table \in {"discussion", "artifact_ref"}, NEW locks,
             Insert(s, NewRow(r, table, r.anchor, r.value), locks)
      PROVE  StagedWell(s)
  <2>1. Hangs(NewRow(r, table, r.anchor, r.value))
    BY <1>3, AnchorTargetsHang
  <2>2. Loose(NewRow(r, table, r.anchor, r.value))
    BY <1>3 DEF Loose, NewRow
  <2> QED BY <1>1, <1>3, <2>1, <2>2, NewRowFits DEF Tables
<1>4. AnchorTargets(r) \in {"ok", "VA404", "22023"}
  BY DEF AnchorTargets
<1>5. CASE AddDiscussion(s)
  BY <1>2, <1>3, <1>4, <1>5 DEF AddDiscussion
<1>6. CASE AttachArtifact(s)
  BY <1>2, <1>3, <1>4, <1>6 DEF AttachArtifact
<1> QED BY <1>5, <1>6

(* An append that finds its update answers with the row that is there.     *)
LEMMA AppendFits ==
    ASSUME TypeInv, ThreadInv, NEW s \in Sessions, AppendUpdate(s)
    PROVE  StagedWell(s)
<1> DEFINE r == req[s]
           unique == {<<"crdt", <<r.ws, r.anchor, r.value>>>>}
<1>1. /\ pc[s] = "work" /\ r.kind \in AnchoredKinds /\ r.approach = 0 /\ r.attempt = 0
      /\ staged[s] \in Staged
  BY WorkingRequest DEF AppendUpdate, At, AnchoredKinds, ApproachKinds, AttemptKinds
<1>2. CASE Insert(s, NewRow(r, "crdt_update", r.anchor, r.value), unique)
  <2>1. Hangs(NewRow(r, "crdt_update", r.anchor, r.value))
        /\ Loose(NewRow(r, "crdt_update", r.anchor, r.value))
    BY <1>1 DEF Hangs, Loose, NewRow
  <2> HIDE DEF unique
  <2> QED BY <1>1, <1>2, <2>1, NewRowFits DEF Tables
<1>3. ASSUME NEW i \in SameContent("crdt_update", r),
             Stage(s, WithIdRow(staged[s], i, rows[i]), unique)
      PROVE  StagedWell(s)
  <2> DEFINE w == WithIdRow(staged[s], i, rows[i])
  <2>1. /\ i \in Ids /\ rows[i] # None /\ rows[i] \in Row /\ rows[i].table = "crdt_update"
        /\ rows[i].ws = r.ws /\ rows[i].anchor = r.anchor
    BY <1>3, PresentRow DEF SameContent, OnThread, Present
  <2>2. w \in Staged /\ w.row = rows[i] /\ w.id = i /\ w.anchors = staged[s].anchors
    BY <1>1, <2>1, WithIdRowType, WithIdRowFields
  <2>3. Stage(s, w, unique) /\ Takes(s, unique)
    BY <1>3 DEF Takes
  <2> HIDE DEF w, unique
  <2>4. Binds(s, w)
    BY <1>1, <2>1, <2>2, AnchoredBinds
  <2>5. Writes(s, w, held[s] \cup unique)
    BY <2>1, <2>2 DEF Writes, Returns
  <2> QED BY <2>1, <2>2, <2>3, <2>4, <2>5 DEF StagedWell
<1> QED BY <1>2, <1>3 DEF AppendUpdate, WithIdRow

LEMMA StatementFits ==
    ASSUME TypeInv, ThreadInv, NEW s \in Sessions, Statement(s)
    PROVE  Refused(s) \/ StagedWell(s) \/ ReadWell(s)
BY CreatesFit, ChildrenFit, AttemptReadFits, AttemptUpdateFits, DraftFits, TargetsFit,
   AppendFits DEF Statement

-----------------------------------------------------------------------------
(* A step of one session that leaves the tables alone.                     *)
OthersStay(s) ==
    \A t \in Sessions \ {s} :
      /\ pc'[t] = pc[t] /\ req'[t] = req[t] /\ call'[t] = call[t]
      /\ held'[t] = held[t] /\ staged'[t] = staged[t]

LEMMA LocalStepKeeps ==
    ASSUME TypeInv, ThreadInv, NEW s \in Sessions, OthersStay(s),
           UNCHANGED tables, calls \in Nat, calls' \in {calls, calls + 1},
           Fits(s)',
           \A t \in Sessions \ {s} :
             /\ pc'[s] # "idle" /\ pc[t] # "idle" => call'[s] # call[t]
             /\ \A i \in Ids : <<"row", i>> \in held'[s] => <<"row", i>> \notin held[t]
    PROVE  ThreadInv'
<1>1. UNCHANGED <<rows, anchors, audit>>
  BY DEF tables
<1>2. ASSUME NEW t \in Sessions PROVE Fits(t)'
  <2>1. CASE t = s
    BY <2>1
  <2>2. CASE t # s
    <3>1. /\ pc'[t] = pc[t] /\ req'[t] = req[t] /\ call'[t] = call[t]
          /\ held'[t] = held[t] /\ staged'[t] = staged[t]
      BY <2>2 DEF OthersStay
    <3>2. Fits(t)
      BY DEF ThreadInv
    <3>3. call[t] <= calls => call[t] <= calls'
      BY DEF TypeInv, TypeOK, Ids
    <3>4. /\ Anchoring(t)' = Anchoring(t)
          /\ Reading(t)' = Reading(t)
      BY <1>1, <3>1 DEF Anchoring, Reading, Present
    <3>5. Binds(t, staged[t])' = Binds(t, staged[t])
      BY <1>1, <3>1 DEF Binds
    <3>6. Writes(t, staged[t], held[t])' = Writes(t, staged[t], held[t])
      <4>1. Revises(t, staged[t], held[t])' = Revises(t, staged[t], held[t])
        BY <1>1, <3>1 DEF Revises
      <4>2. Adds(t, staged[t])' = Adds(t, staged[t])
        BY <1>1, <3>1 DEF Adds, Hangs, Loose, OnThread, Present
      <4>3. Returns(staged[t])' = Returns(staged[t])
        BY <1>1, <3>1 DEF Returns
      <4> QED BY <3>1, <4>1, <4>2, <4>3 DEF Writes
    <3> QED BY <1>1, <3>1, <3>2, <3>3, <3>4, <3>5, <3>6 DEF Fits
  <2> QED BY <2>1, <2>2
<1>3. Apart'
  <2> SUFFICES ASSUME NEW t \in Sessions, NEW u \in Sessions, t # u
               PROVE  /\ pc'[t] # "idle" /\ pc'[u] # "idle" => call'[t] # call'[u]
                      /\ \A i \in Ids : <<"row", i>> \in held'[t] => <<"row", i>> \notin held'[u]
    BY DEF Apart
  <2> QED BY DEF OthersStay, ThreadInv, Apart
<1>4. Kept'
  <2>1. \A i \in Ids : i <= calls => i <= calls'
    BY DEF Ids
  <2> QED BY <1>1, <2>1 DEF ThreadInv, Kept, Hangs, Loose, OnThread, Present
<1>5. Audited' /\ AnchorsExplained' /\ VersionsConsumed'
  BY <1>1 DEF ThreadInv, Audited, AnchorsExplained, VersionsConsumed, Updates
<1> QED BY <1>2, <1>3, <1>4, <1>5 DEF ThreadInv

LEMMA LeaveKeepsThreads ==
    ASSUME TypeInv, ThreadInv, NEW s \in Sessions, EndTransaction(s),
           UNCHANGED <<tables, calls>>
    PROVE  ThreadInv'
<1>1. /\ pc'[s] = "idle" /\ held'[s] = {} /\ staged'[s] = NothingStaged
      /\ OthersStay(s)
  BY DEF EndTransaction, TypeInv, TypeOK, OthersStay
<1>2. Fits(s)'
  BY <1>1 DEF Fits, NothingStaged
<1>3. calls \in Nat
  BY BoundsAssumption DEF TypeInv, TypeOK
<1> QED BY <1>1, <1>2, <1>3, LocalStepKeeps

LEMMA CallKeepsThreads ==
    ASSUME TypeInv, ThreadInv, NEW s \in Sessions, Call(s)
    PROVE  ThreadInv'
<1>1. /\ pc[s] = "idle" /\ pc'[s] = "enter" /\ call'[s] = calls + 1 /\ calls' = calls + 1
      /\ UNCHANGED <<tables, held, staged>> /\ OthersStay(s)
  BY DEF Call, TypeInv, TypeOK, OthersStay
<1>2. calls \in Nat /\ calls + 1 \in Ids
  BY BoundsAssumption DEF TypeInv, TypeOK, Call, Ids
<1>3. rows[calls + 1] = None
  <2>1. \A i \in Ids : rows[i] # None => i <= calls
    BY DEF ThreadInv, Kept
  <2>2. ~ (calls + 1 <= calls)
    BY <1>2
  <2> QED BY <1>2, <2>1, <2>2, Zenon
<1>4. Fits(s)'
  BY <1>1, <1>2, <1>3 DEF ThreadInv, Fits, tables
<1>5. \A t \in Sessions : pc[t] # "idle" => call[t] # calls + 1
  <2> SUFFICES ASSUME NEW t \in Sessions, pc[t] # "idle" PROVE call[t] # calls + 1
    OBVIOUS
  <2>1. call[t] <= calls
    BY DEF ThreadInv, Fits
  <2> QED BY <1>2, <2>1
<1>6. \A t \in Sessions \ {s}, i \in Ids : <<"row", i>> \in held'[s] => <<"row", i>> \notin held[t]
  BY <1>1 DEF ThreadInv, Apart
<1> QED BY <1>1, <1>2, <1>4, <1>5, <1>6, LocalStepKeeps

(* Steps that only move a session on, before or within its work.           *)
LEMMA MoveKeepsThreads ==
    ASSUME TypeInv, ThreadInv, NEW s \in Sessions, pc[s] # "idle",
           UNCHANGED <<tables, calls, req, call>>, OthersStay(s), pc'[s] # "idle",
           NEW locks, Takes(s, locks),
           \A i \in Ids : <<"row", i>> \in held'[s] =>
             <<"row", i>> \in held[s] \/ <<"row", i>> \in locks,
           IF pc'[s] \in {"work", "commit"} THEN Anchoring(s)' ELSE staged'[s].anchors = {},
           pc'[s] # "commit" => staged'[s].id = 0,
           pc'[s] = "update" => Reading(s)',
           pc'[s] = "commit" => Writes(s, staged[s], held[s])' /\ Binds(s, staged[s])'
    PROVE  ThreadInv'
<1>1. call[s] <= calls /\ rows[call[s]] = None
  BY DEF ThreadInv, Fits
<1>2. Fits(s)'
  BY <1>1 DEF Fits, tables
<1>3. \A t \in Sessions \ {s} :
        /\ pc'[s] # "idle" /\ pc[t] # "idle" => call'[s] # call[t]
        /\ \A i \in Ids : <<"row", i>> \in held'[s] => <<"row", i>> \notin held[t]
  BY DEF ThreadInv, Apart, Takes
<1>4. calls \in Nat
  BY BoundsAssumption DEF TypeInv, TypeOK
<1> QED BY <1>2, <1>3, <1>4, LocalStepKeeps

LEMMA EntryKeepsThreads ==
    ASSUME TypeInv, ThreadInv, NEW s \in Sessions,
           (pc[s] = "enter" /\ LockKey(s)) \/ Fresh(s)
    PROVE  ThreadInv'
<1>1. /\ pc[s] \in {"enter", "prior"} /\ UNCHANGED <<tables, calls, req, call, staged>>
      /\ OthersStay(s)
      /\ pc'[s] \in {"prior", "anchor", "work"}
      /\ pc'[s] = "work" => req[s].kind \notin AnchoredKinds
      /\ \A i \in Ids : <<"row", i>> \in held'[s] => <<"row", i>> \in held[s]
  BY DEF LockKey, KeyLock, Fresh, TypeInv, TypeOK, OthersStay
<1>2. staged[s].anchors = {} /\ staged[s].id = 0
  BY <1>1 DEF ThreadInv, Fits
<1>3. pc'[s] = "work" => Anchoring(s)'
  BY <1>1, <1>2 DEF Anchoring
<1>4. Takes(s, {})
  BY DEF Takes
<1> QED BY <1>1, <1>2, <1>3, <1>4, MoveKeepsThreads

LEMMA AnchorKeepsThreads ==
    ASSUME TypeInv, ThreadInv, NEW s \in Sessions, EnsureAnchor(s)
    PROVE  ThreadInv'
<1> DEFINE a == <<req[s].ws, req[s].anchor>>
<1>1. /\ pc[s] = "anchor" /\ pc'[s] = "work" /\ UNCHANGED <<tables, calls, req, call>>
      /\ OthersStay(s)
      /\ \A i \in Ids : <<"row", i>> \in held'[s] => <<"row", i>> \in held[s]
      /\ IF a \in anchors THEN staged' = staged
         ELSE staged'[s].anchors = {a} /\ staged'[s].id = staged[s].id
  BY DEF EnsureAnchor, TypeInv, TypeOK, OthersStay, Staged
<1>2. staged[s].anchors = {} /\ staged[s].id = 0 /\ req[s].kind \in AnchoredKinds
  BY <1>1 DEF ThreadInv, Fits, TypeInv, Working
<1>3. Anchoring(s)'
  BY <1>1, <1>2 DEF Anchoring, tables
<1>4. Takes(s, {})
  BY DEF Takes
<1> QED BY <1>1, <1>2, <1>3, <1>4, MoveKeepsThreads

LEMMA StatementKeepsThreads ==
    ASSUME TypeInv, ThreadInv, NEW s \in Sessions, Statement(s)
    PROVE  ThreadInv'
<1>1. pc[s] \in {"work", "update"}
  BY StatementShape
<1>2. CASE Refused(s)
  BY <1>2, LeaveKeepsThreads DEF Refused, Refuse
<1>3. CASE ReadWell(s)
  <2>1. PICK locks :
          /\ held' = [held EXCEPT ![s] = @ \cup locks]
          /\ Takes(s, locks)
          /\ pc' = [pc EXCEPT ![s] = "update"]
          /\ UNCHANGED <<tables, calls, req, call, staged, answers>>
          /\ req[s].kind = "attempt.update"
          /\ Present(req[s].attempt, "attempt", req[s].ws)
          /\ <<"row", req[s].attempt>> \in locks
          /\ LegalMove(rows[req[s].attempt].value, req[s].value)
    BY <1>3 DEF ReadWell
  <2>2. OthersStay(s) /\ held'[s] = held[s] \cup locks /\ pc'[s] = "update"
    BY <2>1 DEF OthersStay, TypeInv, TypeOK
  <2>3. Reading(s)'
    BY <2>1, <2>2 DEF Reading, Present, tables
  <2>4. staged[s].anchors = {} /\ staged[s].id = 0
    BY <1>1, <2>1 DEF ThreadInv, Fits, Anchoring, AnchoredKinds
  <2> QED BY <1>1, <2>1, <2>2, <2>3, <2>4, MoveKeepsThreads
<1>4. CASE StagedWell(s)
  <2>1. PICK w, locks :
          /\ w \in Staged
          /\ Stage(s, w, locks)
          /\ Takes(s, locks)
          /\ w.anchors = staged[s].anchors
          /\ Writes(s, w, held[s] \cup locks)
          /\ Binds(s, w)
    BY <1>4 DEF StagedWell
  <2>2. /\ OthersStay(s) /\ held'[s] = held[s] \cup locks /\ pc'[s] = "commit"
        /\ staged'[s] = w /\ UNCHANGED <<tables, calls, req, call>>
    BY <2>1 DEF Stage, OthersStay, TypeInv, TypeOK
  <2>3. Anchoring(s)
    <3>1. CASE pc[s] = "work"
      BY <3>1 DEF ThreadInv, Fits
    <3>2. CASE pc[s] = "update"
      BY <3>2 DEF ThreadInv, Fits, Reading, Anchoring, AnchoredKinds
    <3> QED BY <1>1, <3>1, <3>2
  <2>4. Anchoring(s)' /\ Binds(s, staged[s])'
    BY <2>1, <2>2, <2>3 DEF Anchoring, Binds, tables
  <2>5. Writes(s, staged[s], held[s])'
    <3>1. Revises(s, w, held[s] \cup locks) => Revises(s, staged[s], held[s])'
      BY <2>2 DEF Revises, tables
    <3>2. Adds(s, w) => Adds(s, staged[s])'
      BY <2>2 DEF Adds, Hangs, Loose, OnThread, Present, tables
    <3>3. Returns(w) => Returns(staged[s])'
      BY <2>2 DEF Returns, tables
    <3> QED BY <2>1, <2>2, <3>1, <3>2, <3>3 DEF Writes
  <2> QED BY <1>1, <2>1, <2>2, <2>4, <2>5, MoveKeepsThreads
<1> QED BY <1>2, <1>3, <1>4, StatementFits

-----------------------------------------------------------------------------
(* What a commit does to the rows: nothing, one more, or the next version  *)
(* of one.                                                                 *)
RowChange(s, w) ==
    \/ w.id = 0 /\ rows' = rows
    \/ Returns(w) /\ rows' = rows
    \/ /\ Adds(s, w) /\ w.id \in Ids /\ rows[w.id] = None
       /\ rows' = [rows EXCEPT ![w.id] = w.row]
    \/ /\ Revises(s, w, held[s])
       /\ rows' = [rows EXCEPT ![w.id] = w.row]

LEMMA CommitRows ==
    ASSUME TypeInv, ThreadInv, NEW s \in Sessions, pc[s] = "commit", Install(s)
    PROVE  RowChange(s, staged[s])
<1> DEFINE w == staged[s]
<1>1. /\ Writes(s, w, held[s]) /\ rows[call[s]] = None
      /\ rows \in [Ids -> Row \cup {None}] /\ call[s] \in Ids
  BY DEF ThreadInv, Fits, TypeInv, TypeOK, Working
<1>2. rows' = IF w.id = 0 THEN rows ELSE [rows EXCEPT ![w.id] = w.row]
  BY DEF Install
<1>3. 0 \notin Ids
  BY DEF Ids
<1> SUFFICES RowChange(s, w)
  OBVIOUS
<1> HIDE DEF w
<1>4. CASE w.id = 0
  BY <1>2, <1>4 DEF RowChange
<1>5. CASE Adds(s, w)
  <2>1. w.id \in Ids /\ rows[w.id] = None
    BY <1>1, <1>5 DEF Adds
  <2> QED BY <1>2, <1>3, <1>5, <2>1 DEF RowChange
<1>6. CASE Revises(s, w, held[s])
  <2>1. w.id \in Ids
    BY <1>6 DEF Revises
  <2> QED BY <1>2, <1>3, <1>6, <2>1 DEF RowChange
<1>7. CASE Returns(w)
  <2>1. [rows EXCEPT ![w.id] = w.row] = rows
    BY <1>1, <1>7 DEF Returns
  <2> QED BY <1>2, <1>7, <2>1 DEF RowChange
<1> QED BY <1>1, <1>4, <1>5, <1>6, <1>7 DEF Writes

(* A row that is there stays, with the columns no update writes.           *)
Lasting ==
    \A i \in Ids : rows[i] # None =>
      /\ rows'[i] # None
      /\ rows'[i].table = rows[i].table /\ rows'[i].ws = rows[i].ws
      /\ rows'[i].approach = rows[i].approach /\ rows'[i].attempt = rows[i].attempt
      /\ rows[i].table # "submission_draft" => rows'[i].anchor = rows[i].anchor
      /\ rows[i].table \notin {"submission_draft", "attempt"} => rows'[i] = rows[i]

LEMMA CommitLasts ==
    ASSUME TypeInv, ThreadInv, NEW s \in Sessions, pc[s] = "commit", Install(s)
    PROVE  Lasting
<1> DEFINE w == staged[s]
<1>1. rows \in [Ids -> Row \cup {None}] /\ w.row # None
  BY NoneAssumption DEF TypeInv, TypeOK, Working
<1>2. CASE rows' = rows
  BY <1>2 DEF Lasting
<1>3. CASE w.id \in Ids /\ rows[w.id] = None /\ rows' = [rows EXCEPT ![w.id] = w.row]
  BY <1>1, <1>3 DEF Lasting
<1>4. CASE Revises(s, w, held[s]) /\ rows' = [rows EXCEPT ![w.id] = w.row]
  <2> DEFINE old == rows[w.id]
  <2>1. /\ w.id \in Ids /\ old # None /\ old.table \in {"submission_draft", "attempt"}
        /\ w.row = [old EXCEPT !.anchor = w.row.anchor, !.value = req[s].value, !.version = @ + 1]
        /\ old.table # "submission_draft" => w.row.anchor = old.anchor
    BY <1>4 DEF Revises
  <2>2. old \in Row
    BY <1>1, <2>1
  <2>3. /\ w.row.table = old.table /\ w.row.ws = old.ws
        /\ w.row.approach = old.approach /\ w.row.attempt = old.attempt
    BY <2>1, <2>2 DEF Row
  <2>4. \A i \in Ids : rows'[i] = IF i = w.id THEN w.row ELSE rows[i]
    BY <1>1, <1>4, <2>1
  <2> HIDE DEF w
  <2> QED BY <1>1, <2>1, <2>3, <2>4 DEF Lasting
<1> QED BY <1>2, <1>3, <1>4, CommitRows DEF RowChange

(* So what a row hangs from is still there after a commit.                 *)
HangsNext(row) ==
    /\ row.approach # 0 =>
         LET up == rows'[row.approach] IN
         up # None /\ up.table = "approach" /\ up.ws = row.ws /\ up.anchor = row.anchor
    /\ row.attempt # 0 =>
         LET up == rows'[row.attempt] IN
         up # None /\ up.table = "attempt" /\ up.ws = row.ws /\ up.anchor = row.anchor
    /\ row.approach # 0 /\ row.attempt # 0 =>
         rows'[row.attempt].approach = row.approach

LEMMA HangingLasts ==
    ASSUME Lasting, NEW row, Hangs(row),
           row.approach \in Ids \cup {0}, row.attempt \in Ids \cup {0}
    PROVE  HangsNext(row)
BY DEF Lasting, Hangs, HangsNext, OnThread, Present

(* A row that a session holds, or that is not revised, is as it was.       *)
LEMMA HeldRowStays ==
    ASSUME TypeInv, ThreadInv, NEW s \in Sessions, pc[s] = "commit", Install(s),
           NEW t \in Sessions \ {s}, NEW i \in Ids, rows[i] # None,
           <<"row", i>> \in held[t]
    PROVE  rows'[i] = rows[i]
<1>1. rows \in [Ids -> Row \cup {None}]
  BY DEF TypeInv, TypeOK
<1>2. <<"row", i>> \notin held[s]
  BY DEF ThreadInv, Apart
<1>3. CASE rows' = rows
  BY <1>3
<1>4. CASE rows[staged[s].id] = None /\ rows' = [rows EXCEPT ![staged[s].id] = staged[s].row]
  BY <1>1, <1>4
<1>5. CASE Revises(s, staged[s], held[s]) /\ rows' = [rows EXCEPT ![staged[s].id] = staged[s].row]
  BY <1>1, <1>2, <1>5 DEF Revises
<1> QED BY <1>3, <1>4, <1>5, CommitRows DEF RowChange

-----------------------------------------------------------------------------
(* The commit of a session, against the invariant part by part.            *)
Commits(s) ==
    /\ pc[s] = "commit"
    /\ Install(s) /\ EndTransaction(s)
    /\ calls' = calls

LEMMA CommitFits ==
    ASSUME TypeInv, ThreadInv, NEW s \in Sessions, Commits(s),
           NEW t \in Sessions
    PROVE  Fits(t)'
<1>1. pc[s] = "commit" /\ Install(s)
  BY DEF Commits
<1>2. CASE t = s
  BY <1>2 DEF Commits, EndTransaction, Fits, NothingStaged, TypeInv, TypeOK
<1>3. CASE t # s
  <2>1. /\ pc'[t] = pc[t] /\ req'[t] = req[t] /\ call'[t] = call[t]
        /\ held'[t] = held[t] /\ staged'[t] = staged[t] /\ calls' = calls
    BY <1>3 DEF Commits, EndTransaction, TypeInv, TypeOK
  <2>2. Fits(t) /\ Lasting /\ RowChange(s, staged[s])
    BY <1>1, CommitLasts, CommitRows DEF ThreadInv
  <2>3. anchors \subseteq anchors'
    BY <1>1 DEF Install
  <2>4. ASSUME pc[t] # "idle" PROVE call[t] <= calls /\ rows'[call[t]] = None
    <3>1. call[t] # call[s] /\ call[t] \in Ids /\ call[t] <= calls /\ rows[call[t]] = None
      BY <1>1, <1>3, <2>2, <2>4 DEF ThreadInv, Apart, Fits, TypeInv, Working
    <3>2. rows \in [Ids -> Row \cup {None}]
      BY DEF TypeInv, TypeOK
    <3> QED BY <2>2, <3>1, <3>2 DEF RowChange, Adds, Revises
  <2>5. Anchoring(t) => Anchoring(t)'
    BY <2>1, <2>3 DEF Anchoring
  <2>6. ASSUME pc[t] = "update" PROVE Reading(t)'
    <3>1. Reading(t) /\ req[t].attempt \in Ids
      BY <2>2, <2>6 DEF Fits, TypeInv, Working
    <3>2. rows'[req[t].attempt] = rows[req[t].attempt]
      BY <1>1, <1>3, <3>1, HeldRowStays DEF Reading, Present
    <3> QED BY <2>1, <3>1, <3>2 DEF Reading, Present
  <2>7. ASSUME pc[t] = "commit" PROVE Writes(t, staged[t], held[t])' /\ Binds(t, staged[t])'
    <3> DEFINE w == staged[t]
    <3>1. Writes(t, w, held[t]) /\ Binds(t, w) /\ w.row \in Row
      BY <2>2, <2>7 DEF Fits, TypeInv, Working
    <3>2. Binds(t, staged[t])'
      BY <2>1, <2>3, <3>1 DEF Binds
    <3>3. ASSUME Adds(t, w) PROVE Adds(t, staged[t])'
      <4>1. HangsNext(w.row)
        BY <2>2, <3>1, <3>3, HangingLasts DEF Adds, Row
      <4> QED BY <2>1, <3>3, <4>1 DEF Adds, Hangs, HangsNext, OnThread, Present, Loose
    <3>4. ASSUME Revises(t, w, held[t]) PROVE Revises(t, staged[t], held[t])'
      <4>1. rows'[w.id] = rows[w.id]
        BY <1>1, <1>3, <3>4, HeldRowStays DEF Revises
      <4> QED BY <2>1, <3>4, <4>1 DEF Revises
    <3>5. ASSUME Returns(w) PROVE Returns(staged[t])'
      BY <2>1, <2>2, <3>5 DEF Returns, Lasting
    <3> QED BY <2>1, <3>1, <3>2, <3>3, <3>4, <3>5 DEF Writes
  <2> QED BY <2>1, <2>2, <2>4, <2>5, <2>6, <2>7 DEF Fits
<1> QED BY <1>2, <1>3

LEMMA CommitApart ==
    ASSUME TypeInv, ThreadInv, NEW s \in Sessions, Commits(s)
    PROVE  Apart'
<1>1. \A t \in Sessions :
        /\ pc'[t] # "idle" => t # s /\ pc[t] # "idle" /\ call'[t] = call[t]
        /\ \A i \in Ids : <<"row", i>> \in held'[t] => <<"row", i>> \in held[t]
  BY DEF Commits, EndTransaction, TypeInv, TypeOK
<1> QED BY <1>1 DEF ThreadInv, Apart

LEMMA CommitKept ==
    ASSUME TypeInv, ThreadInv, NEW s \in Sessions, Commits(s)
    PROVE  Kept'
<1> DEFINE w == staged[s]
<1>1. /\ Lasting /\ RowChange(s, w) /\ anchors' = anchors \cup w.anchors
      /\ calls' = calls /\ w.row \in Row /\ rows \in [Ids -> Row \cup {None}]
      /\ Binds(s, w) /\ call[s] <= calls
  BY CommitLasts, CommitRows DEF Commits, Install, TypeInv, TypeOK, Working, ThreadInv, Fits
<1>2. SUFFICES ASSUME NEW i \in Ids, rows'[i] # None
               PROVE  /\ i <= calls
                      /\ HangsNext(rows'[i]) /\ Loose(rows'[i])
                      /\ rows'[i].anchor # None =>
                           <<rows'[i].ws, rows'[i].anchor>> \in anchors'
  BY <1>1 DEF Kept, Hangs, HangsNext, OnThread, Present, Loose
<1> HIDE DEF w
<1>3. \A row \in Row : row.approach \in Ids \cup {0} /\ row.attempt \in Ids \cup {0}
  BY DEF Row
<1>4. CASE rows'[i] = rows[i]
  <2>1. /\ i <= calls /\ Hangs(rows[i]) /\ Loose(rows[i]) /\ rows[i] \in Row
        /\ rows[i].anchor # None => <<rows[i].ws, rows[i].anchor>> \in anchors
    BY <1>1, <1>2, <1>4 DEF ThreadInv, Kept
  <2>2. HangsNext(rows[i])
    BY <1>1, <1>3, <2>1, HangingLasts
  <2> QED BY <1>1, <1>4, <2>1, <2>2
<1>5. CASE Adds(s, w) /\ i = w.id /\ rows'[i] = w.row
  <2>1. Hangs(w.row) /\ Loose(w.row) /\ i = call[s]
    BY <1>5 DEF Adds
  <2>2. HangsNext(w.row)
    BY <1>1, <1>3, <2>1, HangingLasts
  <2> QED BY <1>1, <1>5, <2>1, <2>2 DEF Binds
<1>6. CASE Revises(s, w, held[s]) /\ i = w.id /\ rows'[i] = w.row
  <2> DEFINE old == rows[i]
  <2>1. /\ old # None /\ old \in Row /\ i <= calls /\ Hangs(old) /\ Loose(old)
        /\ w.row = [old EXCEPT !.anchor = w.row.anchor, !.value = req[s].value,
                               !.version = @ + 1]
        /\ \/ old.table = "attempt" /\ w.row.anchor = old.anchor
           \/ old.table = "submission_draft"
    BY <1>1, <1>6 DEF Revises, ThreadInv, Kept
  <2>2. /\ w.row.table = old.table /\ w.row.ws = old.ws
        /\ w.row.approach = old.approach /\ w.row.attempt = old.attempt
    BY <2>1 DEF Row
  <2>3. HangsNext(old)
    BY <1>1, <1>3, <2>1, HangingLasts
  <2>4. HangsNext(w.row)
    <3>1. CASE w.row.anchor = old.anchor
      BY <2>2, <2>3, <3>1 DEF HangsNext
    <3>2. CASE old.table = "submission_draft"
      BY <2>1, <2>2, <3>2 DEF HangsNext, Loose
    <3> QED BY <2>1, <3>1, <3>2
  <2>5. Loose(w.row)
    BY <2>1, <2>2 DEF Loose
  <2> QED BY <1>1, <1>6, <2>1, <2>4, <2>5 DEF Binds
<1> QED BY <1>1, <1>4, <1>5, <1>6 DEF RowChange, Revises

LEMMA CommitAudited ==
    ASSUME TypeInv, ThreadInv, NEW s \in Sessions, Commits(s)
    PROVE  Audited'
<1> DEFINE w == staged[s]
<1>1. /\ Lasting /\ RowChange(s, w) /\ audit' = audit \cup {AuditEntry(s)}
      /\ w.row # None /\ rows \in [Ids -> Row \cup {None}]
  BY CommitLasts, CommitRows, NoneAssumption DEF Commits, Install, TypeInv, TypeOK, Working
<1>2. AuditEntry(s).id = w.id
  BY DEF AuditEntry
<1> HIDE DEF w
<1>3. w.id # 0 => w.id \in Ids /\ rows'[w.id] # None
  BY <1>1 DEF RowChange, Revises, Returns
<1> QED BY <1>1, <1>2, <1>3 DEF ThreadInv, Audited, Lasting

LEMMA CommitExplained ==
    ASSUME TypeInv, ThreadInv, NEW s \in Sessions, Commits(s)
    PROVE  AnchorsExplained'
<1> DEFINE w == staged[s]
           e == AuditEntry(s)
<1>1. /\ anchors' = anchors \cup w.anchors /\ audit' = audit \cup {e}
      /\ Binds(s, w) /\ Anchoring(s) /\ req[s] \in Requests
  BY DEF Commits, Install, TypeInv, TypeOK, Working, ThreadInv, Fits
<1>2. e.ws = req[s].ws /\ e.anchor = w.row.anchor
  BY DEF AuditEntry
<1>3. req[s].kind \in AnchoredKinds => req[s].anchor # None
  BY <1>1, RequestFields, NoneAssumption
<1> HIDE DEF w, e
<1>4. anchors = {<<f.ws, f.anchor>> : f \in {g \in audit : g.anchor # None}}
  BY DEF ThreadInv, AnchorsExplained
<1>5. w.anchors = staged[s].anchors
  BY DEF w
<1>6. CASE e.anchor = None
  <2>1. w.anchors = {}
    BY <1>1, <1>2, <1>3, <1>5, <1>6 DEF Anchoring, Binds
  <2>2. {g \in audit' : g.anchor # None} = {g \in audit : g.anchor # None}
    BY <1>1, <1>6
  <2> QED BY <1>1, <1>4, <2>1, <2>2 DEF AnchorsExplained
<1>7. CASE e.anchor # None
  <2>1. w.anchors \subseteq {<<e.ws, e.anchor>>} /\ <<e.ws, e.anchor>> \in anchors \cup w.anchors
    BY <1>1, <1>2, <1>5, <1>7 DEF Anchoring, Binds
  <2>2. {g \in audit' : g.anchor # None} = {g \in audit : g.anchor # None} \cup {e}
    BY <1>1, <1>7
  <2>3. anchors' = anchors \cup {<<e.ws, e.anchor>>}
    BY <1>1, <2>1
  <2> QED BY <1>4, <2>2, <2>3 DEF AnchorsExplained
<1> QED BY <1>6, <1>7

LEMMA CommitConsumes ==
    ASSUME TypeInv, ThreadInv, NEW s \in Sessions, Commits(s)
    PROVE  VersionsConsumed'
<1> DEFINE w == staged[s]
           e == AuditEntry(s)
<1>1. /\ RowChange(s, w) /\ audit' = audit \cup {e} /\ rows[call[s]] = None
      /\ rows \in [Ids -> Row \cup {None}]
  BY CommitRows DEF Commits, Install, TypeInv, TypeOK, ThreadInv, Fits
<1>2. /\ e.id = w.id /\ e.call = call[s] /\ e.root.expected = req[s].expected
      /\ e.root.value = req[s].value
  BY DEF AuditEntry, RequestRoot
<1> HIDE DEF w, e
<1>3. SUFFICES ASSUME NEW i \in Ids, rows'[i] # None,
                      rows'[i].table \in {"attempt", "submission_draft"}
               PROVE  /\ {f.root.expected : f \in Updates(i)'} = 1 .. rows'[i].version - 1
                      /\ \A f, g \in Updates(i)' : f.root.expected = g.root.expected => f = g
                      /\ \A f \in Updates(i)' :
                           f.root.expected = rows'[i].version - 1 =>
                             f.root.value = rows'[i].value
  BY DEF VersionsConsumed
<1>4. Updates(i)' = {f \in audit' : f.id = i /\ f.call # i}
  BY DEF Updates
<1>5. CASE rows'[i] = rows[i] /\ (i # w.id \/ Returns(w))
  <2>1. i # w.id
    BY <1>3, <1>5 DEF Returns
  <2>2. Updates(i)' = Updates(i)
    BY <1>1, <1>2, <1>4, <2>1 DEF Updates
  <2> QED BY <1>3, <1>5, <2>2 DEF ThreadInv, VersionsConsumed
<1>6. CASE Adds(s, w) /\ i = w.id /\ rows[i] = None /\ rows'[i] = w.row
  <2>1. Updates(i)' = {}
    BY <1>1, <1>2, <1>4, <1>6 DEF ThreadInv, Audited, Adds, Ids
  <2>2. rows'[i].version = 1
    BY <1>6 DEF Adds
  <2> QED BY <2>1, <2>2
<1>7. CASE Revises(s, w, held[s]) /\ i = w.id /\ rows'[i] = w.row
  <2> DEFINE old == rows[i]
  <2>1. /\ old # None /\ req[s].expected = old.version
        /\ w.row = [old EXCEPT !.anchor = w.row.anchor, !.value = req[s].value,
                               !.version = @ + 1]
    BY <1>7 DEF Revises
  <2>2. old \in Row
    BY <1>1, <2>1
  <2>3. /\ w.row.version = old.version + 1 /\ w.row.value = req[s].value
        /\ w.row.table = old.table /\ old.version \in Nat \ {0}
    BY <2>1, <2>2 DEF Row
  <2>4. Updates(i)' = Updates(i) \cup {e}
    BY <1>1, <1>2, <1>4, <1>7, <2>1 DEF Updates
  <2>5. /\ {f.root.expected : f \in Updates(i)} = 1 .. old.version - 1
        /\ \A f, g \in Updates(i) : f.root.expected = g.root.expected => f = g
    BY <1>3, <1>7, <2>1, <2>3 DEF ThreadInv, VersionsConsumed
  <2>6. /\ e.root.expected = old.version /\ e.root.value = req[s].value
        /\ rows'[i].version = old.version + 1 /\ rows'[i].value = req[s].value
    BY <1>2, <1>7, <2>1, <2>3
  <2> DEFINE U == Updates(i)
             v == old.version
             value == req[s].value
  <2>7. /\ v \in Nat \ {0} /\ e.root.expected = v /\ e.root.value = value
        /\ {f.root.expected : f \in U} = 1 .. v - 1
        /\ \A f, g \in U : f.root.expected = g.root.expected => f = g
        /\ rows'[i].version = v + 1 /\ rows'[i].value = value
        /\ Updates(i)' = U \cup {e}
    BY <2>3, <2>4, <2>5, <2>6
  <2> HIDE DEF old, U, v, value
  <2>8. /\ {f.root.expected : f \in U \cup {e}} = 1 .. (v + 1) - 1
        /\ \A f, g \in U \cup {e} : f.root.expected = g.root.expected => f = g
        /\ \A f \in U \cup {e} :
             f.root.expected = (v + 1) - 1 => f.root.value = value
    <3>1. \A f \in U : f.root.expected \in 1 .. v - 1
      BY <2>7
    <3>2. \A f \in U : f.root.expected # v
      BY <2>7, <3>1
    <3>3. {f.root.expected : f \in U \cup {e}} = {f.root.expected : f \in U} \cup {v}
      BY <2>7
    <3>4. (v + 1) - 1 = v /\ (1 .. v - 1) \cup {v} = 1 .. v
      BY <2>7
    <3> QED BY <2>7, <3>2, <3>3, <3>4
  <2> QED BY <2>7, <2>8
<1>8. w.id = 0 => i # w.id
  BY DEF Ids
<1>9. CASE rows' = rows /\ (w.id = 0 \/ Returns(w))
  BY <1>5, <1>8, <1>9
<1>10. CASE /\ Adds(s, w) /\ w.id \in Ids /\ rows[w.id] = None
            /\ rows' = [rows EXCEPT ![w.id] = w.row]
  <2>1. rows'[i] = IF i = w.id THEN w.row ELSE rows[i]
    BY <1>1, <1>10
  <2> QED BY <1>5, <1>6, <1>10, <2>1
<1>11. CASE /\ Revises(s, w, held[s])
            /\ rows' = [rows EXCEPT ![w.id] = w.row]
  <2>1. rows'[i] = IF i = w.id THEN w.row ELSE rows[i]
    BY <1>1, <1>11 DEF Revises
  <2> QED BY <1>5, <1>7, <1>11, <2>1
<1> QED BY <1>1, <1>9, <1>10, <1>11 DEF RowChange

-----------------------------------------------------------------------------
LEMMA ThreadInit == ASSUME Init PROVE ThreadInv
<1>1. \A s \in Sessions : Fits(s)
  BY DEF Init, Fits, NothingStaged
<1>2. Apart /\ Kept /\ Audited
  BY DEF Init, Apart, Kept, Audited
<1>3. AnchorsExplained /\ VersionsConsumed
  BY DEF Init, AnchorsExplained, VersionsConsumed
<1> QED BY <1>1, <1>2, <1>3 DEF ThreadInv

LEMMA CommitKeepsThreads ==
    ASSUME TypeInv, ThreadInv, NEW s \in Sessions, Commit(s)
    PROVE  ThreadInv'
<1>1. CASE Refuse(s, "key_collision")
  BY <1>1, LeaveKeepsThreads DEF Refuse
<1>2. CASE Commits(s)
  BY <1>2, CommitFits, CommitApart, CommitKept, CommitAudited, CommitExplained,
     CommitConsumes DEF ThreadInv
<1> QED BY <1>1, <1>2 DEF Commit, Commits

LEMMA ThreadStep == TypeInv /\ ThreadInv /\ [Next]_vars => ThreadInv'
<1> SUFFICES ASSUME TypeInv, ThreadInv, [Next]_vars
             PROVE  ThreadInv'
  OBVIOUS
<1>1. ASSUME NEW s \in Sessions, Call(s) PROVE ThreadInv'
  BY <1>1, CallKeepsThreads
<1>2. ASSUME NEW s \in Sessions, Enter(s) PROVE ThreadInv'
  BY <1>2, EntryKeepsThreads, LeaveKeepsThreads DEF Enter, Refuse
<1>3. ASSUME NEW s \in Sessions, Replay(s) \/ KeyReused(s) \/ Crash(s)
      PROVE  ThreadInv'
  BY <1>3, LeaveKeepsThreads DEF Replay, KeyReused, Crash, Refuse
<1>4. ASSUME NEW s \in Sessions, Fresh(s) PROVE ThreadInv'
  BY <1>4, EntryKeepsThreads
<1>5. ASSUME NEW s \in Sessions, EnsureAnchor(s) PROVE ThreadInv'
  BY <1>5, AnchorKeepsThreads
<1>6. ASSUME NEW s \in Sessions, Statement(s) PROVE ThreadInv'
  BY <1>6, StatementKeepsThreads
<1>7. ASSUME NEW s \in Sessions, Commit(s) PROVE ThreadInv'
  BY <1>7, CommitKeepsThreads
<1>8. CASE UNCHANGED vars
  <2>1. /\ UNCHANGED <<members, anchors, follows, rows, idem, audit, calls>>
        /\ UNCHANGED <<pc, req, call, held, staged>>
    BY <1>8 DEF vars
  <2>2. Apart' /\ Kept' /\ Audited'
    BY <2>1 DEF ThreadInv, Apart, Kept, Audited, Hangs, Loose, OnThread, Present
  <2>3. AnchorsExplained' /\ VersionsConsumed'
    BY <2>1 DEF ThreadInv, AnchorsExplained, VersionsConsumed, Updates
  <2>4. ASSUME NEW s \in Sessions PROVE Fits(s)'
    <3>1. Fits(s) /\ (Anchoring(s) => Anchoring(s)') /\ (Reading(s) => Reading(s)')
      BY <2>1 DEF ThreadInv, Anchoring, Reading, Present
    <3>2. Writes(s, staged[s], held[s]) => Writes(s, staged[s], held[s])'
      BY <2>1 DEF Writes, Adds, Revises, Returns, Hangs, Loose, OnThread, Present
    <3>3. Binds(s, staged[s]) => Binds(s, staged[s])'
      BY <2>1 DEF Binds
    <3> QED BY <2>1, <3>1, <3>2, <3>3 DEF Fits
  <2> QED BY <2>2, <2>3, <2>4 DEF ThreadInv
<1> QED BY <1>1, <1>2, <1>3, <1>4, <1>5, <1>6, <1>7, <1>8 DEF Next, Progress

THEOREM Threaded == Spec => []ThreadInv
<1>1. Init => ThreadInv
  BY ThreadInit
<1> QED BY <1>1, ThreadStep, Typed, PTL DEF Spec

(* A command that was refused, or whose call was lost, leaves nothing: the *)
(* anchors are those the applied commands named, although EnsureAnchor     *)
(* stages one before the rest of its command is checked.                   *)
THEOREM RefusedLeavesNothing == Spec => []AnchorsExplained
<1>1. ThreadInv => AnchorsExplained
  BY DEF ThreadInv
<1> QED BY <1>1, Threaded, PTL

(* Rows that hang together are of one thread, although the check and the   *)
(* insert of a child are one statement and its commit is another, with     *)
(* other commits between them.                                             *)
THEOREM ThreadsHangTogether == Spec => []SameThread
<1>1. ThreadInv => SameThread
  BY DEF ThreadInv, Kept, Hangs, SameThread
<1> QED BY <1>1, Threaded, PTL

(* No update of an attempt or a draft is lost: the version a caller        *)
(* expected is consumed by its update and by no other.                     *)
THEOREM NoUpdateLost == Spec => []VersionsConsumed
<1>1. ThreadInv => VersionsConsumed
  BY DEF ThreadInv
<1> QED BY <1>1, Threaded, PTL

-----------------------------------------------------------------------------
(* Only a commit writes the rows.                                          *)
LEMMA RowsRest ==
    ASSUME TypeInv, ThreadInv, [Next]_vars,
           ~ \E s \in Sessions : pc[s] = "commit" /\ Install(s)
    PROVE  rows' = rows
<1>1. ASSUME NEW s \in Sessions, Statement(s) PROVE rows' = rows
  <2>1. CASE Refused(s)
    BY <2>1 DEF Refused, Refuse, tables
  <2>2. CASE ReadWell(s)
    BY <2>2 DEF ReadWell, tables
  <2>3. CASE StagedWell(s)
    BY <2>3 DEF StagedWell, Stage, tables
  <2> QED BY <1>1, <2>1, <2>2, <2>3, StatementFits
<1>2. ASSUME NEW s \in Sessions, Call(s) \/ Enter(s) \/ Replay(s) \/ KeyReused(s)
      PROVE  rows' = rows
  BY <1>2 DEF Call, Enter, LockKey, Replay, KeyReused, Refuse, tables
<1>3. ASSUME NEW s \in Sessions, Fresh(s) \/ EnsureAnchor(s) \/ Commit(s) \/ Crash(s)
      PROVE  rows' = rows
  BY <1>3 DEF Fresh, EnsureAnchor, Commit, Crash, Refuse, tables
<1>4. CASE UNCHANGED vars
  BY <1>4 DEF vars, tables
<1> QED BY <1>1, <1>2, <1>3, <1>4 DEF Next, Progress

LEMMA MovesLegal ==
    TypeInv /\ ThreadInv /\ [Next]_vars =>
      \A i \in Ids :
        rows[i] # None /\ rows[i].table = "attempt" =>
          \/ rows'[i].value = rows[i].value
          \/ <<rows[i].value, rows'[i].value>> \in Lifecycle
<1> SUFFICES ASSUME TypeInv, ThreadInv, [Next]_vars,
                    NEW i \in Ids, rows[i] # None, rows[i].table = "attempt"
             PROVE  \/ rows'[i].value = rows[i].value
                    \/ <<rows[i].value, rows'[i].value>> \in Lifecycle
  OBVIOUS
<1>1. CASE rows' = rows
  BY <1>1
<1>2. ASSUME NEW s \in Sessions, pc[s] = "commit", Install(s)
      PROVE  \/ rows'[i].value = rows[i].value
             \/ <<rows[i].value, rows'[i].value>> \in Lifecycle
  <2> DEFINE w == staged[s]
  <2>1. RowChange(s, w) /\ rows \in [Ids -> Row \cup {None}]
    BY <1>2, CommitRows DEF TypeInv, TypeOK
  <2> HIDE DEF w
  <2>2. CASE /\ Revises(s, w, held[s]) /\ i = w.id
             /\ rows' = [rows EXCEPT ![w.id] = w.row]
    <3>1. rows[i] \in Row /\ rows'[i] = w.row
      BY <2>1, <2>2
    <3>2. w.row.value = req[s].value
      BY <2>2, <3>1 DEF Revises, Row
    <3>3. LegalMove(rows[i].value, req[s].value)
      BY <2>2 DEF Revises
    <3> QED BY <3>1, <3>2, <3>3 DEF LegalMove
  <2>3. CASE rows'[i] = rows[i]
    BY <2>3
  <2> QED BY <2>1, <2>2, <2>3 DEF RowChange, Revises
<1> QED BY <1>1, <1>2, RowsRest

(* An attempt moves along its lifecycle only, although the move is checked *)
(* against the row an earlier statement has read: the row stays locked.    *)
THEOREM LifecycleFollowed == Spec => LifecycleLegal
<1>1. TypeInv /\ ThreadInv /\ [Next]_vars =>
        [\A i \in Ids :
           rows[i] # None /\ rows[i].table = "attempt" =>
             \/ rows'[i].value = rows[i].value
             \/ <<rows[i].value, rows'[i].value>> \in Lifecycle]_vars
  BY MovesLegal
<1> QED BY <1>1, Typed, Threaded, PTL DEF Spec, LifecycleLegal

-----------------------------------------------------------------------------
(* The workspace commands, run in transactions of several statements that  *)
(* interleave, amount to atomic commands applied one at a time.  A command *)
(* takes effect at its commit; what it staged before still fits then.      *)

Bare(w) == w.members = {} /\ w.on = {} /\ w.off = {}

(* What a staged write will do besides its row: nothing, the caller's own  *)
(* follow, or the caller's membership of a workspace nobody has.           *)
WritesRow(s, w) ==
    LET r == req[s] IN
    /\ w.id # 0 /\ Bare(w)
    /\ r.kind # "workspace.create"
    /\ w.id = call[s] => w.row.by = r.account
    /\ w.row.table = "crdt_update" => w.row.value = r.value

WritesFollow(s, w) ==
    LET r == req[s]
        f == <<r.ws, r.account, r.anchor>>
    IN  /\ w.id = 0 /\ w.members = {}
        /\ r.kind = "follow.set"
        /\ \/ w.on = {} /\ w.off = {}
           \/ r.value = "following" /\ w.on = {f} /\ w.off = {}
           \/ r.value # "following" /\ w.on = {} /\ w.off = {f}

WritesMember(s, w) ==
    LET r == req[s] IN
    /\ w.id = 0 /\ w.on = {} /\ w.off = {}
    /\ r.kind = "workspace.create"
    /\ w.members = {<<r.account, r.ws>>}
    /\ \A m \in members : m[2] # r.ws
    /\ <<"slug", r.ws>> \in held[s]

Effect(s) ==
    WritesRow(s, staged[s]) \/ WritesFollow(s, staged[s]) \/ WritesMember(s, staged[s])

Founding(s) == pc[s] = "commit" /\ req[s].kind = "workspace.create"

EffectInv ==
    /\ \A s \in Sessions : pc[s] \in Inside => Authorised(req[s])
    /\ \A s \in Sessions : pc[s] # "commit" => Bare(staged[s])
    /\ \A s \in Sessions : pc[s] = "commit" => Effect(s)
    /\ \A s, t \in Sessions :
         s # t /\ Founding(s) /\ Founding(t) => req[s].ws # req[t].ws

-----------------------------------------------------------------------------
(* The statements: each stages what is its own.                            *)
StagedEffect(s) ==
    /\ pc'[s] = "commit" /\ req'[s] = req[s]
    /\ Effect(s)'
    /\ Founding(s)' => \A t \in Sessions \ {s} : Founding(t) => req[s].ws # req[t].ws

LEMMA StagedRowEffect ==
    ASSUME TypeInv, ThreadInv, EffectInv, NEW s \in Sessions, NEW w, NEW locks,
           Stage(s, w, locks), WritesRow(s, w)
    PROVE  StagedEffect(s)
<1>1. /\ pc'[s] = "commit" /\ req' = req /\ call' = call /\ staged'[s] = w
  BY DEF Stage, TypeInv, TypeOK
<1>2. WritesRow(s, staged[s])'
  BY <1>1 DEF WritesRow, Bare
<1>3. ~ Founding(s)'
  BY <1>1 DEF Founding, WritesRow
<1> QED BY <1>1, <1>2, <1>3 DEF StagedEffect, Effect

LEMMA InsertEffect ==
    ASSUME TypeInv, ThreadInv, EffectInv, NEW s \in Sessions, pc[s] = "work",
           req[s].kind # "workspace.create",
           NEW table, NEW anchor, NEW value, NEW locks,
           table = "crdt_update" => value = req[s].value,
           Insert(s, NewRow(req[s], table, anchor, value), locks)
    PROVE  StagedEffect(s)
<1> DEFINE row == NewRow(req[s], table, anchor, value)
           w == [staged[s] EXCEPT !.id = call[s], !.row = row]
           refs == References(row)
<1>1. row.by = req[s].account /\ row.table = table /\ row.value = value
  BY DEF NewRow
<1>2. Bare(staged[s]) /\ staged[s] \in Staged /\ call[s] \in Ids
  BY DEF EffectInv, TypeInv, TypeOK, Working
<1>3. Stage(s, w, locks \cup refs)
  BY DEF Insert
<1> HIDE DEF row, refs
<1>4. w.id = call[s] /\ w.row = row /\ Bare(w) /\ call[s] # 0
  BY <1>2 DEF Bare, Staged, Ids
<1>5. WritesRow(s, w)
  BY <1>1, <1>4 DEF WritesRow
<1> HIDE DEF w
<1> QED BY <1>3, <1>5, StagedRowEffect

LEMMA WorkspaceEffect ==
    ASSUME TypeInv, ThreadInv, EffectInv, NEW s \in Sessions, CreateWorkspace(s)
    PROVE  Refused(s) \/ StagedEffect(s)
<1> DEFINE r == req[s]
           row == NewRow(r, "workspace", None, r.value)
           w == [staged[s] EXCEPT !.members = {<<r.account, r.ws>>}, !.row = row]
<1>1. CASE \E m \in members : m[2] = r.ws
  BY <1>1 DEF CreateWorkspace, Refused, RefusalCodes
<1>2. CASE \A m \in members : m[2] # r.ws
  <2>1. /\ Grantable(s, {<<"slug", r.ws>>}) /\ Stage(s, w, {<<"slug", r.ws>>})
        /\ pc[s] = "work" /\ r.kind = "workspace.create"
    BY <1>2 DEF CreateWorkspace, At
  <2> HIDE DEF row
  <2>2. Bare(staged[s]) /\ staged[s] \in Staged /\ staged[s].id = 0
    BY <2>1 DEF EffectInv, TypeInv, TypeOK, ThreadInv, Fits
  <2>3. /\ w.id = 0 /\ w.on = {} /\ w.off = {} /\ w.members = {<<r.account, r.ws>>}
    BY <2>2 DEF Bare, Staged
  <2> HIDE DEF w
  <2>4. /\ pc'[s] = "commit" /\ req' = req /\ staged'[s] = w /\ members' = members
        /\ <<"slug", r.ws>> \in held'[s]
    BY <2>1 DEF Stage, TypeInv, TypeOK, tables
  <2>5. WritesMember(s, staged[s])'
    BY <1>2, <2>1, <2>3, <2>4 DEF WritesMember
  <2>6. ASSUME NEW t \in Sessions \ {s}, Founding(t) PROVE r.ws # req[t].ws
    <3>1. <<"slug", req[t].ws>> \in held[t]
      BY <2>6 DEF EffectInv, Founding, Effect, WritesRow, WritesFollow, WritesMember
    <3> QED BY <2>1, <3>1 DEF Grantable, Conflicts
  <2> QED BY <2>4, <2>5, <2>6 DEF StagedEffect, Effect
<1> QED BY <1>1, <1>2

LEMMA FollowEffect ==
    ASSUME TypeInv, ThreadInv, EffectInv, NEW s \in Sessions, SetFollow(s)
    PROVE  StagedEffect(s)
<1> DEFINE r == req[s]
           row == NewRow(r, "follow", r.anchor, r.value)
           f == <<r.ws, r.account, r.anchor>>
           w == [staged[s] EXCEPT !.row = row]
           on == [staged[s] EXCEPT !.row = row, !.on = {f}]
           off == [staged[s] EXCEPT !.row = row, !.off = {f}]
<1>1. /\ pc[s] = "work" /\ r.kind = "follow.set"
      /\ \E locks : \/ Stage(s, w, locks)
                    \/ r.value = "following" /\ Stage(s, on, locks)
                    \/ r.value # "following" /\ Stage(s, off, locks)
  BY DEF SetFollow, At
<1>2. Bare(staged[s]) /\ staged[s] \in Staged /\ staged[s].id = 0
  BY <1>1 DEF EffectInv, TypeInv, TypeOK, ThreadInv, Fits
<1> HIDE DEF row
<1>3. /\ WritesFollow(s, w)
      /\ r.value = "following" => WritesFollow(s, on)
      /\ r.value # "following" => WritesFollow(s, off)
  BY <1>1, <1>2 DEF WritesFollow, Bare, Staged
<1> HIDE DEF w, on, off, f
<1>4. PICK x, locks : Stage(s, x, locks) /\ WritesFollow(s, x)
  BY <1>1, <1>3
<1>5. /\ pc'[s] = "commit" /\ req' = req /\ staged'[s] = x
  BY <1>4 DEF Stage, TypeInv, TypeOK
<1>6. WritesFollow(s, staged[s])' /\ ~ Founding(s)'
  BY <1>1, <1>4, <1>5 DEF WritesFollow, Founding
<1> QED BY <1>5, <1>6 DEF StagedEffect, Effect

LEMMA RevisionEffect ==
    ASSUME TypeInv, ThreadInv, EffectInv, NEW s \in Sessions, pc[s] # "idle",
           pc[s] # "commit", req[s].kind # "workspace.create",
           NEW i \in Ids, rows[i] # None, NEW row, NEW locks,
           row.table = "crdt_update" => row.value = req[s].value,
           Stage(s, [staged[s] EXCEPT !.id = i, !.row = row], locks)
    PROVE  StagedEffect(s)
<1> DEFINE w == [staged[s] EXCEPT !.id = i, !.row = row]
<1>1. Bare(staged[s]) /\ staged[s] \in Staged /\ i # call[s] /\ i # 0
  BY DEF EffectInv, TypeInv, TypeOK, ThreadInv, Fits, Ids
<1>2. w.id = i /\ w.row = row /\ Bare(w)
  BY <1>1 DEF Bare, Staged
<1>3. WritesRow(s, w)
  BY <1>1, <1>2 DEF WritesRow
<1> HIDE DEF w
<1>4. Stage(s, w, locks)
  BY DEF w
<1> QED BY <1>3, <1>4, StagedRowEffect

(* A session between the two statements of attempt.update reads on.        *)
LEMMA StatementEffect ==
    ASSUME TypeInv, ThreadInv, EffectInv, NEW s \in Sessions, Statement(s)
    PROVE  \/ Refused(s) \/ StagedEffect(s)
           \/ pc'[s] = "update" /\ staged'[s] = staged[s] /\ req'[s] = req[s]
<1> DEFINE r == req[s]
<1> USE DEF Refused, RefusalCodes
<1>1. CASE CreateWorkspace(s) \/ SetFollow(s)
  BY <1>1, WorkspaceEffect, FollowEffect
<1>2. CASE CreateApproach(s)
  BY <1>2, InsertEffect DEF CreateApproach, At
<1>3. CASE ForkApproach(s)
  BY <1>3, InsertEffect DEF ForkApproach, At
<1>4. CASE CreateAttempt(s)
  BY <1>4, InsertEffect DEF CreateAttempt, At
<1>5. CASE ReadAttempt(s)
  BY <1>5 DEF ReadAttempt, TypeInv, TypeOK
<1>6. CASE UpdateAttempt(s)
  <2> DEFINE old == rows[r.attempt]
             row == [old EXCEPT !.value = r.value, !.version = @ + 1]
  <2>1. /\ pc[s] = "update" /\ r.kind = "attempt.update" /\ r.attempt \in Ids
        /\ old # None /\ old.table = "attempt"
    BY <1>6 DEF UpdateAttempt, ThreadInv, Fits, Reading, Present, TypeInv, Working
  <2>2. old \in Row
    BY <2>1 DEF TypeInv, TypeOK
  <2>3. row.table # "crdt_update"
    BY <2>1, <2>2 DEF Row
  <2>4. \/ Refuse(s, "VACAS")
        \/ \E locks : Stage(s, [staged[s] EXCEPT !.id = r.attempt, !.row = row], locks)
    BY <1>6 DEF UpdateAttempt
  <2> HIDE DEF row
  <2> QED BY <2>1, <2>3, <2>4, RevisionEffect
<1>7. CASE AddDiscussion(s)
  BY <1>7, InsertEffect DEF AddDiscussion, AnchorTargets, At
<1>8. CASE AttachArtifact(s)
  BY <1>8, InsertEffect DEF AttachArtifact, AnchorTargets, At
<1>9. CASE SaveDraft(s)
  <2> DEFINE old == rows[r.draft]
             row == [old EXCEPT !.anchor = r.anchor, !.value = r.value, !.version = @ + 1]
  <2>1. /\ pc[s] = "work" /\ r.kind = "submission_draft.save" /\ r \in Requests
    BY <1>9, WorkingRequest DEF SaveDraft, At, TypeInv, Working
  <2>2. CASE r.draft = 0
    BY <1>9, <2>1, <2>2, InsertEffect DEF SaveDraft
  <2>3. CASE r.draft # 0 /\ Revisable(r)
    <3>1. r.draft \in Ids /\ old # None /\ old.table = "submission_draft"
      BY <2>1, <2>3, RequestFields DEF Revisable, Present
    <3>2. old \in Row
      BY <3>1 DEF TypeInv, TypeOK
    <3>3. row.table # "crdt_update"
      BY <3>1, <3>2 DEF Row
    <3>4. \E locks : Stage(s, [staged[s] EXCEPT !.id = r.draft, !.row = row], locks)
      BY <1>9, <2>3 DEF SaveDraft
    <3> HIDE DEF row
    <3> QED BY <2>1, <3>1, <3>3, <3>4, RevisionEffect
  <2> QED BY <1>9, <2>2, <2>3 DEF SaveDraft
<1>10. CASE AppendUpdate(s)
  <2>1. pc[s] = "work" /\ r.kind = "crdt_update.append"
    BY <1>10 DEF AppendUpdate, At
  <2>2. CASE SameContent("crdt_update", r) = {}
    BY <1>10, <2>1, <2>2, InsertEffect DEF AppendUpdate
  <2>3. CASE SameContent("crdt_update", r) # {}
    <3>1. PICK i, locks :
            /\ i \in SameContent("crdt_update", r)
            /\ Stage(s, [staged[s] EXCEPT !.id = i, !.row = rows[i]], locks)
      BY <1>10, <2>3 DEF AppendUpdate
    <3>2. i \in Ids /\ rows[i] # None /\ rows[i].value = r.value
      BY <3>1 DEF SameContent, OnThread, Present
    <3> QED BY <2>1, <3>1, <3>2, RevisionEffect
  <2> QED BY <2>2, <2>3
<1> QED BY <1>1, <1>2, <1>3, <1>4, <1>5, <1>6, <1>7, <1>8, <1>9, <1>10 DEF Statement

-----------------------------------------------------------------------------
(* A step that leaves the members alone and changes at most one session.   *)
LEMMA OneSessionKeeps ==
    ASSUME TypeInv, EffectInv, NEW s \in Sessions, OthersStay(s), members' = members,
           pc'[s] \in Inside => Authorised(req[s])',
           pc'[s] # "commit" => Bare(staged'[s]),
           pc'[s] = "commit" => Effect(s)',
           \A t \in Sessions \ {s} : Founding(s)' /\ Founding(t) => req'[s].ws # req[t].ws
    PROVE  EffectInv'
<1>1. \A t \in Sessions \ {s} :
        /\ pc'[t] = pc[t] /\ req'[t] = req[t] /\ call'[t] = call[t]
        /\ held'[t] = held[t] /\ staged'[t] = staged[t]
  BY DEF OthersStay
<1>2. ASSUME NEW t \in Sessions, pc'[t] \in Inside PROVE Authorised(req[t])'
  BY <1>1, <1>2 DEF EffectInv, Authorised
<1>3. ASSUME NEW t \in Sessions, pc'[t] # "commit" PROVE Bare(staged[t])'
  BY <1>1, <1>3 DEF EffectInv, Bare
<1>4. ASSUME NEW t \in Sessions, pc'[t] = "commit" PROVE Effect(t)'
  <2>1. CASE t # s
    <3>1. Effect(t)
      BY <1>1, <1>4, <2>1 DEF EffectInv
    <3>2. WritesRow(t, staged[t]) => WritesRow(t, staged[t])'
      BY <1>1, <2>1 DEF WritesRow, Bare
    <3>3. WritesFollow(t, staged[t]) => WritesFollow(t, staged[t])'
      BY <1>1, <2>1 DEF WritesFollow
    <3>4. WritesMember(t, staged[t]) => WritesMember(t, staged[t])'
      BY <1>1, <2>1 DEF WritesMember
    <3> QED BY <3>1, <3>2, <3>3, <3>4 DEF Effect
  <2> QED BY <1>4, <2>1
<1>5. \A t, u \in Sessions :
        t # u /\ Founding(t)' /\ Founding(u)' => req'[t].ws # req'[u].ws
  BY <1>1 DEF EffectInv, Founding
<1> QED BY <1>2, <1>3, <1>4, <1>5 DEF EffectInv

LEMMA LeaveKeepsEffects ==
    ASSUME TypeInv, EffectInv, NEW s \in Sessions, EndTransaction(s), members' = members
    PROVE  EffectInv'
<1>1. pc'[s] = "idle" /\ staged'[s] = NothingStaged /\ OthersStay(s)
  BY DEF EndTransaction, TypeInv, TypeOK, OthersStay
<1> QED BY <1>1, OneSessionKeeps DEF NothingStaged, Bare, Inside, Founding

LEMMA CommitKeepsEffects ==
    ASSUME TypeInv, EffectInv, NEW s \in Sessions, Commits(s)
    PROVE  EffectInv'
<1>1. pc'[s] = "idle" /\ staged'[s] = NothingStaged /\ OthersStay(s)
  BY DEF Commits, EndTransaction, TypeInv, TypeOK, OthersStay
<1>2. members' = members \cup staged[s].members /\ Effect(s) /\ pc[s] = "commit"
  BY DEF Commits, Install, EffectInv
<1>3. \A t \in Sessions \ {s} :
        /\ pc'[t] = pc[t] /\ req'[t] = req[t] /\ call'[t] = call[t]
        /\ held'[t] = held[t] /\ staged'[t] = staged[t]
  BY <1>1 DEF OthersStay
<1>4. ASSUME NEW t \in Sessions, pc'[t] \in Inside PROVE Authorised(req[t])'
  BY <1>1, <1>2, <1>3, <1>4 DEF EffectInv, Authorised, Inside
<1>5. ASSUME NEW t \in Sessions, pc'[t] # "commit" PROVE Bare(staged[t])'
  BY <1>1, <1>3, <1>5 DEF EffectInv, Bare, NothingStaged
<1>6. ASSUME NEW t \in Sessions, pc'[t] = "commit" PROVE Effect(t)'
  <2>1. t # s /\ Effect(t) /\ pc[t] = "commit"
    BY <1>1, <1>3, <1>6 DEF EffectInv
  <2>2. WritesRow(t, staged[t]) => WritesRow(t, staged[t])'
    BY <1>3, <2>1 DEF WritesRow, Bare
  <2>3. WritesFollow(t, staged[t]) => WritesFollow(t, staged[t])'
    BY <1>3, <2>1 DEF WritesFollow
  <2>4. ASSUME WritesMember(t, staged[t]) PROVE WritesMember(t, staged[t])'
    <3>1. \A m \in staged[s].members : m[2] # req[t].ws
      <4>1. CASE WritesMember(s, staged[s])
        <5>1. Founding(s) /\ Founding(t)
          BY <1>2, <2>1, <2>4, <4>1 DEF Founding, WritesMember
        <5>2. req[s].ws # req[t].ws
          BY <2>1, <5>1 DEF EffectInv
        <5> QED BY <4>1, <5>2 DEF WritesMember
      <4>2. CASE WritesRow(s, staged[s]) \/ WritesFollow(s, staged[s])
        BY <4>2 DEF WritesRow, WritesFollow, Bare
      <4> QED BY <1>2, <4>1, <4>2 DEF Effect
    <3> QED BY <1>2, <1>3, <2>1, <2>4, <3>1 DEF WritesMember
  <2> QED BY <2>1, <2>2, <2>3, <2>4 DEF Effect
<1>7. \A t, u \in Sessions :
        t # u /\ Founding(t)' /\ Founding(u)' => req'[t].ws # req'[u].ws
  BY <1>1, <1>3 DEF EffectInv, Founding
<1> QED BY <1>4, <1>5, <1>6, <1>7 DEF EffectInv

LEMMA EffectInit == ASSUME Init PROVE EffectInv
BY DEF Init, EffectInv, Inside, Bare, NothingStaged, Founding

(* Steps before the statement.                                             *)
LEMMA EntryKeepsEffects ==
    ASSUME TypeInv, EffectInv, NEW s \in Sessions,
           \/ Call(s) \/ (Authorised(req[s]) /\ pc[s] = "enter" /\ LockKey(s))
           \/ Fresh(s) \/ EnsureAnchor(s)
    PROVE  EffectInv'
<1>1. /\ OthersStay(s) /\ members' = members
      /\ pc'[s] \in {"enter", "prior", "anchor", "work"}
      /\ pc[s] \in {"idle", "enter", "prior", "anchor"}
      /\ pc'[s] = "enter" \/ (req'[s] = req[s] /\ Authorised(req[s]))
  BY DEF Call, LockKey, KeyLock, Fresh, EnsureAnchor, OthersStay, TypeInv, TypeOK,
         tables, EffectInv, Inside
<1>2. Bare(staged'[s])
  <2>1. Bare(staged[s]) /\ staged[s] \in Staged
    BY <1>1 DEF EffectInv, TypeInv, TypeOK
  <2>2. \/ staged' = staged
        \/ \E a : staged' = [staged EXCEPT ![s].anchors = a]
    BY DEF Call, LockKey, Fresh, EnsureAnchor
  <2> QED BY <2>1, <2>2 DEF TypeInv, TypeOK, Bare, Staged
<1>3. pc'[s] \in Inside => Authorised(req[s])'
  BY <1>1 DEF Inside, Authorised
<1> QED BY <1>1, <1>2, <1>3, OneSessionKeeps DEF Founding

LEMMA StatementKeepsEffects ==
    ASSUME TypeInv, ThreadInv, EffectInv, NEW s \in Sessions, Statement(s)
    PROVE  EffectInv'
<1>1. pc[s] \in {"work", "update"} /\ Authorised(req[s]) /\ Bare(staged[s])
  BY StatementShape DEF EffectInv, Inside
<1>2. CASE Refused(s)
  BY <1>2, LeaveKeepsEffects DEF Refused, Refuse, tables
<1>3. CASE ~ Refused(s)
  <2>1. OthersStay(s) /\ members' = members /\ req' = req
    BY <1>3, StatementShape
       DEF StagedARow, ReadOn, Stage, tables, OthersStay, TypeInv, TypeOK
  <2>2. CASE StagedEffect(s)
    BY <1>1, <2>1, <2>2, OneSessionKeeps DEF StagedEffect, Authorised
  <2>3. CASE pc'[s] = "update" /\ staged'[s] = staged[s] /\ req'[s] = req[s]
    BY <1>1, <2>1, <2>3, OneSessionKeeps DEF Authorised, Founding
  <2> QED BY <1>3, <2>2, <2>3, StatementEffect
<1> QED BY <1>2, <1>3

LEMMA EffectStep == TypeInv /\ ThreadInv /\ EffectInv /\ [Next]_vars => EffectInv'
<1> SUFFICES ASSUME TypeInv, ThreadInv, EffectInv, [Next]_vars
             PROVE  EffectInv'
  OBVIOUS
<1>1. ASSUME NEW s \in Sessions, Call(s) \/ Fresh(s) \/ EnsureAnchor(s) PROVE EffectInv'
  BY <1>1, EntryKeepsEffects
<1>2. ASSUME NEW s \in Sessions, Enter(s) PROVE EffectInv'
  BY <1>2, EntryKeepsEffects, LeaveKeepsEffects DEF Enter, Refuse, tables
<1>3. ASSUME NEW s \in Sessions, Replay(s) \/ KeyReused(s) \/ Crash(s)
      PROVE  EffectInv'
  BY <1>3, LeaveKeepsEffects DEF Replay, KeyReused, Crash, Refuse, tables
<1>4. ASSUME NEW s \in Sessions, Statement(s) PROVE EffectInv'
  BY <1>4, StatementKeepsEffects
<1>5. ASSUME NEW s \in Sessions, Commit(s) PROVE EffectInv'
  BY <1>5, CommitKeepsEffects, LeaveKeepsEffects DEF Commit, Commits, Refuse, tables
<1>6. CASE UNCHANGED vars
  <2>1. UNCHANGED <<members, pc, req, call, held, staged>>
    BY <1>6 DEF vars
  <2> QED BY <2>1 DEF EffectInv, Authorised, Bare, Effect, WritesRow, WritesFollow,
                      WritesMember, Founding
<1> QED BY <1>1, <1>2, <1>3, <1>4, <1>5, <1>6 DEF Next, Progress

-----------------------------------------------------------------------------
(* The refinement: a commit is one atomic command, every other step none.  *)
LEMMA CommitIsAtomic ==
    ASSUME TypeInv, ThreadInv, KeyInv, EffectInv, NEW s \in Sessions, Commits(s)
    PROVE  Atomic!Next
<1> DEFINE r == req[s]
           w == staged[s]
           k == KeyOf(r)
           root == RequestRoot(r)
           new == idem'[k]
<1>1. /\ r \in Requests /\ k \in Accounts \X Keys /\ k[1] = r.account
      /\ idem[k] = None /\ w.row \in Row /\ idem \in [Accounts \X Keys -> Records \cup {None}]
      /\ rows \in [Ids -> Row \cup {None}] /\ rows[call[s]] = None
  BY RequestFields DEF Commits, TypeInv, TypeOK, Working, KeyInv, StillFresh, Inside,
     ThreadInv, Fits, KeyOf
<1>2. /\ w.row.ws = r.ws /\ RowChange(s, w) /\ Effect(s) /\ Authorised(r)
  BY CommitRows DEF Commits, ThreadInv, Fits, Binds, EffectInv, Inside
<1>3. /\ members' = members \cup w.members
      /\ follows' = (follows \ w.off) \cup w.on
      /\ idem' = [idem EXCEPT ![k] = [ws |-> r.ws, root |-> root, id |-> w.id, row |-> w.row]]
  BY DEF Commits, Install, Remember, IdemRecord
<1>4. /\ new.root = root /\ new.row = w.row
  BY <1>1, <1>3
<1>5. root.kind = r.kind /\ root.anchor = r.anchor /\ root.value = r.value
      /\ root.expected = r.expected
  BY DEF RequestRoot
<1>6. new # idem[k]
  <2>1. IdemRecord(s) \in Records
    BY <1>1, RequestFields DEF IdemRecord, Records, Commits, TypeInv, TypeOK, Working,
                               Staged
  <2> QED BY <1>1, <1>3, <2>1, NoneAssumption DEF IdemRecord
<1>7. Atomic!Record(k, root, w.id, w.row)
  BY <1>1, <1>2, <1>3 DEF Atomic!Record
<1> HIDE DEF k, root, w, new
<1>8. SUFFICES \/ \E id \in Ids : \/ Atomic!Create(k, root, id, w.row)
                                  \/ Atomic!Advance(k, root, id, w.row)
                                  \/ Atomic!Find(k, root, id, w.row)
               \/ Atomic!SetFollow(k, root, w.row)
               \/ Atomic!Found(k, root, w.row)
  <2>1. k \in Accounts \X Keys /\ new # idem[k] /\ new = idem'[k]
    BY <1>1, <1>6 DEF new
  <2> QED BY <1>4, <1>8, <2>1 DEF Atomic!Next
<1>9. CASE WritesRow(s, w)
  <2>1. <<k[1], w.row.ws>> \in members /\ UNCHANGED <<members, follows>>
    BY <1>1, <1>2, <1>3, <1>9 DEF WritesRow, Bare, Authorised
  <2>2. CASE Returns(w) /\ rows' = rows
    <3>1. w.id \in Ids /\ rows[w.id] = w.row /\ w.row.table = "crdt_update"
          /\ w.row.value = root.value
      BY <1>5, <1>9, <2>2 DEF Returns, WritesRow
    <3> QED BY <1>7, <2>1, <2>2, <3>1 DEF Atomic!Find
  <2>3. CASE /\ Adds(s, w) /\ w.id \in Ids /\ rows[w.id] = None
             /\ rows' = [rows EXCEPT ![w.id] = w.row]
    <3>1. w.row.version = 1 /\ w.row.by = k[1]
      BY <1>1, <1>9, <2>3 DEF Adds, WritesRow
    <3> QED BY <1>7, <2>1, <2>3, <3>1 DEF Atomic!Create
  <2>4. CASE /\ Revises(s, w, held[s])
             /\ rows' = [rows EXCEPT ![w.id] = w.row]
    <3> DEFINE old == rows[w.id]
               row == w.row
    <3>1. /\ w.id \in Ids /\ old # None /\ old.table \in {"attempt", "submission_draft"}
          /\ old.version = root.expected
          /\ row = [old EXCEPT !.anchor = row.anchor, !.value = root.value,
                               !.version = @ + 1]
          /\ old.table = "attempt" =>
               row.anchor = old.anchor /\ LegalMove(old.value, root.value)
      BY <1>5, <2>4 DEF Revises
    <3>2. old \in Row
      BY <1>1, <3>1
    <3>3. row = [old EXCEPT !.version = @ + 1, !.value = root.value,
                            !.anchor = row.anchor]
      BY <3>1, <3>2 DEF Row
    <3>4. row.value = root.value
      BY <3>2, <3>3 DEF Row
    <3>5. old.table = "attempt" =>
            /\ row.anchor = old.anchor
            /\ old.value = row.value \/ <<old.value, row.value>> \in Lifecycle
      BY <3>1, <3>4 DEF LegalMove
    <3> HIDE DEF old
    <3>6. Atomic!Advance(k, root, w.id, row)
      BY <1>7, <2>1, <2>4, <3>1, <3>3, <3>5 DEF Atomic!Advance, Atomic!Mutable, old
    <3> QED BY <3>1, <3>6
  <2> QED BY <1>2, <1>9, <2>2, <2>3, <2>4 DEF RowChange, WritesRow
<1>10. CASE WritesFollow(s, w)
  <2>1. /\ rows' = rows /\ members' = members /\ w.id = 0
        /\ <<k[1], w.row.ws>> \in members
    BY <1>1, <1>2, <1>3, <1>10 DEF RowChange, WritesFollow, Authorised, Returns, Adds,
                                   Revises, Ids
  <2> DEFINE f == <<w.row.ws, k[1], root.anchor>>
  <2>2. \/ follows' = IF root.value = "following"
                      THEN follows \cup {f} ELSE follows \ {f}
        \/ follows' = follows
    BY <1>1, <1>2, <1>3, <1>5, <1>10 DEF WritesFollow
  <2>3. root.kind = "follow.set"
    BY <1>5, <1>10 DEF WritesFollow
  <2>4. Atomic!SetFollow(k, root, w.row)
    BY <1>7, <2>1, <2>2, <2>3 DEF Atomic!SetFollow
  <2> QED BY <2>4
<1>11. CASE WritesMember(s, w)
  <2>1. rows' = rows /\ follows' = follows /\ w.id = 0
    BY <1>1, <1>2, <1>3, <1>11 DEF RowChange, WritesMember, Returns, Adds, Revises, Ids
  <2>2. /\ members' = members \cup {<<k[1], w.row.ws>>}
        /\ root.kind = "workspace.create"
        /\ \A m \in members : m[2] # w.row.ws
    BY <1>1, <1>2, <1>3, <1>5, <1>11 DEF WritesMember
  <2>3. Atomic!Found(k, root, w.row)
    BY <1>7, <2>1, <2>2 DEF Atomic!Found
  <2> QED BY <2>3
<1> QED BY <1>2, <1>9, <1>10, <1>11 DEF Effect, w

LEMMA AtomicStep ==
    TypeInv /\ ThreadInv /\ KeyInv /\ EffectInv /\ [Next]_vars =>
      [Atomic!Next]_(Atomic!vars)
<1> SUFFICES ASSUME TypeInv, ThreadInv, KeyInv, EffectInv, [Next]_vars
             PROVE  [Atomic!Next]_(Atomic!vars)
  OBVIOUS
<1> USE DEF Atomic!vars
<1>1. ASSUME NEW s \in Sessions, Commit(s) PROVE [Atomic!Next]_(Atomic!vars)
  BY <1>1, CommitIsAtomic DEF Commit, Commits, Refuse, tables
<1>2. ASSUME NEW s \in Sessions, Statement(s) PROVE [Atomic!Next]_(Atomic!vars)
  BY <1>2, StatementShape DEF Refused, Refuse, StagedARow, Stage, ReadOn, tables
<1>3. ASSUME NEW s \in Sessions,
             \/ Call(s) \/ Enter(s) \/ Replay(s) \/ KeyReused(s) \/ Fresh(s)
             \/ EnsureAnchor(s) \/ Crash(s)
      PROVE  [Atomic!Next]_(Atomic!vars)
  BY <1>3 DEF Call, Enter, LockKey, Replay, KeyReused, Fresh, EnsureAnchor, Crash,
              Refuse, tables
<1>4. CASE UNCHANGED vars
  BY <1>4 DEF vars
<1> QED BY <1>1, <1>2, <1>3, <1>4 DEF Next, Progress

(* The interleaved statements of concurrent transactions, refused, retried *)
(* and cut off anywhere, amount to commands applied one at a time, each at *)
(* most once and completely.                                               *)
THEOREM CommandsAtomic == Spec => ImplementsAtomic
<1>1. Init => Atomic!Init
  BY DEF Init, Atomic!Init
<1>2. Spec => []EffectInv
  BY EffectInit, EffectStep, Typed, Threaded, PTL DEF Spec
<1>3. Spec => [](TypeInv /\ ThreadInv /\ KeyInv /\ EffectInv)
  BY <1>2, Typed, Threaded, Keyed, PTL
<1> QED BY <1>1, <1>3, AtomicStep, PTL DEF Spec, ImplementsAtomic, Atomic!Spec
=============================================================================
