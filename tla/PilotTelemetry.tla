--------------------------- MODULE PilotTelemetry ---------------------------
(***************************************************************************)
(* Pilot telemetry (packages/activity-data, pilot-telemetry.sql, and the   *)
(* /api/telemetry route): opted-in clients send records and send them      *)
(* again until they are answered; the database stores each under the       *)
(* client's own identifier, admits a bounded number and forgets what is    *)
(* old.  A call is one READ COMMITTED transaction of several statements,   *)
(* and now() is the time at which it began.  Its deletions and its row are *)
(* the others' only when it commits; a refusal takes the deletions back.   *)
(*                                                                         *)
(* A record stands for its signal and duration with body.                  *)
(***************************************************************************)
EXTENDS Naturals, FiniteSets

CONSTANTS
    Installs, RecordIds, Bodies,
    Records,     \* the records clients send
    Sessions,    \* database sessions
    Past,        \* age a record may have when it is sent; 30 days in the code
    Future,      \* how far ahead of the database a client's clock may be; 1 day
    Retention,   \* age at which a stored record is forgotten; 90 days
    Hour,        \* the period of the ceiling
    Ceiling,     \* records admitted in that period
    Budget,      \* records stored for one install
    Lag,         \* ticks an open transaction may last
    MaxClock,    \* bound: ticks
    MaxCalls,    \* bound: calls
    None

(* What makes a late retry harmless: it falls out of the accepted window   *)
(* before its first copy can be forgotten.  And what the ceiling counts is *)
(* not old enough to be deleted.                                           *)
ASSUME TimesAssumption ==
    /\ {Past, Future, Retention, Hour, Lag, MaxClock, MaxCalls} \subseteq Nat
    /\ Retention >= Past + Future + Lag
    /\ Retention >= Hour

ASSUME CeilingAssumption == Ceiling \in Nat \ {0} /\ IsFiniteSet(Sessions)

Record == [install : Installs, id : RecordIds, body : Bodies, occurred : Nat]

ASSUME RecordsAssumption == Records \subseteq Record

VARIABLES
    clock,
    rows,    \* pilot_telemetry: [record, received]
    calls,   \* calls made so far
    pc,      \* where each session's transaction is
    sent,    \* the record it stores
    began,   \* its now()
    number,  \* its call number
    doomed,  \* rows it has deleted and not yet committed
    log,     \* history: [record, call] of every row ever committed
    reused   \* history: records refused because their identifier was reused

session == <<pc, sent, began, number, doomed>>
vars    == <<clock, rows, calls, pc, sent, began, number, doomed, log, reused>>

Stages == {"idle", "expire", "admit", "insert", "match", "commit", "same"}

SameKey(r, q) == r.install = q.install /\ r.id = q.id

-----------------------------------------------------------------------------
Goto(s, stage) == pc' = [pc EXCEPT ![s] = stage]

End(s) ==
    /\ pc'     = [pc EXCEPT ![s] = "idle"]
    /\ sent'   = [sent EXCEPT ![s] = None]
    /\ began'  = [began EXCEPT ![s] = 0]
    /\ number' = [number EXCEPT ![s] = 0]
    /\ doomed' = [doomed EXCEPT ![s] = {}]

Refuse(s) == End(s) /\ UNCHANGED <<clock, rows, calls, log, reused>>

Tick ==
    /\ clock < MaxClock
    /\ \A s \in Sessions : pc[s] # "idle" => clock < began[s] + Lag
    /\ clock' = clock + 1
    /\ UNCHANGED <<rows, calls, session, log, reused>>

(* Faulty variant of InWindow: a record may be of any age.                 *)
NotAhead(r, now) == r.occurred <= now + Future

InWindow(r, now) == r.occurred + Past >= now /\ r.occurred <= now + Future

(* A client sends a record, new or once more; the checks on the record     *)
(* alone read no table.                                                    *)
Send(s) ==
    /\ pc[s] = "idle"
    /\ calls < MaxCalls
    /\ \E r \in Records :
         /\ InWindow(r, clock)
         /\ sent' = [sent EXCEPT ![s] = r]
    /\ calls'  = calls + 1
    /\ number' = [number EXCEPT ![s] = calls + 1]
    /\ began'  = [began EXCEPT ![s] = clock]
    /\ Goto(s, "expire")
    /\ UNCHANGED <<clock, rows, doomed, log, reused>>

(* DELETE of what is older than the retention.  It waits for a transaction *)
(* that is deleting some of the same rows, and deletes them if that one    *)
(* did not.  The faulty OldOfInstall deletes the sender's own rows only.   *)
OldOfInstall(s) ==
    {r \in rows : r.received + Retention < began[s]
                  /\ r.record.install = sent[s].install}

Old(s) == {r \in rows : r.received + Retention < began[s]}

Expire(s) ==
    /\ pc[s] = "expire"
    /\ \A t \in Sessions \ {s} : doomed[t] \cap Old(s) = {}
    /\ doomed' = [doomed EXCEPT ![s] = Old(s)]
    /\ Goto(s, "admit")
    /\ UNCHANGED <<clock, rows, calls, sent, began, number, log, reused>>

(* The ceiling over everybody, then the budget of this install, both       *)
(* counted in what is committed.                                           *)
Recent(s) == {r \in rows \ doomed[s] : r.received + Hour > began[s]}

OfInstall(s) == {r \in rows \ doomed[s] : r.record.install = sent[s].install}

(* Faulty variant of Admissible: the ceiling is compared per install.      *)
AdmissiblePerInstall(s) ==
    /\ Cardinality(Recent(s) \cap OfInstall(s)) < Ceiling
    /\ Cardinality(OfInstall(s)) < Budget

Admissible(s) ==
    /\ Cardinality(Recent(s)) < Ceiling
    /\ Cardinality(OfInstall(s)) < Budget

Admit(s) ==
    /\ pc[s] = "admit"
    /\ IF Admissible(s)
       THEN /\ Goto(s, "insert")
            /\ UNCHANGED <<clock, rows, calls, sent, began, number, doomed, log, reused>>
       ELSE Refuse(s)

(* INSERT ... ON CONFLICT DO NOTHING.  It waits for a transaction that is  *)
(* inserting or deleting a row with the same identifier.                   *)
Undecided(s) ==
    \E t \in Sessions \ {s} :
      \/ pc[t] = "commit" /\ SameKey(sent[t], sent[s])
      \/ \E r \in doomed[t] : SameKey(r.record, sent[s])

Stored(s) == {r \in rows \ doomed[s] : SameKey(r.record, sent[s])}

Insert(s) ==
    /\ pc[s] = "insert"
    /\ ~Undecided(s)
    /\ Goto(s, IF Stored(s) = {} THEN "commit" ELSE "match")
    /\ UNCHANGED <<clock, rows, calls, sent, began, number, doomed, log, reused>>

(* The identifier is taken: by the same record, or the call is refused.    *)
Match(s) ==
    /\ pc[s] = "match"
    /\ IF \E r \in Stored(s) : r.record = sent[s]
       THEN /\ Goto(s, "same")
            /\ UNCHANGED <<clock, rows, calls, sent, began, number, doomed, log, reused>>
       ELSE /\ reused' = reused \cup {sent[s]}
            /\ End(s)
            /\ UNCHANGED <<clock, rows, calls, log>>

(* Faulty variant of Row: it is dated by the client's clock.               *)
RowByClient(s) == [record |-> sent[s], received |-> sent[s].occurred]

Row(s) == [record |-> sent[s], received |-> began[s]]

CommitRow(s) ==
    /\ pc[s] = "commit"
    /\ rows' = (rows \ doomed[s]) \cup {Row(s)}
    /\ log'  = log \cup {[record |-> sent[s], call |-> number[s]]}
    /\ End(s)
    /\ UNCHANGED <<clock, calls, reused>>

CommitDuplicate(s) ==
    /\ pc[s] = "same"
    /\ rows' = rows \ doomed[s]
    /\ End(s)
    /\ UNCHANGED <<clock, calls, log, reused>>

Lose(s) == pc[s] # "idle" /\ Refuse(s)

Init ==
    /\ clock  = 0
    /\ rows   = {}
    /\ calls  = 0
    /\ pc     = [s \in Sessions |-> "idle"]
    /\ sent   = [s \in Sessions |-> None]
    /\ began  = [s \in Sessions |-> 0]
    /\ number = [s \in Sessions |-> 0]
    /\ doomed = [s \in Sessions |-> {}]
    /\ log    = {}
    /\ reused = {}

Next ==
    \/ Tick
    \/ \E s \in Sessions :
         \/ Send(s)
         \/ Expire(s)
         \/ Admit(s)
         \/ Insert(s)
         \/ Match(s)
         \/ CommitRow(s)
         \/ CommitDuplicate(s)
         \/ Lose(s)

Spec == Init /\ [][Next]_vars

-----------------------------------------------------------------------------
(* Properties.                                                             *)

Rows == [record : Records, received : 0 .. MaxClock]

(* Every stored row and session variable is of its type, and no row is     *)
(* dated after the present.                                                *)
TypeOK ==
    /\ clock \in 0 .. MaxClock
    /\ rows \subseteq Rows
    /\ \A r \in rows : r.received <= clock
    /\ calls \in 0 .. MaxCalls
    /\ pc \in [Sessions -> Stages]
    /\ sent \in [Sessions -> Records \cup {None}]
    /\ began \in [Sessions -> 0 .. MaxClock]
    /\ number \in [Sessions -> 0 .. MaxCalls]
    /\ doomed \in [Sessions -> SUBSET Rows]

(* However often a client repeats a record, and although the first copy is *)
(* forgotten in the end, it is stored once, ever; and nobody is told that  *)
(* an identifier was reused unless something else was stored under it.     *)
RetriesHarmless ==
    /\ \A e, f \in log : e.record = f.record => e = f
    /\ \A r \in reused : \E e \in log : SameKey(e.record, r) /\ e.record # r

(* pilot-telemetry.sql:11-12: every accepted record removes the rows that  *)
(* are older than the retention, also when another call removes them too   *)
(* and is then refused or lost.                                            *)
RetentionHeld ==
    [][\A s \in Sessions :
         pc[s] = "commit" /\ log' # log /\ number'[s] # number[s] =>
           \A r \in rows' : r.received + Retention >= began[s]]_vars

(* The ceiling is counted before the row is inserted, so calls that run    *)
(* together pass it together, by at most one row for each other session.   *)
CeilingHeld ==
    Cardinality({r \in rows : r.received + Hour > clock})
      <= Ceiling + Cardinality(Sessions) - 1
=============================================================================
