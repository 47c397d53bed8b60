------------------------ MODULE AccountServicesProofs ------------------------
(***************************************************************************)
(* What the services of an account promise, for every value of their       *)
(* constants.  Profiles and actions are proved about in modules of their   *)
(* own, and their steps recognised here among those of the model that      *)
(* holds all three services; telemetry is proved about here.               *)
(*                                                                         *)
(* A record is stored once because at any moment after its first copy was  *)
(* stored either that copy is there, or the clock is past the last moment  *)
(* at which a call about the record may still be open; and because no two  *)
(* calls about to commit have the same identifier.  The ceiling is passed  *)
(* by at most the calls that were counted before the others inserted, so   *)
(* the rows counted and the calls admitted are bounded together.           *)
(***************************************************************************)
EXTENDS MCAccountServices, FiniteSetTheorems, TLAPS

-----------------------------------------------------------------------------
(* Telemetry, whose rows are counted and forgotten.                        *)

(* A call lasts at most Lag, and its record was in the window as it began. *)
InTime(s) ==
    pc[s] # "idle" =>
      /\ sent[s] \in Records /\ InWindow(sent[s], began[s])
      /\ began[s] <= clock /\ clock <= began[s] + Lag

(* A row is logged, and its record was not further ahead than allowed.     *)
RowsLogged ==
    /\ log \subseteq [record : Records, call : 0 .. MaxCalls]
    /\ \A r \in rows :
         /\ r.record.occurred <= r.received + Future
         /\ \E e \in log : e.record = r.record

(* What was ever stored is there, or too old for any call to be about it.  *)
Kept ==
    \A e \in log :
      \/ \E r \in rows : r.record = e.record
      \/ e.record.occurred + Past + Lag < clock

(* A call deletes what is old at its time, and from its deletion on leaves *)
(* nothing of that age.                                                    *)
Deleting(s) ==
    /\ pc[s] \in {"idle", "expire"} => doomed[s] = {}
    /\ \A r \in doomed[s] : r.received + Retention < began[s]
    /\ pc[s] \notin {"idle", "expire"} =>
         \A r \in rows : r.received + Retention < began[s] => r \in doomed[s]

(* A call that will commit a row is the only one with its identifier, and  *)
(* its record was never stored; one that found a row has met its record's  *)
(* identifier in the log.                                                  *)
Inserting(s) ==
    /\ pc[s] = "commit" =>
         /\ \A e \in log : e.record # sent[s]
         /\ \A t \in Sessions \ {s} :
              pc[t] = "commit" => ~SameKey(sent[t], sent[s])
    /\ pc[s] = "match" => \E e \in log : SameKey(e.record, sent[s])

Recently == {r \in rows : r.received + Hour > clock}
Admitted == {s \in Sessions : pc[s] \in {"insert", "match", "same", "commit"}}

Bounded ==
    /\ IsFiniteSet(rows)
    /\ Cardinality(Recently) + Cardinality(Admitted)
         <= Ceiling + Cardinality(Sessions) - 1

TelemetryInv ==
    /\ TypeOK
    /\ RowsLogged
    /\ Kept
    /\ \A s \in Sessions : InTime(s) /\ Deleting(s) /\ Inserting(s)
    /\ RetriesHarmless

-----------------------------------------------------------------------------
LEMMA Times ==
    /\ Past \in Nat /\ Future \in Nat /\ Retention \in Nat /\ Hour \in Nat
    /\ Lag \in Nat /\ MaxClock \in Nat /\ MaxCalls \in Nat
    /\ Retention >= Past + Future + Lag /\ Retention >= Hour
BY TimesAssumption

LEMMA Occurrence == ASSUME NEW r \in Records PROVE r \in Record /\ r.occurred \in Nat
BY RecordsAssumption DEF Record

LEMMA Received == ASSUME NEW r \in Rows PROVE r.record \in Records /\ r.received \in 0 .. MaxClock
BY DEF Rows

(* The row of a record that a call is about is never old to that call.     *)
LEMMA NotYetOld ==
    ASSUME TelemetryInv, NEW s \in Sessions, pc[s] # "idle",
           NEW r \in rows, r.record = sent[s]
    PROVE  /\ r \notin doomed[s]
           /\ \A t \in Sessions : r \notin doomed[t]
<1>1. r \in Rows /\ r.record \in Records /\ r.received \in Nat /\ r.record.occurred \in Nat
  BY Received, Occurrence, Times DEF TelemetryInv, TypeOK
<1>2. /\ r.record.occurred + Past >= began[s] /\ clock <= began[s] + Lag
      /\ r.record.occurred <= r.received + Future /\ began[s] \in Nat /\ clock \in Nat
  BY Times DEF TelemetryInv, TypeOK, InTime, InWindow, RowsLogged
<1>3. r.received + Retention >= clock
  BY <1>1, <1>2, Times
<1>4. ASSUME NEW t \in Sessions PROVE r \notin doomed[t]
  <2>1. pc[t] # "idle" => began[t] <= clock
    BY DEF TelemetryInv, InTime
  <2>2. r \in doomed[t] => pc[t] # "idle" /\ r.received + Retention < began[t]
    BY DEF TelemetryInv, Deleting
  <2>3. began[t] \in Nat
    BY Times DEF TelemetryInv, TypeOK
  <2> QED BY <1>1, <1>2, <1>3, <2>1, <2>2, <2>3, Times
<1> QED BY <1>4

(* A call about a record that was ever stored finds its row there.         *)
LEMMA StillThere ==
    ASSUME TelemetryInv, NEW s \in Sessions, pc[s] # "idle",
           NEW e \in log, e.record = sent[s]
    PROVE  \E r \in rows \ doomed[s] : r.record = sent[s]
<1>1. /\ sent[s] \in Records /\ sent[s].occurred + Past >= began[s]
      /\ clock <= began[s] + Lag /\ began[s] \in Nat /\ clock \in Nat
  BY Times DEF TelemetryInv, TypeOK, InTime, InWindow
<1>2. ~(e.record.occurred + Past + Lag < clock)
  BY <1>1, Occurrence, Times
<1>3. PICK r \in rows : r.record = sent[s]
  BY <1>2 DEF TelemetryInv, Kept
<1> QED BY <1>3, NotYetOld

(* A step of one session that stores nothing.                              *)
LEMMA OwnStep ==
    ASSUME TelemetryInv, TypeOK', NEW s \in Sessions,
           UNCHANGED <<clock, rows, log>>,
           \A t \in Sessions \ {s} :
             /\ pc'[t] = pc[t] /\ sent'[t] = sent[t]
             /\ began'[t] = began[t] /\ doomed'[t] = doomed[t],
           InTime(s)', Deleting(s)', Inserting(s)',
           \A r \in reused' :
             r \in reused \/ \E e \in log : SameKey(e.record, r) /\ e.record # r
    PROVE  TelemetryInv'
<1>1. RowsLogged' /\ Kept'
  BY DEF TelemetryInv, RowsLogged, Kept
<1>2. ASSUME NEW t \in Sessions \ {s} PROVE InTime(t)' /\ Deleting(t)' /\ Inserting(t)'
  <2>1. InTime(t)' /\ Deleting(t)'
    BY DEF TelemetryInv, InTime, Deleting
  <2>2. ASSUME pc'[t] = "commit", NEW u \in Sessions \ {t}, pc'[u] = "commit"
        PROVE  ~SameKey(sent'[u], sent'[t])
    <3>1. CASE u = s
      <4>1. ~SameKey(sent'[t], sent'[s])
        BY <2>2, <3>1 DEF Inserting
      <4> QED BY <3>1, <4>1 DEF SameKey
    <3>2. CASE u # s
      BY <2>2, <3>2 DEF TelemetryInv, Inserting
    <3> QED BY <3>1, <3>2
  <2>3. pc'[t] = "commit" => \A e \in log' : e.record # sent'[t]
    BY DEF TelemetryInv, Inserting
  <2>4. pc'[t] = "match" => \E e \in log' : SameKey(e.record, sent'[t])
    BY DEF TelemetryInv, Inserting
  <2> QED BY <2>1, <2>2, <2>3, <2>4 DEF Inserting
<1>3. RetriesHarmless'
  BY DEF TelemetryInv, RetriesHarmless
<1> QED BY <1>1, <1>2, <1>3 DEF TelemetryInv

(* A session that ends is idle and holds nothing.                          *)
LEMMA Ended ==
    ASSUME TelemetryInv, NEW s \in Sessions, End(s)
    PROVE  /\ pc'[s] = "idle" /\ doomed'[s] = {}
           /\ InTime(s)' /\ Inserting(s)' /\ Deleting(s)'
           /\ \A t \in Sessions \ {s} :
                /\ pc'[t] = pc[t] /\ sent'[t] = sent[t]
                /\ began'[t] = began[t] /\ doomed'[t] = doomed[t]
           /\ pc' \in [Sessions -> Stages] /\ sent' \in [Sessions -> Records \cup {None}]
           /\ began' \in [Sessions -> 0 .. MaxClock]
           /\ number' \in [Sessions -> 0 .. MaxCalls]
           /\ doomed' \in [Sessions -> SUBSET Rows]
<1>1. pc'[s] = "idle" /\ doomed'[s] = {}
  BY DEF TelemetryInv, TypeOK, End
<1>2. InTime(s)' /\ Inserting(s)' /\ Deleting(s)'
  BY <1>1 DEF InTime, Inserting, Deleting
<1>3. \A t \in Sessions \ {s} :
        /\ pc'[t] = pc[t] /\ sent'[t] = sent[t]
        /\ began'[t] = began[t] /\ doomed'[t] = doomed[t]
  BY DEF TelemetryInv, TypeOK, End
<1>4. /\ pc' \in [Sessions -> Stages] /\ sent' \in [Sessions -> Records \cup {None}]
      /\ began' \in [Sessions -> 0 .. MaxClock]
      /\ number' \in [Sessions -> 0 .. MaxCalls]
      /\ doomed' \in [Sessions -> SUBSET Rows]
  BY Times DEF TelemetryInv, TypeOK, End, Stages
<1> QED BY <1>1, <1>2, <1>3, <1>4

LEMMA RefuseKeeps == ASSUME TelemetryInv, NEW s \in Sessions, Refuse(s) PROVE TelemetryInv'
<1>1. End(s) /\ UNCHANGED <<clock, rows, calls, log, reused>>
  BY DEF Refuse
<1>2. TypeOK'
  BY <1>1, Ended DEF TelemetryInv, TypeOK
<1> QED BY <1>1, <1>2, Ended, OwnStep

LEMMA TelemetryInit == ASSUME Init PROVE TelemetryInv
<1>1. TypeOK
  BY Times DEF Init, TypeOK, Stages
<1>2. RowsLogged /\ Kept /\ RetriesHarmless
  BY DEF Init, RowsLogged, Kept, RetriesHarmless
<1>3. \A s \in Sessions : InTime(s) /\ Deleting(s) /\ Inserting(s)
  BY DEF Init, InTime, Deleting, Inserting
<1> QED BY <1>1, <1>2, <1>3 DEF TelemetryInv

-----------------------------------------------------------------------------
LEMMA TickKeeps == ASSUME TelemetryInv, Tick PROVE TelemetryInv'
<1>1. clock' = clock + 1 /\ clock \in Nat /\ clock' \in 0 .. MaxClock
  BY Times DEF Tick, TelemetryInv, TypeOK
<1>2. UNCHANGED <<rows, calls, pc, sent, began, number, doomed, log, reused>>
  BY DEF Tick, session
<1>3. TypeOK'
  <2>1. ASSUME NEW r \in rows PROVE r.received <= clock'
    BY <1>1, Received DEF TelemetryInv, TypeOK
  <2> QED BY <1>1, <1>2, <2>1 DEF TelemetryInv, TypeOK
<1>4. RowsLogged' /\ RetriesHarmless'
  BY <1>2 DEF TelemetryInv, RowsLogged, RetriesHarmless
<1>5. Kept'
  <2>1. \A e \in log : e.record.occurred \in Nat
    BY Occurrence DEF TelemetryInv, RowsLogged
  <2>2. ASSUME NEW e \in log, e.record.occurred + Past + Lag < clock
        PROVE  e.record.occurred + Past + Lag < clock'
    BY <1>1, <2>1, <2>2, Times
  <2> QED BY <1>2, <2>2 DEF TelemetryInv, Kept
<1>6. ASSUME NEW s \in Sessions PROVE InTime(s)' /\ Deleting(s)' /\ Inserting(s)'
  <2>1. Deleting(s)' /\ Inserting(s)'
    BY <1>2 DEF TelemetryInv, Deleting, Inserting
  <2>2. ASSUME pc[s] # "idle" PROVE began[s] <= clock' /\ clock' <= began[s] + Lag
    <3>1. began[s] <= clock /\ clock < began[s] + Lag /\ began[s] \in Nat
      BY <2>2, Times DEF TelemetryInv, TypeOK, InTime, Tick
    <3> QED BY <1>1, <3>1, Times
  <2>3. InTime(s)'
    BY <1>2, <2>2 DEF TelemetryInv, InTime
  <2> QED BY <2>1, <2>3
<1> QED BY <1>3, <1>4, <1>5, <1>6 DEF TelemetryInv

LEMMA SendKeeps == ASSUME TelemetryInv, NEW s \in Sessions, Send(s) PROVE TelemetryInv'
<1>1. PICK r \in Records : InWindow(r, clock) /\ sent' = [sent EXCEPT ![s] = r]
  BY DEF Send
<1>2. /\ pc[s] = "idle" /\ calls < MaxCalls /\ calls' = calls + 1
      /\ number' = [number EXCEPT ![s] = calls + 1]
      /\ began' = [began EXCEPT ![s] = clock]
      /\ pc' = [pc EXCEPT ![s] = "expire"]
      /\ UNCHANGED <<clock, rows, doomed, log, reused>>
  BY DEF Send, Goto
<1>3. calls + 1 \in 0 .. MaxCalls
  BY <1>2, Times DEF TelemetryInv, TypeOK
<1>4. TypeOK'
  BY <1>1, <1>2, <1>3, Times DEF TelemetryInv, TypeOK, Stages
<1>5. /\ pc'[s] = "expire" /\ sent'[s] = r /\ began'[s] = clock /\ doomed'[s] = {}
      /\ clock <= clock + Lag /\ clock <= clock
  BY <1>1, <1>2, Times DEF TelemetryInv, TypeOK, Deleting
<1>6. InTime(s)' /\ Deleting(s)' /\ Inserting(s)'
  BY <1>1, <1>2, <1>5 DEF InTime, Deleting, Inserting, InWindow
<1>7. \A t \in Sessions \ {s} :
        /\ pc'[t] = pc[t] /\ sent'[t] = sent[t]
        /\ began'[t] = began[t] /\ doomed'[t] = doomed[t]
  BY <1>1, <1>2 DEF TelemetryInv, TypeOK
<1> QED BY <1>2, <1>4, <1>6, <1>7, OwnStep

LEMMA ExpireKeeps == ASSUME TelemetryInv, NEW s \in Sessions, Expire(s) PROVE TelemetryInv'
<1>1. /\ pc[s] = "expire" /\ doomed' = [doomed EXCEPT ![s] = Old(s)]
      /\ pc' = [pc EXCEPT ![s] = "admit"]
      /\ UNCHANGED <<clock, rows, calls, sent, began, number, log, reused>>
  BY DEF Expire, Goto
<1>2. Old(s) \subseteq rows /\ \A r \in rows : r \in Old(s) <=> r.received + Retention < began[s]
  BY DEF Old
<1>3. pc'[s] = "admit" /\ doomed'[s] = Old(s)
  BY <1>1 DEF TelemetryInv, TypeOK
<1>4. TypeOK'
  BY <1>1, <1>2, Times DEF TelemetryInv, TypeOK, Stages
<1>5. InTime(s)' /\ Deleting(s)' /\ Inserting(s)'
  BY <1>1, <1>2, <1>3 DEF TelemetryInv, InTime, Deleting, Inserting
<1>6. \A t \in Sessions \ {s} :
        /\ pc'[t] = pc[t] /\ sent'[t] = sent[t]
        /\ began'[t] = began[t] /\ doomed'[t] = doomed[t]
  BY <1>1 DEF TelemetryInv, TypeOK
<1> QED BY <1>1, <1>4, <1>5, <1>6, OwnStep

(* A step that only moves a call past its deletion.                        *)
LEMMA MovesOn ==
    ASSUME TelemetryInv, NEW s \in Sessions, NEW stage \in Stages \ {"idle", "expire"},
           pc[s] \notin {"idle", "expire"}, Goto(s, stage),
           UNCHANGED <<clock, rows, calls, sent, began, number, doomed, log, reused>>,
           stage = "commit" =>
             /\ \A e \in log : e.record # sent[s]
             /\ \A t \in Sessions \ {s} :
                  pc[t] = "commit" => ~SameKey(sent[t], sent[s]),
           stage = "match" => \E e \in log : SameKey(e.record, sent[s])
    PROVE  TelemetryInv'
<1>1. pc'[s] = stage /\ \A t \in Sessions \ {s} : pc'[t] = pc[t]
  BY DEF TelemetryInv, TypeOK, Goto
<1>2. TypeOK'
  BY DEF TelemetryInv, TypeOK, Goto
<1>3. InTime(s)' /\ Deleting(s)'
  BY <1>1 DEF TelemetryInv, InTime, Deleting
<1>4. Inserting(s)'
  BY <1>1 DEF Inserting
<1> QED BY <1>1, <1>2, <1>3, <1>4, OwnStep

LEMMA AdmitKeeps == ASSUME TelemetryInv, NEW s \in Sessions, Admit(s) PROVE TelemetryInv'
<1>1. CASE Refuse(s)
  BY <1>1, RefuseKeeps
<1>2. CASE /\ Goto(s, "insert")
           /\ UNCHANGED <<clock, rows, calls, sent, began, number, doomed, log, reused>>
  <2>1. pc[s] = "admit" /\ "insert" \in Stages
    BY DEF Admit, Stages
  <2> QED BY <1>2, <2>1, MovesOn
<1> QED BY <1>1, <1>2 DEF Admit

LEMMA InsertKeeps == ASSUME TelemetryInv, NEW s \in Sessions, Insert(s) PROVE TelemetryInv'
<1>1. /\ pc[s] = "insert" /\ {"commit", "match"} \subseteq Stages
      /\ UNCHANGED <<clock, rows, calls, sent, began, number, doomed, log, reused>>
  BY DEF Insert, Stages
<1>2. CASE Stored(s) = {} /\ Goto(s, "commit")
  <2>1. ASSUME NEW e \in log PROVE e.record # sent[s]
    <3>1. SUFFICES ASSUME e.record = sent[s] PROVE FALSE
      OBVIOUS
    <3>2. PICK r \in rows \ doomed[s] : r.record = sent[s]
      BY <1>1, <3>1, StillThere
    <3> QED BY <1>2, <3>2 DEF Stored, SameKey
  <2>2. \A t \in Sessions \ {s} : pc[t] = "commit" => ~SameKey(sent[t], sent[s])
    BY DEF Insert, Undecided
  <2> QED BY <1>1, <1>2, <2>1, <2>2, MovesOn
<1>3. CASE Stored(s) # {} /\ Goto(s, "match")
  <2>1. PICK r \in rows : SameKey(r.record, sent[s])
    BY <1>3 DEF Stored
  <2>2. \E e \in log : SameKey(e.record, sent[s])
    BY <2>1 DEF TelemetryInv, RowsLogged
  <2> QED BY <1>1, <1>3, <2>2, MovesOn
<1> QED BY <1>2, <1>3 DEF Insert

(* The identifier was taken by something else: had this very record been   *)
(* stored, its row would still be there.                                   *)
LEMMA MatchKeeps == ASSUME TelemetryInv, NEW s \in Sessions, Match(s) PROVE TelemetryInv'
<1>1. pc[s] = "match" /\ "same" \in Stages
  BY DEF Match, Stages
<1>2. CASE /\ Goto(s, "same")
           /\ UNCHANGED <<clock, rows, calls, sent, began, number, doomed, log, reused>>
  BY <1>1, <1>2, MovesOn
<1>3. CASE /\ ~\E r \in Stored(s) : r.record = sent[s]
           /\ reused' = reused \cup {sent[s]} /\ End(s)
           /\ UNCHANGED <<clock, rows, calls, log>>
  <2>1. PICK e \in log : SameKey(e.record, sent[s])
    BY <1>1 DEF TelemetryInv, Inserting
  <2>2. e.record # sent[s]
    <3>1. SUFFICES ASSUME e.record = sent[s] PROVE FALSE
      OBVIOUS
    <3>2. PICK r \in rows \ doomed[s] : r.record = sent[s]
      BY <1>1, <3>1, StillThere
    <3> QED BY <1>3, <3>2 DEF Stored, SameKey
  <2>3. TypeOK'
    BY <1>3, Ended DEF TelemetryInv, TypeOK
  <2>4. \A r \in reused' :
          r \in reused \/ \E f \in log : SameKey(f.record, r) /\ f.record # r
    BY <1>3, <2>1, <2>2
  <2> QED BY <1>3, <2>3, <2>4, Ended, OwnStep
<1> QED BY <1>2, <1>3 DEF Match

-----------------------------------------------------------------------------
(* What is deleted is too old for any call to be about it.                 *)
LEMMA DeletedIsOld ==
    ASSUME TelemetryInv, NEW s \in Sessions, NEW e \in log
    PROVE  \/ \E r \in rows \ doomed[s] : r.record = e.record
           \/ e.record.occurred + Past + Lag < clock
<1>1. CASE e.record.occurred + Past + Lag < clock
  BY <1>1
<1>2. CASE \E r \in rows : r.record = e.record
  <2>1. PICK r \in rows : r.record = e.record
    BY <1>2
  <2>2. CASE r \notin doomed[s]
    BY <2>1, <2>2
  <2>3. CASE r \in doomed[s]
    <3>1. /\ r.received \in Nat /\ e.record.occurred \in Nat
          /\ began[s] \in Nat /\ clock \in Nat
      BY <2>1, Received, Occurrence, Times DEF TelemetryInv, TypeOK
    <3>2. r.received + Retention < began[s] /\ pc[s] # "idle"
      BY <2>3 DEF TelemetryInv, Deleting
    <3>3. began[s] <= clock /\ e.record.occurred <= r.received + Future
      BY <2>1, <3>2 DEF TelemetryInv, InTime, RowsLogged
    <3> QED BY <3>1, <3>2, <3>3, Times
  <2> QED BY <2>2, <2>3
<1> QED BY <1>1, <1>2 DEF TelemetryInv, Kept

(* Sessions other than the one that commits.                               *)
LEMMA OthersKeep ==
    ASSUME TelemetryInv, NEW s \in Sessions, End(s), clock' = clock,
           \A r \in rows' :
             r \in rows \/ \A t \in Sessions :
                             pc[t] # "idle" => r.received + Retention >= began[t],
           rows' \subseteq Rows,
           log \subseteq log',
           \A e \in log' :
             e \in log \/ \A t \in Sessions \ {s} :
                            pc[t] = "commit" => e.record # sent[t]
    PROVE  \A t \in Sessions : InTime(t)' /\ Deleting(t)' /\ Inserting(t)'
<1>1. ASSUME NEW t \in Sessions \ {s} PROVE InTime(t)' /\ Deleting(t)' /\ Inserting(t)'
  <2>1. /\ pc'[t] = pc[t] /\ sent'[t] = sent[t]
        /\ began'[t] = began[t] /\ doomed'[t] = doomed[t]
    BY Ended
  <2>2. InTime(t)'
    BY <2>1 DEF TelemetryInv, InTime
  <2>3. ASSUME pc[t] \notin {"idle", "expire"}, NEW r \in rows',
               r.received + Retention < began[t]
        PROVE  r \in doomed[t]
    <3>1. r.received \in Nat /\ began[t] \in Nat
      BY Received, Times DEF TelemetryInv, TypeOK
    <3>2. r \in rows
      BY <2>3, <3>1, Times
    <3> QED BY <2>3, <3>2 DEF TelemetryInv, Deleting
  <2>4. Deleting(t)'
    BY <2>1, <2>3 DEF TelemetryInv, Deleting
  <2>5. \A u \in Sessions : pc'[u] = "commit" => u # s /\ pc[u] = "commit" /\ sent'[u] = sent[u]
    BY Ended
  <2>6. Inserting(t)'
    BY <2>1, <2>5 DEF TelemetryInv, Inserting
  <2> QED BY <2>2, <2>4, <2>6
<1> QED BY <1>1, Ended

LEMMA CommitRowKeeps == ASSUME TelemetryInv, NEW s \in Sessions, CommitRow(s) PROVE TelemetryInv'
<1> DEFINE entry == [record |-> sent[s], call |-> number[s]]
<1>1. /\ pc[s] = "commit" /\ End(s) /\ rows' = (rows \ doomed[s]) \cup {Row(s)}
      /\ log' = log \cup {entry} /\ UNCHANGED <<clock, calls, reused>>
  BY DEF CommitRow
<1>2. /\ sent[s] \in Records /\ InWindow(sent[s], began[s])
      /\ began[s] <= clock /\ clock <= began[s] + Lag
      /\ began[s] \in 0 .. MaxClock /\ number[s] \in 0 .. MaxCalls
      /\ clock \in Nat
  BY <1>1, Times DEF TelemetryInv, TypeOK, InTime
<1>3. /\ Row(s).record = sent[s] /\ Row(s).received = began[s] /\ Row(s) \in Rows
      /\ entry.record = sent[s] /\ entry \in [record : Records, call : 0 .. MaxCalls]
  BY <1>2 DEF Row, Rows
<1> HIDE DEF entry
<1>4. TypeOK'
  BY <1>1, <1>2, <1>3, Ended DEF TelemetryInv, TypeOK
<1>5. RowsLogged'
  <2>1. sent[s].occurred <= began[s] + Future
    BY <1>2 DEF InWindow
  <2>2. ASSUME NEW r \in rows \ doomed[s]
        PROVE  r.record.occurred <= r.received + Future /\ \E e \in log' : e.record = r.record
    BY <1>1 DEF TelemetryInv, RowsLogged
  <2>3. log' \subseteq [record : Records, call : 0 .. MaxCalls]
    BY <1>1, <1>3 DEF TelemetryInv, RowsLogged
  <2> QED BY <1>1, <1>3, <2>1, <2>2, <2>3 DEF RowsLogged
<1>6. Kept'
  <2>1. ASSUME NEW e \in log
        PROVE  (\E r \in rows' : r.record = e.record) \/ e.record.occurred + Past + Lag < clock'
    BY <1>1, DeletedIsOld
  <2>2. \E r \in rows' : r.record = entry.record
    BY <1>1, <1>3
  <2> QED BY <1>1, <2>1, <2>2 DEF Kept
<1>7. \A t \in Sessions : InTime(t)' /\ Deleting(t)' /\ Inserting(t)'
  <2>1. ASSUME NEW t \in Sessions, pc[t] # "idle" PROVE began[s] + Retention >= began[t]
    <3>1. began[t] <= clock /\ began[t] \in Nat
      BY <2>1, Times DEF TelemetryInv, TypeOK, InTime
    <3> QED BY <1>2, <3>1, Times
  <2>2. \A r \in rows' :
          r \in rows \/ \A t \in Sessions :
                          pc[t] # "idle" => r.received + Retention >= began[t]
    BY <1>1, <1>3, <2>1
  <2>3. ASSUME NEW t \in Sessions \ {s}, pc[t] = "commit" PROVE entry.record # sent[t]
    BY <1>1, <1>3, <2>3 DEF TelemetryInv, Inserting, SameKey
  <2>4. rows' \subseteq Rows
    BY <1>4 DEF TypeOK
  <2> QED BY <1>1, <2>2, <2>3, <2>4, OthersKeep
<1>8. RetriesHarmless'
  <2>1. \A e \in log : e.record # entry.record
    BY <1>1, <1>3 DEF TelemetryInv, Inserting
  <2> QED BY <1>1, <2>1 DEF TelemetryInv, RetriesHarmless
<1> QED BY <1>4, <1>5, <1>6, <1>7, <1>8 DEF TelemetryInv

LEMMA CommitDuplicateKeeps ==
    ASSUME TelemetryInv, NEW s \in Sessions, CommitDuplicate(s) PROVE TelemetryInv'
<1>1. /\ pc[s] = "same" /\ End(s) /\ rows' = rows \ doomed[s]
      /\ UNCHANGED <<clock, calls, log, reused>>
  BY DEF CommitDuplicate
<1>2. TypeOK'
  BY <1>1, Ended DEF TelemetryInv, TypeOK
<1>3. RowsLogged'
  BY <1>1 DEF TelemetryInv, RowsLogged
<1>4. Kept'
  BY <1>1, DeletedIsOld DEF Kept
<1>5. rows' \subseteq Rows
  BY <1>2 DEF TypeOK
<1>6. \A t \in Sessions : InTime(t)' /\ Deleting(t)' /\ Inserting(t)'
  BY <1>1, <1>5, OthersKeep
<1>7. RetriesHarmless'
  BY <1>1 DEF TelemetryInv, RetriesHarmless
<1> QED BY <1>2, <1>3, <1>4, <1>6, <1>7 DEF TelemetryInv

LEMMA TelemetryStep == TelemetryInv /\ [Next]_vars => TelemetryInv'
<1> SUFFICES ASSUME TelemetryInv, [Next]_vars PROVE TelemetryInv'
  OBVIOUS
<1>1. CASE Tick
  BY <1>1, TickKeeps
<1>2. ASSUME NEW s \in Sessions,
             \/ Send(s) \/ Expire(s) \/ Admit(s) \/ Insert(s) \/ Match(s)
             \/ CommitRow(s) \/ CommitDuplicate(s) \/ Lose(s)
      PROVE  TelemetryInv'
  BY <1>2, SendKeeps, ExpireKeeps, AdmitKeeps, InsertKeeps, MatchKeeps, CommitRowKeeps,
     CommitDuplicateKeeps, RefuseKeeps DEF Lose
<1>3. CASE UNCHANGED vars
  <2>1. UNCHANGED <<clock, rows, calls, pc, sent, began, number, doomed, log, reused>>
    BY <1>3 DEF vars
  <2>2. TypeOK' /\ RowsLogged' /\ Kept' /\ RetriesHarmless'
    BY <2>1 DEF TelemetryInv, TypeOK, RowsLogged, Kept, RetriesHarmless
  <2>3. \A s \in Sessions : InTime(s)' /\ Deleting(s)' /\ Inserting(s)'
    BY <2>1 DEF TelemetryInv, InTime, Deleting, Inserting
  <2> QED BY <2>2, <2>3 DEF TelemetryInv
<1> QED BY <1>1, <1>2, <1>3 DEF Next

LEMMA Remembered == Spec => []TelemetryInv
BY TelemetryInit, TelemetryStep, PTL DEF Spec

(* However often a client repeats a record, it is stored once, and it is   *)
(* not called reused unless something else is stored under its identifier. *)
THEOREM RetriesStoreOnce == Spec => []RetriesHarmless
<1>1. TelemetryInv => RetriesHarmless
  BY DEF TelemetryInv
<1> QED BY <1>1, Remembered, PTL

(* Whenever a record is accepted, nothing older than the retention stays.  *)
THEOREM OldRowsForgotten == Spec => RetentionHeld
<1> DEFINE Forgets ==
      \A s \in Sessions :
        pc[s] = "commit" /\ log' # log /\ number'[s] # number[s] =>
          \A r \in rows' : r.received + Retention >= began[s]
<1>1. ASSUME TelemetryInv, [Next]_vars PROVE [Forgets]_vars
  <2>1. SUFFICES ASSUME NEW s \in Sessions, pc[s] = "commit", log' # log,
                        number'[s] # number[s], NEW r \in rows'
                 PROVE  r.received + Retention >= began[s]
    OBVIOUS
  <2>2. PICK t \in Sessions : CommitRow(t)
    BY <1>1, <2>1 DEF Next, Tick, Send, Expire, Admit, Insert, Match, CommitDuplicate,
                      Lose, Refuse, vars
  <2>3. s = t
    BY <1>1, <2>1, <2>2 DEF CommitRow, End, TelemetryInv, TypeOK
  <2>4. r \in rows \ doomed[s] \/ r = Row(s)
    BY <2>2, <2>3 DEF CommitRow
  <2>5. began[s] \in Nat
    BY <1>1, Times DEF TelemetryInv, TypeOK
  <2>6. CASE r = Row(s)
    BY <2>5, <2>6, Times DEF Row
  <2>7. CASE r \in rows \ doomed[s]
    <3>1. r.received \in Nat
      BY <1>1, <2>7, Received, Times DEF TelemetryInv, TypeOK
    <3>2. ~(r.received + Retention < began[s])
      BY <1>1, <2>1, <2>7 DEF TelemetryInv, Deleting
    <3> QED BY <2>5, <3>1, <3>2, Times
  <2> QED BY <2>4, <2>6, <2>7
<1> QED BY <1>1, Remembered, PTL DEF Spec, RetentionHeld

-----------------------------------------------------------------------------
(* The ceiling: rows counted now and calls admitted, together.             *)
LEMMA Finite ==
    ASSUME Bounded
    PROVE  /\ IsFiniteSet(Recently) /\ Cardinality(Recently) \in Nat
           /\ IsFiniteSet(Admitted) /\ Cardinality(Admitted) \in Nat
           /\ Cardinality(Sessions) \in Nat /\ Ceiling \in Nat \ {0}
<1>1. IsFiniteSet(rows) /\ Recently \in SUBSET rows
  BY DEF Bounded, Recently
<1>2. IsFiniteSet(Sessions) /\ Admitted \in SUBSET Sessions
  BY CeilingAssumption DEF Admitted
<1>3. IsFiniteSet(Recently) /\ IsFiniteSet(Admitted)
  BY <1>1, <1>2, FS_Subset
<1> QED BY <1>2, <1>3, FS_CardinalityType, CeilingAssumption

LEMMA Shrinks ==
    ASSUME Bounded, IsFiniteSet(rows'), Recently' \subseteq Recently,
           Admitted' \subseteq Admitted
    PROVE  Bounded'
<1>1. /\ Cardinality(Recently') \in Nat /\ Cardinality(Recently') <= Cardinality(Recently)
      /\ Cardinality(Admitted') \in Nat /\ Cardinality(Admitted') <= Cardinality(Admitted)
  BY Finite, FS_Subset, FS_CardinalityType
<1> QED BY <1>1, Finite DEF Bounded

LEMMA BoundedInit == ASSUME Init PROVE Bounded
<1>1. rows = {} /\ Recently = {} /\ Admitted = {}
  BY DEF Init, Recently, Admitted
<1>2. Cardinality(Sessions) \in Nat /\ Ceiling \in Nat /\ Ceiling >= 1
  BY CeilingAssumption, FS_CardinalityType
<1>3. IsFiniteSet({}) /\ Cardinality({}) = 0
  BY FS_EmptySet
<1>4. Cardinality({}) + Cardinality({}) <= Ceiling + Cardinality(Sessions) - 1
  BY <1>2, <1>3
<1> QED BY <1>1, <1>3, <1>4 DEF Bounded

LEMMA BoundedStep == ASSUME TelemetryInv, Bounded, [Next]_vars PROVE Bounded'
<1>1. CASE rows' = rows /\ clock' = clock /\ Admitted' \subseteq Admitted
  <2>1. IsFiniteSet(rows') /\ Recently' \subseteq Recently
    BY <1>1 DEF Bounded, Recently
  <2> QED BY <1>1, <2>1, Shrinks
<1>2. CASE Tick
  <2>1. clock \in Nat /\ clock' = clock + 1 /\ rows' = rows /\ pc' = pc
    BY <1>2, Times DEF Tick, session, TelemetryInv, TypeOK
  <2>2. ASSUME NEW r \in rows, r.received + Hour > clock' PROVE r.received + Hour > clock
    <3>1. r.received \in Nat
      BY Received, Times DEF TelemetryInv, TypeOK
    <3> QED BY <2>1, <2>2, <3>1, Times
  <2>3. Recently' \subseteq Recently /\ Admitted' \subseteq Admitted
    BY <2>1, <2>2 DEF Recently, Admitted
  <2> QED BY <2>1, <2>3, Shrinks DEF Bounded
<1>3. ASSUME NEW s \in Sessions, End(s), rows' = rows, clock' = clock
      PROVE  Bounded'
  <2>1. Admitted' \subseteq Admitted
    BY <1>3, Ended DEF Admitted
  <2> QED BY <1>1, <1>3, <2>1
<1>4. ASSUME NEW s \in Sessions, Send(s) \/ Expire(s) PROVE Bounded'
  <2>1. /\ rows' = rows /\ clock' = clock
        /\ pc' = [pc EXCEPT ![s] = "expire"] \/ pc' = [pc EXCEPT ![s] = "admit"]
    BY <1>4 DEF Send, Expire, Goto
  <2>2. Admitted' \subseteq Admitted
    BY <2>1 DEF Admitted, TelemetryInv, TypeOK
  <2> QED BY <1>1, <2>1, <2>2
<1>5. ASSUME NEW s \in Sessions, Insert(s) PROVE Bounded'
  <2>1. /\ rows' = rows /\ clock' = clock /\ pc[s] = "insert"
        /\ \A t \in Sessions \ {s} : pc'[t] = pc[t]
    BY <1>5 DEF Insert, Goto, TelemetryInv, TypeOK
  <2>2. Admitted' \subseteq Admitted
    BY <2>1 DEF Admitted
  <2> QED BY <1>1, <2>1, <2>2
<1>6. ASSUME NEW s \in Sessions, Match(s) PROVE Bounded'
  <2>1. CASE End(s) /\ UNCHANGED <<clock, rows, calls, log>>
    BY <1>3, <2>1
  <2>2. CASE Goto(s, "same") /\ UNCHANGED <<clock, rows>>
    <3>1. pc[s] = "match" /\ \A t \in Sessions \ {s} : pc'[t] = pc[t]
      BY <1>6, <2>2 DEF Match, Goto, TelemetryInv, TypeOK
    <3>2. Admitted' \subseteq Admitted
      BY <3>1 DEF Admitted
    <3> QED BY <1>1, <2>2, <3>2
  <2> QED BY <1>6, <2>1, <2>2 DEF Match
<1>7. ASSUME NEW s \in Sessions, Admit(s) PROVE Bounded'
  <2>1. CASE Refuse(s)
    BY <1>3, <2>1 DEF Refuse
  <2>2. CASE Admissible(s) /\ UNCHANGED <<clock, rows>>
    <3>1. Recently \subseteq Recent(s)
      <4>1. SUFFICES ASSUME NEW r \in Recently PROVE r \in Recent(s)
        OBVIOUS
      <4>2. /\ r \in rows /\ r.received + Hour > clock /\ r.received \in Nat
            /\ began[s] \in Nat /\ clock \in Nat
        BY Received, Times DEF Recently, TelemetryInv, TypeOK
      <4>3. began[s] <= clock
        BY <1>7 DEF Admit, TelemetryInv, InTime
      <4>4. r \in doomed[s] => r.received + Retention < began[s]
        BY DEF TelemetryInv, Deleting
      <4>5. r \notin doomed[s] /\ r.received + Hour > began[s]
        BY <4>2, <4>3, <4>4, Times
      <4> QED BY <4>2, <4>5 DEF Recent
    <3>2. /\ IsFiniteSet(Recent(s)) /\ Cardinality(Recent(s)) \in Nat
          /\ Cardinality(Recent(s)) < Ceiling
      <4>1. Recent(s) \in SUBSET rows /\ IsFiniteSet(rows)
        BY DEF Recent, Bounded
      <4>2. IsFiniteSet(Recent(s))
        BY <4>1, FS_Subset
      <4> QED BY <2>2, <4>2, FS_CardinalityType DEF Admissible
    <3>3. Cardinality(Recently) <= Cardinality(Recent(s))
      BY <3>1, <3>2, FS_Subset
    <3>4. Recently' = Recently
      BY <2>2 DEF Recently
    <3>5. Admitted' \in SUBSET Sessions
      BY DEF Admitted
    <3>6. /\ IsFiniteSet(Admitted') /\ Cardinality(Admitted') \in Nat
          /\ Cardinality(Admitted') <= Cardinality(Sessions)
      BY <3>5, CeilingAssumption, FS_Subset, FS_CardinalityType
    <3> QED BY <2>2, <3>2, <3>3, <3>4, <3>6, Finite DEF Bounded
  <2> QED BY <1>7, <2>1, <2>2 DEF Admit
<1>8. ASSUME NEW s \in Sessions, CommitRow(s) PROVE Bounded'
  <2>1. /\ pc[s] = "commit" /\ End(s) /\ rows' = (rows \ doomed[s]) \cup {Row(s)}
        /\ clock' = clock
    BY <1>8 DEF CommitRow
  <2>2. IsFiniteSet(rows')
    <3>1. IsFiniteSet(rows \ doomed[s])
      BY FS_Difference DEF Bounded
    <3> QED BY <2>1, <3>1, FS_AddElement
  <2>3. Recently' \subseteq Recently \cup {Row(s)}
    BY <2>1 DEF Recently
  <2>4. s \in Admitted /\ Admitted' \subseteq Admitted \ {s}
    BY <2>1, Ended DEF Admitted
  <2>5. /\ Cardinality(Recently') \in Nat
        /\ Cardinality(Recently') <= Cardinality(Recently) + 1
    <3>1. /\ IsFiniteSet(Recently \cup {Row(s)})
          /\ Cardinality(Recently \cup {Row(s)}) \in Nat
          /\ Cardinality(Recently \cup {Row(s)}) <= Cardinality(Recently) + 1
      BY Finite, FS_AddElement
    <3>2. /\ IsFiniteSet(Recently')
          /\ Cardinality(Recently') <= Cardinality(Recently \cup {Row(s)})
      BY <2>3, <3>1, FS_Subset
    <3>3. Cardinality(Recently') \in Nat
      BY <3>2, FS_CardinalityType
    <3> QED BY <3>1, <3>2, <3>3, Finite
  <2>6. /\ Cardinality(Admitted') \in Nat
        /\ Cardinality(Admitted') <= Cardinality(Admitted) - 1
    <3>1. /\ IsFiniteSet(Admitted \ {s})
          /\ Cardinality(Admitted \ {s}) = Cardinality(Admitted) - 1
      BY <2>4, Finite, FS_RemoveElement
    <3>2. /\ IsFiniteSet(Admitted')
          /\ Cardinality(Admitted') <= Cardinality(Admitted \ {s})
      BY <2>4, <3>1, FS_Subset
    <3>3. Cardinality(Admitted') \in Nat
      BY <3>2, FS_CardinalityType
    <3> QED BY <3>1, <3>2, <3>3
  <2> QED BY <2>2, <2>5, <2>6, Finite DEF Bounded
<1>9. ASSUME NEW s \in Sessions, CommitDuplicate(s) PROVE Bounded'
  <2>1. End(s) /\ rows' = rows \ doomed[s] /\ clock' = clock
    BY <1>9 DEF CommitDuplicate
  <2>2. IsFiniteSet(rows')
    BY <2>1, FS_Difference DEF Bounded
  <2>3. Recently' \subseteq Recently /\ Admitted' \subseteq Admitted
    BY <2>1, Ended DEF Recently, Admitted
  <2> QED BY <2>2, <2>3, Shrinks
<1>10. ASSUME NEW s \in Sessions, Lose(s) PROVE Bounded'
  BY <1>3, <1>10 DEF Lose, Refuse
<1>11. CASE UNCHANGED vars
  BY <1>1, <1>11 DEF vars, Admitted
<1> QED BY <1>2, <1>4, <1>5, <1>6, <1>7, <1>8, <1>9, <1>10, <1>11 DEF Next

(* Calls that run together pass the hourly ceiling by at most one row for  *)
(* each session but the first.                                             *)
THEOREM CeilingPassedByFew == Spec => []CeilingHeld
<1>1. Init => TelemetryInv /\ Bounded
  BY TelemetryInit, BoundedInit
<1>2. TelemetryInv /\ Bounded /\ [Next]_vars => (TelemetryInv /\ Bounded)'
  BY TelemetryStep, BoundedStep
<1>3. TelemetryInv /\ Bounded => CeilingHeld
  <2>1. SUFFICES ASSUME Bounded PROVE CeilingHeld
    OBVIOUS
  <2>2. Cardinality(Recently) <= Ceiling + Cardinality(Sessions) - 1
    BY <2>1, Finite DEF Bounded
  <2> QED BY <2>2 DEF CeilingHeld, Recently
<1> QED BY <1>1, <1>2, <1>3, PTL DEF Spec

-----------------------------------------------------------------------------
(* The three services beside each other.                                   *)
ProfileProofs == INSTANCE PublicProfilesProofs WITH
    MaxCalls <- MaxSaves, calls <- pcalls, pc <- ppc

all == <<part, telemetry, actions, profile>>

LEMMA ProfilesBegin == MCInit => ProfileProofs!ProfilesInv
<1> SUFFICES ASSUME MCInit PROVE ProfileProofs!ProfilesInv
  OBVIOUS
<1>1. ProfileProofs!ConstantsTyped
  BY ProfilesAssumption DEF Profiles!ConstantsTyped, ProfileProofs!ConstantsTyped,
     Profiles!Request, ProfileProofs!Request, Profiles!Profile, ProfileProofs!Profile,
     Profiles!HandleRow, ProfileProofs!HandleRow, Profiles!Ids, ProfileProofs!Ids,
     Profiles!Visibilities, ProfileProofs!Visibilities
<1>2. ProfileProofs!Init
  BY DEF MCInit, Profiles!Init, ProfileProofs!Init, Profiles!Ids, ProfileProofs!Ids
<1> QED BY <1>1, <1>2, ProfileProofs!ProfilesInit

(* The two instances of PublicProfiles have the same steps.                *)
LEMMA ProfilesAlike ==
    /\ \A s \in Sessions :
         /\ Profiles!Call(s) => ProfileProofs!Call(s)
         /\ Profiles!Enter(s) \/ Profiles!FindNone(s) \/ Profiles!FindProfile(s)
              \/ Profiles!Claim(s) \/ Profiles!InsertProfile(s) \/ Profiles!InsertHandle(s)
              \/ Profiles!UpdateProfile(s) \/ Profiles!CommitSave(s)
              => ProfileProofs!Save(s)
         /\ Profiles!LockAccount(s) \/ Profiles!Tombstone(s) \/ Profiles!CommitDelete(s)
              => ProfileProofs!Delete(s)
         /\ Profiles!Lose(s) => ProfileProofs!Lose(s)
    /\ \A i \in 1 .. MaxSaves : Profiles!Link(i) => i \in ProfileProofs!Ids /\ ProfileProofs!Link(i)
<1>1. ASSUME NEW s \in Sessions PROVE Profiles!Call(s) <=> ProfileProofs!Call(s)
  BY DEF Profiles!Call, ProfileProofs!Call, Profiles!Ids, ProfileProofs!Ids,
         Profiles!tables, ProfileProofs!tables
<1>2. ASSUME NEW s \in Sessions PROVE Profiles!Enter(s) <=> ProfileProofs!Enter(s)
  BY DEF Profiles!Enter, ProfileProofs!Enter,
         Profiles!Here, ProfileProofs!Here, Profiles!Goto, ProfileProofs!Goto,
         Profiles!Grantable, ProfileProofs!Grantable,
         Profiles!Conflicts, ProfileProofs!Conflicts,
         Profiles!Refuse, ProfileProofs!Refuse,
         Profiles!End, ProfileProofs!End, Profiles!Ids, ProfileProofs!Ids,
         Profiles!tables, ProfileProofs!tables
<1>3. ASSUME NEW s \in Sessions PROVE Profiles!FindNone(s) <=> ProfileProofs!FindNone(s)
  BY DEF Profiles!FindNone, ProfileProofs!FindNone,
         Profiles!Here, ProfileProofs!Here, Profiles!Goto, ProfileProofs!Goto,
         Profiles!Grantable, ProfileProofs!Grantable,
         Profiles!Conflicts, ProfileProofs!Conflicts,
         Profiles!Refuse, ProfileProofs!Refuse,
         Profiles!End, ProfileProofs!End,
         Profiles!ProfileOf, ProfileProofs!ProfileOf,
         Profiles!Active, ProfileProofs!Active,
         Profiles!Ids, ProfileProofs!Ids,
         Profiles!tables, ProfileProofs!tables
<1>4. ASSUME NEW s \in Sessions PROVE Profiles!FindProfile(s) <=> ProfileProofs!FindProfile(s)
  BY DEF Profiles!FindProfile, ProfileProofs!FindProfile,
         Profiles!Here, ProfileProofs!Here, Profiles!Goto, ProfileProofs!Goto,
         Profiles!Grantable, ProfileProofs!Grantable,
         Profiles!Conflicts, ProfileProofs!Conflicts,
         Profiles!Refuse, ProfileProofs!Refuse,
         Profiles!End, ProfileProofs!End,
         Profiles!ProfileOf, ProfileProofs!ProfileOf,
         Profiles!Active, ProfileProofs!Active,
         Profiles!ProfileLock, ProfileProofs!ProfileLock,
         Profiles!Ids, ProfileProofs!Ids,
         Profiles!tables, ProfileProofs!tables
<1>5. ASSUME NEW s \in Sessions PROVE Profiles!Claim(s) <=> ProfileProofs!Claim(s)
  BY DEF Profiles!Claim, ProfileProofs!Claim,
         Profiles!Here, ProfileProofs!Here,
         Profiles!Taken, ProfileProofs!Taken,
         Profiles!Goto, ProfileProofs!Goto,
         Profiles!Grantable, ProfileProofs!Grantable,
         Profiles!Conflicts, ProfileProofs!Conflicts,
         Profiles!Refuse, ProfileProofs!Refuse,
         Profiles!End, ProfileProofs!End, Profiles!Ids, ProfileProofs!Ids,
         Profiles!tables, ProfileProofs!tables
<1>6. ASSUME NEW s \in Sessions PROVE Profiles!InsertProfile(s) <=> ProfileProofs!InsertProfile(s)
  BY DEF Profiles!InsertProfile, ProfileProofs!InsertProfile,
         Profiles!Here, ProfileProofs!Here, Profiles!Goto, ProfileProofs!Goto,
         Profiles!Grantable, ProfileProofs!Grantable,
         Profiles!Conflicts, ProfileProofs!Conflicts,
         Profiles!Refuse, ProfileProofs!Refuse,
         Profiles!End, ProfileProofs!End,
         Profiles!ProfileOf, ProfileProofs!ProfileOf,
         Profiles!Active, ProfileProofs!Active,
         Profiles!AccountKey, ProfileProofs!AccountKey,
         Profiles!Ids, ProfileProofs!Ids,
         Profiles!tables, ProfileProofs!tables
<1>7. ASSUME NEW s \in Sessions PROVE Profiles!InsertHandle(s) <=> ProfileProofs!InsertHandle(s)
  BY DEF Profiles!InsertHandle, ProfileProofs!InsertHandle,
         Profiles!Here, ProfileProofs!Here, Profiles!Goto, ProfileProofs!Goto,
         Profiles!Grantable, ProfileProofs!Grantable,
         Profiles!Conflicts, ProfileProofs!Conflicts,
         Profiles!Refuse, ProfileProofs!Refuse,
         Profiles!End, ProfileProofs!End, Profiles!Ids, ProfileProofs!Ids,
         Profiles!tables, ProfileProofs!tables
<1>8. ASSUME NEW s \in Sessions PROVE Profiles!UpdateProfile(s) <=> ProfileProofs!UpdateProfile(s)
  BY DEF Profiles!UpdateProfile, ProfileProofs!UpdateProfile,
         Profiles!Here, ProfileProofs!Here, Profiles!Goto, ProfileProofs!Goto,
         Profiles!Grantable, ProfileProofs!Grantable,
         Profiles!Conflicts, ProfileProofs!Conflicts,
         Profiles!Refuse, ProfileProofs!Refuse,
         Profiles!End, ProfileProofs!End, Profiles!Ids, ProfileProofs!Ids,
         Profiles!tables, ProfileProofs!tables
<1>9. ASSUME NEW s \in Sessions PROVE Profiles!CommitSave(s) <=> ProfileProofs!CommitSave(s)
  BY DEF Profiles!CommitSave, ProfileProofs!CommitSave,
         Profiles!Here, ProfileProofs!Here, Profiles!End, ProfileProofs!End,
         Profiles!Target, ProfileProofs!Target,
         Profiles!NewVersion, ProfileProofs!NewVersion,
         Profiles!Replaced, ProfileProofs!Replaced,
         Profiles!Retired, ProfileProofs!Retired,
         Profiles!Ids, ProfileProofs!Ids
<1>10. ASSUME NEW s \in Sessions PROVE Profiles!LockAccount(s) <=> ProfileProofs!LockAccount(s)
  BY DEF Profiles!LockAccount, ProfileProofs!LockAccount,
         Profiles!Here, ProfileProofs!Here, Profiles!Goto, ProfileProofs!Goto,
         Profiles!Grantable, ProfileProofs!Grantable,
         Profiles!Conflicts, ProfileProofs!Conflicts,
         Profiles!Refuse, ProfileProofs!Refuse,
         Profiles!End, ProfileProofs!End, Profiles!Ids, ProfileProofs!Ids,
         Profiles!tables, ProfileProofs!tables
<1>11. ASSUME NEW s \in Sessions PROVE Profiles!Tombstone(s) <=> ProfileProofs!Tombstone(s)
  BY DEF Profiles!Tombstone, ProfileProofs!Tombstone,
         Profiles!Here, ProfileProofs!Here, Profiles!Goto, ProfileProofs!Goto,
         Profiles!Grantable, ProfileProofs!Grantable,
         Profiles!Conflicts, ProfileProofs!Conflicts,
         Profiles!ProfileOf, ProfileProofs!ProfileOf,
         Profiles!Active, ProfileProofs!Active,
         Profiles!ProfileLock, ProfileProofs!ProfileLock,
         Profiles!Ids, ProfileProofs!Ids,
         Profiles!tables, ProfileProofs!tables
<1>12. ASSUME NEW s \in Sessions PROVE Profiles!CommitDelete(s) <=> ProfileProofs!CommitDelete(s)
  BY DEF Profiles!CommitDelete, ProfileProofs!CommitDelete,
         Profiles!Here, ProfileProofs!Here, Profiles!End, ProfileProofs!End,
         Profiles!Erased, ProfileProofs!Erased,
         Profiles!Ids, ProfileProofs!Ids
<1>13. ASSUME NEW s \in Sessions PROVE Profiles!Lose(s) <=> ProfileProofs!Lose(s)
  BY DEF Profiles!Lose, ProfileProofs!Lose, Profiles!Here, ProfileProofs!Here,
         Profiles!Refuse, ProfileProofs!Refuse,
         Profiles!End, ProfileProofs!End, Profiles!Ids, ProfileProofs!Ids,
         Profiles!tables, ProfileProofs!tables
<1>14. ASSUME NEW i \in 1 .. MaxSaves
       PROVE  Profiles!Link(i) => i \in ProfileProofs!Ids /\ ProfileProofs!Link(i)
  BY DEF Profiles!Link, ProfileProofs!Link, Profiles!Active, ProfileProofs!Active,
         Profiles!session, ProfileProofs!session, ProfileProofs!Ids
<1> QED BY <1>1, <1>2, <1>3, <1>4, <1>5, <1>6, <1>7, <1>8, <1>9, <1>10, <1>11, <1>12,
           <1>13, <1>14 DEF ProfileProofs!Save, ProfileProofs!Delete

(* A step is a step of the profiles, or leaves them alone.                 *)
LEMMA ProfilesMove == [MCNext]_all => [ProfileProofs!Next]_(ProfileProofs!vars)
<1> SUFFICES ASSUME [MCNext]_all PROVE [ProfileProofs!Next]_(ProfileProofs!vars)
  OBVIOUS
<1>1. CASE UNCHANGED profile
  BY <1>1 DEF profile, ProfileProofs!vars
<1>2. CASE ~UNCHANGED profile
  <2>1. MCNext /\ ~OfActions /\ ~OfTelemetry
    BY <1>2 DEF all, OfActions, OfTelemetry
  <2> QED BY <2>1, ProfilesAlike DEF MCNext, ProfileProofs!Next
<1> QED BY <1>1, <1>2

LEMMA ProfilesGoOn == ProfileProofs!ProfilesInv /\ [MCNext]_all => ProfileProofs!ProfilesInv'
BY ProfilesMove, ProfileProofs!ProfilesStep

(* public-profiles.sql: a profile has one current handle, the one in its   *)
(* row, and each of its versions is one save, whatever overlaps or stops   *)
(* half way.                                                               *)
THEOREM OneHandleOneSave == MCSpec => []ProfilesConsistent
<1>1. ProfileProofs!ProfilesInv => ProfilesConsistent
  BY DEF ProfileProofs!ProfilesInv, ProfilesConsistent,
         Profiles!OneCurrentHandle, ProfileProofs!OneCurrentHandle,
         Profiles!SavesInOrder, ProfileProofs!SavesInOrder,
         Profiles!Active, ProfileProofs!Active, Profiles!Ids, ProfileProofs!Ids
<1> QED BY <1>1, ProfilesBegin, ProfilesGoOn, PTL DEF MCSpec, all

(* public-profiles.sql: deleting an account takes its profile with it.     *)
THEOREM DeletedWithAccount == MCSpec => []DeletionComplete
<1>1. ProfileProofs!ProfilesInv => DeletionComplete
  BY DEF ProfileProofs!ProfilesInv, DeletionComplete,
         Profiles!DeletionComplete, ProfileProofs!DeletionComplete,
         Profiles!Active, ProfileProofs!Active, Profiles!Ids, ProfileProofs!Ids
<1> QED BY <1>1, ProfilesBegin, ProfilesGoOn, PTL DEF MCSpec, all

(* public-profiles.sql:79-80: no address ever leads to another profile.    *)
THEOREM AddressesNeverMove == MCSpec => NeverReassigned
<1>1. ProfileProofs!ProfilesInv /\ [MCNext]_all => Profiles!AddressesKept
  <2> SUFFICES ASSUME ProfileProofs!ProfilesInv, [MCNext]_all
               PROVE  Profiles!AddressesKept
    OBVIOUS
  <2>1. ProfileProofs!AddressesKept
    BY ProfilesMove, ProfileProofs!AddressesStep
  <2> QED BY <2>1 DEF Profiles!AddressesKept, ProfileProofs!AddressesKept,
         Profiles!ReadBy, ProfileProofs!ReadBy, Profiles!Readable,
         ProfileProofs!Readable, Profiles!Active, ProfileProofs!Active
<1> QED BY <1>1, ProfilesBegin, ProfilesGoOn, PTL DEF MCSpec, all, NeverReassigned,
           Profiles!NeverReassigned

-----------------------------------------------------------------------------
ActionProofs == INSTANCE WorkspaceActionsProofs WITH rows <- arows, log <- alog

LEMMA SameCounts ==
    /\ \A S : Actions!Cardinality(S) = ActionProofs!Cardinality(S)
    /\ \A S : Actions!IsFiniteSet(S) <=> ActionProofs!IsFiniteSet(S)
BY DEF Actions!Cardinality, ActionProofs!Cardinality, Actions!IsFiniteSet, ActionProofs!IsFiniteSet

LEMMA ActionsBegin == MCInit => ActionProofs!ActionsInv
<1> SUFFICES ASSUME MCInit PROVE ActionProofs!ActionsInv
  OBVIOUS
<1>1. ActionProofs!ConstantsTyped
  BY ActionsAssumption, SameCounts DEF Actions!ConstantsTyped, ActionProofs!ConstantsTyped, Actions!Form,
         ActionProofs!Form, Actions!BeforeTyped, ActionProofs!BeforeTyped, Actions!Row,
         ActionProofs!Row, Actions!Record, ActionProofs!Record, Actions!Kinds,
         ActionProofs!Kinds, Actions!Ids, ActionProofs!Ids
<1>2. ActionProofs!Init
  BY DEF Actions!Init, ActionProofs!Init, Actions!Ids, ActionProofs!Ids, Actions!Keys,
         ActionProofs!Keys, MCInit
<1> QED BY <1>1, <1>2, ActionProofs!ActionsInit

(* The two instances of WorkspaceActions have the same steps.              *)
LEMMA ActionsAlike ==
    /\ Actions!Release => ActionProofs!Release
    /\ \A c \in Clients :
         /\ Actions!PostForm(c) => ActionProofs!PostForm(c)
         /\ Actions!PostAgain(c) => ActionProofs!PostAgain(c)
         /\ Actions!ReadState(c) => ActionProofs!ReadState(c)
         /\ Actions!CheckActivity(c) => ActionProofs!CheckActivity(c)
         /\ Actions!Command(c) => ActionProofs!Command(c)
         /\ Actions!ListWorkspaces(c) => ActionProofs!ListWorkspaces(c)
         /\ Actions!CreateWorkspace(c) => ActionProofs!CreateWorkspace(c)
         /\ Actions!FirstFollow(c) => ActionProofs!FirstFollow(c)
         /\ Actions!ReplyToPerson(c) => ActionProofs!ReplyToPerson(c)
         /\ Actions!StartTool(c) => ActionProofs!StartTool(c)
         /\ Actions!ToolPost(c) => ActionProofs!ToolPost(c)
         /\ Actions!ToolHears(c) => ActionProofs!ToolHears(c)
         /\ Actions!Lose(c) => ActionProofs!Lose(c)
<1>1. ASSUME NEW c \in Clients PROVE Actions!PostForm(c) => ActionProofs!PostForm(c)
  BY SameCounts DEF Actions!PostForm, ActionProofs!PostForm, Actions!Busy, ActionProofs!Busy,
         Actions!Begin, ActionProofs!Begin, Actions!FreshPost, ActionProofs!FreshPost,
         Actions!db, ActionProofs!db, Actions!seen, ActionProofs!seen, Actions!Stamps,
         ActionProofs!Stamps
<1>2. ASSUME NEW c \in Clients PROVE Actions!PostAgain(c) => ActionProofs!PostAgain(c)
  BY DEF Actions!PostAgain, ActionProofs!PostAgain, Actions!Busy, ActionProofs!Busy,
         Actions!Begin, ActionProofs!Begin, Actions!db, ActionProofs!db, Actions!seen,
         ActionProofs!seen, Actions!Stamps, ActionProofs!Stamps
<1>3. ASSUME NEW c \in Clients PROVE Actions!ReadState(c) => ActionProofs!ReadState(c)
  BY DEF Actions!ReadState, ActionProofs!ReadState, Actions!At, ActionProofs!At,
         Actions!Agrees, ActionProofs!Agrees, Actions!FormOf, ActionProofs!FormOf,
         Actions!Checked, ActionProofs!Checked, Actions!Done, ActionProofs!Done,
         Actions!db, ActionProofs!db, Actions!seen, ActionProofs!seen, Actions!Busy,
         ActionProofs!Busy
<1>4. ASSUME NEW c \in Clients PROVE Actions!CheckActivity(c) => ActionProofs!CheckActivity(c)
  BY DEF Actions!CheckActivity, ActionProofs!CheckActivity, Actions!At,
         ActionProofs!At, Actions!Current, ActionProofs!Current, Actions!FormOf,
         ActionProofs!FormOf, Actions!Goto, ActionProofs!Goto, Actions!Done,
         ActionProofs!Done, Actions!db, ActionProofs!db, Actions!seen,
         ActionProofs!seen, Actions!Busy, ActionProofs!Busy, Actions!Present,
         ActionProofs!Present, Actions!About, ActionProofs!About
<1>5. ASSUME NEW c \in Clients PROVE Actions!Command(c) => ActionProofs!Command(c)
  BY SameCounts DEF Actions!Command, ActionProofs!Command, Actions!At, ActionProofs!At,
         Actions!Prior, ActionProofs!Prior, Actions!Done, ActionProofs!Done,
         Actions!KeyOf, ActionProofs!KeyOf, Actions!Root, ActionProofs!Root,
         Actions!Accepted, ActionProofs!Accepted, Actions!FormOf, ActionProofs!FormOf,
         Actions!SetFollow, ActionProofs!SetFollow, Actions!Apply, ActionProofs!Apply,
         Actions!Busy, ActionProofs!Busy, Actions!Present, ActionProofs!Present,
         Actions!About, ActionProofs!About, Actions!Ids, ActionProofs!Ids,
         Actions!Thread, ActionProofs!Thread, Actions!Subject, ActionProofs!Subject,
         Actions!LegalMove, ActionProofs!LegalMove,
         Actions!Written, ActionProofs!Written, Actions!Version, ActionProofs!Version,
         Actions!AnchorWritten, ActionProofs!AnchorWritten, Actions!NextId,
         ActionProofs!NextId, Actions!Table, ActionProofs!Table
<1>6. ASSUME NEW c \in Clients PROVE Actions!ListWorkspaces(c) => ActionProofs!ListWorkspaces(c)
  BY DEF Actions!ListWorkspaces, ActionProofs!ListWorkspaces, Actions!At,
         ActionProofs!At, Actions!Listed, ActionProofs!Listed, Actions!Space,
         ActionProofs!Space, Actions!FormOf, ActionProofs!FormOf, Actions!Done,
         ActionProofs!Done, Actions!Goto, ActionProofs!Goto, Actions!AfterListing,
         ActionProofs!AfterListing, Actions!db, ActionProofs!db, Actions!seen,
         ActionProofs!seen, Actions!Busy, ActionProofs!Busy
<1>7. ASSUME NEW c \in Clients PROVE Actions!CreateWorkspace(c) => ActionProofs!CreateWorkspace(c)
  BY DEF Actions!CreateWorkspace, ActionProofs!CreateWorkspace, Actions!FormOf,
         ActionProofs!FormOf, Actions!At, ActionProofs!At, Actions!Prior,
         ActionProofs!Prior, Actions!KeyOf, ActionProofs!KeyOf, Actions!Root,
         ActionProofs!Root, Actions!Goto, ActionProofs!Goto, Actions!Done,
         ActionProofs!Done, Actions!Space, ActionProofs!Space, Actions!seen,
         ActionProofs!seen, Actions!Busy, ActionProofs!Busy
<1>8. ASSUME NEW c \in Clients PROVE Actions!FirstFollow(c) => ActionProofs!FirstFollow(c)
  BY DEF Actions!FirstFollow, ActionProofs!FirstFollow, Actions!At, ActionProofs!At,
         Actions!Thread, ActionProofs!Thread, Actions!Done, ActionProofs!Done,
         Actions!seen, ActionProofs!seen, Actions!Busy, ActionProofs!Busy,
         Actions!FormOf, ActionProofs!FormOf
<1>9. ASSUME NEW c \in Clients PROVE Actions!ReplyToPerson(c) => ActionProofs!ReplyToPerson(c)
  BY DEF Actions!ReplyToPerson, ActionProofs!ReplyToPerson, Actions!At,
         ActionProofs!At, Actions!FormOf, ActionProofs!FormOf, Actions!Thread,
         ActionProofs!Thread, Actions!Finish, ActionProofs!Finish, Actions!db,
         ActionProofs!db, Actions!Busy, ActionProofs!Busy
<1>10. ASSUME NEW c \in Clients PROVE Actions!StartTool(c) => ActionProofs!StartTool(c)
  BY SameCounts DEF Actions!StartTool, ActionProofs!StartTool, Actions!Busy, ActionProofs!Busy,
         Actions!db, ActionProofs!db, Actions!seen, ActionProofs!seen
<1>11. ASSUME NEW c \in Clients PROVE Actions!ToolPost(c) => ActionProofs!ToolPost(c)
  BY SameCounts DEF Actions!ToolPost, ActionProofs!ToolPost, Actions!Busy, ActionProofs!Busy,
         Actions!Begin, ActionProofs!Begin, Actions!FreshPost, ActionProofs!FreshPost,
         Actions!db, ActionProofs!db, Actions!seen, ActionProofs!seen, Actions!Stamps,
         ActionProofs!Stamps
<1>12. ASSUME NEW c \in Clients PROVE Actions!ToolHears(c) => ActionProofs!ToolHears(c)
  BY DEF Actions!ToolHears, ActionProofs!ToolHears, Actions!At, ActionProofs!At,
         Actions!FormOf, ActionProofs!FormOf, Actions!Rejects, ActionProofs!Rejects,
         Actions!Onward, ActionProofs!Onward, Actions!Finish, ActionProofs!Finish,
         Actions!db, ActionProofs!db, Actions!Busy, ActionProofs!Busy, Actions!Titled,
         ActionProofs!Titled, Actions!Latest, ActionProofs!Latest, Actions!Ids,
         ActionProofs!Ids, Actions!Present, ActionProofs!Present
<1>13. ASSUME NEW c \in Clients PROVE Actions!Lose(c) => ActionProofs!Lose(c)
  BY DEF Actions!Lose, ActionProofs!Lose, Actions!Busy, ActionProofs!Busy,
         Actions!Finish, ActionProofs!Finish, Actions!db, ActionProofs!db,
         Actions!seen, ActionProofs!seen
<1>14. Actions!Release => ActionProofs!Release
  BY SameCounts DEF Actions!Release, ActionProofs!Release, Actions!db, ActionProofs!db,
         Actions!seen, ActionProofs!seen
<1> QED BY <1>1, <1>2, <1>3, <1>4, <1>5, <1>6, <1>7, <1>8, <1>9, <1>10, <1>11, <1>12, <1>13, <1>14

(* A step is a step of the actions, or leaves them alone.                  *)
LEMMA ActionsMove == [MCNext]_all => [ActionProofs!Next]_(ActionProofs!vars)
<1> SUFFICES ASSUME [MCNext]_all PROVE [ActionProofs!Next]_(ActionProofs!vars)
  OBVIOUS
<1>1. CASE UNCHANGED actions
  BY <1>1 DEF actions, ActionProofs!vars
<1>2. CASE ~UNCHANGED actions
  <2>1. MCNext /\ ~OfProfiles /\ ~OfTelemetry
    BY <1>2 DEF all, OfProfiles, OfTelemetry
  <2> QED BY <2>1, ActionsAlike DEF MCNext, ActionProofs!Next
<1> QED BY <1>1, <1>2

LEMMA ActionsGoOn == ActionProofs!ActionsInv /\ [MCNext]_all => ActionProofs!ActionsInv'
BY ActionsMove, ActionProofs!ActionsStep

LEMMA FollowingGoesOn ==
    ActionProofs!ActionsInv /\ ActionProofs!Following /\ [MCNext]_all
      => ActionProofs!Following'
BY ActionsMove, ActionProofs!FollowingStep

(* actions/activity.ts: a mutation lands on the anchor its page showed,    *)
(* and a draft cites evidence of its own anchor, whatever is released      *)
(* between the awaits of its action.                                       *)
THEOREM LandsWherePosted == MCSpec => []AnchorsAgree
<1>1. ActionProofs!ActionsInv => AnchorsAgree
  BY DEF Actions!LandsOnPageAnchor, ActionProofs!LandsOnPageAnchor,
         Actions!DraftsCiteTheirAnchor, ActionProofs!DraftsCiteTheirAnchor,
         Actions!Present, ActionProofs!Present, Actions!Ids, ActionProofs!Ids,
         AnchorsAgree, ActionProofs!ActionsInv
<1> QED BY <1>1, ActionsBegin, ActionsGoOn, PTL DEF MCSpec, all

(* actions/activity.ts: a submit sent again is applied once, and whoever   *)
(* is sent to a workspace follows its Problem, unless he asked not to.     *)
THEOREM SubmittedOnce == MCSpec => []SubmitsLand
<1>1. ActionProofs!ActionsInv /\ ActionProofs!Following => SubmitsLand
  BY ActionProofs!FollowingGives
     DEF Actions!OneSubmitOneChange, ActionProofs!OneSubmitOneChange,
         Actions!OpenedFollows, ActionProofs!OpenedFollows, Actions!Unfollowed,
         ActionProofs!Unfollowed, Actions!Keys, ActionProofs!Keys, SubmitsLand,
         ActionProofs!ActionsInv
<1>2. MCInit => ActionProofs!Following
  BY DEF MCInit, Actions!Init, ActionProofs!Following
<1> QED BY <1>1, <1>2, ActionsBegin, ActionsGoOn, FollowingGoesOn, PTL DEF MCSpec, all

-----------------------------------------------------------------------------
(* A step is a step of the telemetry, or leaves it alone.                  *)
LEMMA TelemetryMoves == [MCNext]_all => [Next]_vars
<1> SUFFICES ASSUME [MCNext]_all PROVE [Next]_vars
  OBVIOUS
<1>1. CASE UNCHANGED telemetry
  BY <1>1 DEF telemetry
<1>2. CASE ~UNCHANGED telemetry
  <2>1. MCNext /\ ~OfProfiles /\ ~OfActions
    BY <1>2 DEF all, OfProfiles, OfActions
  <2> QED BY <2>1 DEF MCNext, Next
<1> QED BY <1>1, <1>2

LEMMA TelemetryGoesOn == TelemetryInv /\ [MCNext]_all => TelemetryInv'
BY TelemetryMoves, TelemetryStep

(* Every table row, request and session of the three keeps its type.       *)
THEOREM ServiceTypes == MCSpec => []TypesOK
<1>1. MCInit => TelemetryInv
  BY TelemetryInit DEF MCInit
<1>2. TelemetryInv => TypeOK
  BY DEF TelemetryInv
<1>3. ActionProofs!ActionsInv => Actions!TypeOK
  <2> SUFFICES ASSUME ActionProofs!TypeOK PROVE Actions!TypeOK
    BY DEF ActionProofs!ActionsInv, ActionProofs!Typed
  <2> QED
    BY DEF Actions!TypeOK, ActionProofs!TypeOK, Actions!Ids, ActionProofs!Ids,
           Actions!Row, ActionProofs!Row, Actions!Keys, ActionProofs!Keys,
           Actions!Posted, ActionProofs!Posted, Actions!Run, ActionProofs!Run,
           Actions!Form, ActionProofs!Form, Actions!Kinds, ActionProofs!Kinds
<1>4. ProfileProofs!ProfilesInv => Profiles!TypeOK
  <2> SUFFICES ASSUME ProfileProofs!TypeOK PROVE Profiles!TypeOK
    BY DEF ProfileProofs!ProfilesInv, ProfileProofs!Typed
  <2> QED
    BY DEF Profiles!TypeOK, ProfileProofs!TypeOK, Profiles!Ids, ProfileProofs!Ids,
           Profiles!Profile, ProfileProofs!Profile, Profiles!HandleRow,
           ProfileProofs!HandleRow, Profiles!Visibilities, ProfileProofs!Visibilities
<1>5. /\ TelemetryInv /\ ActionProofs!ActionsInv /\ ProfileProofs!ProfilesInv
        => TypesOK
  BY <1>2, <1>3, <1>4 DEF TypesOK
<1> QED BY <1>1, <1>5, TelemetryGoesOn, ActionsBegin, ActionsGoOn, ProfilesBegin,
           ProfilesGoOn, PTL DEF MCSpec, all
=============================================================================
