------------------------ MODULE MCActivityVersions ------------------------
(* Two members of one workspace build a thread (an approach, its fork, an  *)
(* attempt, discussion, a draft) and update the same attempt and draft     *)
(* from overlapping calls with right, old and future versions.             *)
EXTENDS ActivityCommands, TLC

CONSTANTS alice, bob, lab, erdos, moser, c1, c2, s1, s2,
          k1, k2, k3, k4, k5

Blank ==
    [account |-> alice, ws |-> lab, key |-> k1, kind |-> "approach.create",
     anchor |-> None, approach |-> 0, attempt |-> 0, draft |-> 0,
     value |-> c1, expected |-> 0]

Update(account, key, state, expected) ==
    [Blank EXCEPT !.account = account, !.key = key, !.kind = "attempt.update",
                  !.attempt = 2, !.value = state, !.expected = expected]

Draft(account, key, id, anchor, value, expected) ==
    [Blank EXCEPT !.account = account, !.key = key,
                  !.kind = "submission_draft.save", !.draft = id,
                  !.anchor = anchor, !.value = value, !.expected = expected]

MCGranted == {<<alice, lab>>, <<bob, lab>>}

MCRequests ==
    {[Blank EXCEPT !.anchor = erdos],
     [Blank EXCEPT !.key = k2, !.kind = "attempt.create", !.approach = 1],
     [Blank EXCEPT !.account = bob, !.key = k3, !.kind = "approach.fork",
                   !.approach = 1, !.expected = 1],
     [Blank EXCEPT !.key = k4, !.kind = "discussion.add", !.anchor = erdos,
                   !.approach = 3, !.attempt = 2],
     [Blank EXCEPT !.account = bob, !.key = k5, !.kind = "artifact.attach",
                   !.anchor = erdos, !.attempt = 2],
     Update(alice, k3, "running", 1),
     Update(bob, k4, "abandoned", 1),
     Update(alice, k5, "running", 2),
     Draft(bob, k1, 0, erdos, c1, 0),
     Draft(bob, k2, 1, erdos, c2, 1),
     Draft(alice, k2, 1, erdos, c1, 1),
     Draft(alice, k4, 1, moser, c1, 2)}

(* The first call makes the row the others are about.                      *)
Makes(r) ==
    r.kind \in {"approach.create", "submission_draft.save"} /\ r.expected = 0

MakesFirst ==
    calls = 0 /\ calls' = 1 =>
      \A s \in Sessions : pc'[s] # "idle" => Makes(req'[s])

SessionSymmetry == Permutations(Sessions)
=============================================================================
