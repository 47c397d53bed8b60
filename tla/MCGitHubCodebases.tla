------------------------- MODULE MCGitHubCodebases -------------------------
(* One installation that two accounts' GitHub identity made, one           *)
(* repository, two commits.                                                *)
EXTENDS GitHubCodebases, TLC

CONSTANTS a1, a2, q1, q2, i1, r1, c1, c2

MCInstallers == i1 :> {a1, a2}

Symmetric == Permutations(Requests) \cup Permutations(Accounts)
                \cup Permutations(Commits)
=============================================================================
