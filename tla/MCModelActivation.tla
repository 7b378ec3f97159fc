-------------------------- MODULE MCModelActivation --------------------------
(* Small instances of ModelActivation. *)
EXTENDS ModelActivation, TLC

CONSTANTS c1, c2, env, m1, m2, s1, s2, r1, r2

OneStored == {c1}
TwoStored == {c1, c2}
StoredAndEnv == {c1, env}
JustEnv == {env}
NoEnv == {}
OneModel == {m1}
TwoModels == {m1, m2}
OneSession == {s1}
TwoSessions == {s1, s2}
OneRequest == {r1}
TwoRequests == {r1, r2}
NoLogin == {"edit", "remove", "replace"}
EditRemove == {"edit", "remove"}
RemoveLogin == {"remove", "login"}
=============================================================================
