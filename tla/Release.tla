------------------------------ MODULE Release ------------------------------
(***************************************************************************)
(* What a staged release promises to the people who run it, as seen in the *)
(* annotations of the owning object: a release starts at stage 0, enters   *)
(* its stages one at a time, never while it is paused or short of an       *)
(* approval, is promoted once, and a rollback of its revision stays until  *)
(* a newer release replaces it.                                            *)
(***************************************************************************)
EXTENDS Rollout

VARIABLES
    key,        \* <<uid, policy>> of the object
    progress,   \* the published progress of that policy
    rolledBack  \* its revision is recorded as rolled back

vars == <<key, progress, rolledBack>>

Newer(k, l) == k[1] > l[1] \/ (k[1] = l[1] /\ k[2] > l[2])

Init ==
    /\ key \in Nat \X (Nat \ {0})
    /\ progress = DefaultProgress
    /\ rolledBack = FALSE

\* The operator applies a newer policy, or recreates the object.
Publish ==
    /\ key' \in Nat \X (Nat \ {0})
    /\ Newer(key', key)
    /\ progress' = DefaultProgress
    /\ rolledBack' = FALSE

Begin ==
    /\ progress = DefaultProgress
    /\ progress'.started # 0
    /\ progress' = Initial(key[2], progress'.started)
    /\ UNCHANGED <<key, rolledBack>>

Advance ==
    /\ progress.started # 0
    /\ ~progress.paused
    /\ ~progress.promoted
    /\ Steps[progress.stage + 1].approval => progress.approved = progress.stage
    /\ progress'.started # 0
    /\ progress' = Advanced(progress, progress'.started)
    /\ UNCHANGED <<key, rolledBack>>

\* A command acts on the published progress, or on a fresh one.
Current(t) == IF progress = DefaultProgress THEN Initial(key[2], t) ELSE progress

\* The progress it leaves has a start time.
Commanded(g) == ~progress.promoted /\ progress'.started # 0 /\ progress' = g

Pause ==
    /\ Commanded([Current(progress'.started) EXCEPT !.paused = TRUE])
    /\ UNCHANGED <<key, rolledBack>>

Resume ==
    /\ Commanded([Current(progress'.started) EXCEPT
                    !.paused = FALSE, !.started = progress'.started])
    /\ UNCHANGED <<key, rolledBack>>

Approve ==
    /\ Commanded([Current(progress'.started) EXCEPT !.approved = progress'.stage])
    /\ UNCHANGED <<key, rolledBack>>

RollBack ==
    /\ rolledBack' = TRUE
    /\ UNCHANGED <<key, progress>>

Next ==
    \/ Publish
    \/ Begin
    \/ Advance
    \/ Pause
    \/ Resume
    \/ Approve
    \/ RollBack

Spec == Init /\ [][Next]_vars
=============================================================================
