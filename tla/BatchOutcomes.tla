---------------------------- MODULE BatchOutcomes ----------------------------
(***************************************************************************)
(* What a range batch promises, with no memo in sight                      *)
(* (strategies/application/evaluate_range_batch.py): the variants' results *)
(* are streamed in request order, each one what the variant evaluates to   *)
(* alone; a failure the engine knows is that variant's error, any other    *)
(* failure ends the stream.                                                *)
(***************************************************************************)
EXTENDS Naturals, Sequences

CONSTANT Alone(_)   \* "value", "engine" or "other", and where it comes from

VARIABLES variants, outcomes, broken

vars == <<variants, outcomes, broken>>

Init == outcomes = <<>> /\ broken = FALSE

Stream ==
    LET r == Len(outcomes) + 1
    IN  /\ ~ broken /\ r \in DOMAIN variants
        /\ IF Alone(variants[r]).kind = "other"
           THEN broken' = TRUE /\ UNCHANGED outcomes
           ELSE outcomes' = Append(outcomes, Alone(variants[r])) /\ UNCHANGED broken
        /\ UNCHANGED variants

Spec == Init /\ [][Stream]_vars /\ WF_vars(Stream)
=============================================================================
