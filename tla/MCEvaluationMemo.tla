-------------------------- MODULE MCEvaluationMemo --------------------------
(* An instance of EvaluationMemo for TLC: a leaf that succeeds (1), one    *)
(* that fails (2), a composition of both (3), one that uses the leaf twice *)
(* and fails outside the batch's catch boundary (4), a computation without *)
(* an identity (5), and every pair of short variants over them, with       *)
(* predictions that may miss or invent consumptions.                       *)
EXTENDS EvaluationMemo

MCNodes == 1..5
MCChildren == 1 :> <<>> @@ 2 :> <<>> @@ 3 :> <<1, 2>> @@ 4 :> <<1, 1>> @@ 5 :> <<1>>
MCOwn == 1 :> "value" @@ 2 :> "engine" @@ 3 :> "value" @@ 4 :> "other" @@ 5 :> "value"
MCMeaning[n \in MCNodes] ==
    LET c == MCChildren[n]
        bad == {i \in DOMAIN c : MCMeaning[c[i]].kind # "value"}
    IN  IF bad = {} THEN [kind |-> MCOwn[n], node |-> n] ELSE MCMeaning[c[Min(bad)]]

Programs == {<<>>, <<1, 1>>, <<1, 3>>, <<3, 2>>, <<4>>, <<5, 1>>}
MCVariants == [nodes : Programs, valid : {TRUE}] \union {[nodes |-> <<1>>, valid |-> FALSE]}
Predictions == {1 :> a @@ 2 :> b @@ 3 :> c @@ 4 :> d @@ 5 :> 0 :
                   a \in 0..2, b, c, d \in 0..1}
MCBatches ==
    [variants : MCVariants \X MCVariants, memoEnabled : BOOLEAN,
     predicted : Predictions \X Predictions]
=============================================================================
