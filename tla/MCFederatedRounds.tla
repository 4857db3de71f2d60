---------------------------- MODULE MCFederatedRounds ----------------------------
(***************************************************************************)
(* Instance of FederatedRounds for TLC: two rounds of every method with    *)
(* three or four clients, every attack, invalid clients, more or fewer     *)
(* attackers than honest clients, and policies that raise for an undefined *)
(* metric.                                                                 *)
(***************************************************************************)
EXTENDS FederatedRounds

Execution(method, attack, malicious, valid, remote, trains) ==
  [method |-> method, attack |-> attack, malicious |-> malicious, valid |-> valid,
   sizes |-> [c \in 1 .. 3 |-> IF c = 2 THEN 2 ELSE 1], remote |-> remote, trains |-> trains,
   undefined |-> "reject"]

\* The same execution under a policy that raises for undefined metrics.
Strict(execution) == [execution EXCEPT !.undefined = "error"]

All == {1, 2, 3}
MCSetup ==
  {Execution("B0", "none", {}, All, FALSE, {-1, 0, 3}),
   Execution("B0", "none", {}, {}, FALSE, {1}),
   Execution("B1", "sign_flip", {1, 2}, All, FALSE, {1, 3}),
   Execution("B2", "label_flip", {1}, {1, 2}, TRUE, {1, 3}),
   Execution("B2", "none", {}, {}, FALSE, {1}),
   Execution("B3", "none", {}, {1, 3}, TRUE, {-1, 2}),
   Strict(Execution("B4", "random_weights", {3}, All, FALSE, {0, 1})),
   Strict(Execution("B5", "none", {}, {1, 2}, FALSE, {0, 3})),
   Execution("B5", "sign_flip", {2}, {2, 3}, TRUE, {1}),
   Execution("B6", "sign_flip", {1}, All, FALSE, {-1, 1, 2}),
   Execution("B6", "random_weights", {1, 3}, All, FALSE, {0, 2}),
   [Execution("B6", "random_weights", {4}, {1, 2, 3, 4}, FALSE, {-1, 2})
      EXCEPT !.sizes = [c \in 1 .. 4 |-> 1]],
   Execution("B7", "sign_flip", {2}, All, TRUE, {1, 2})}

Rates(unprivileged, privileged, accuracy, comparable) ==
  [tpr |-> [group \in {"unprivileged", "privileged"} |->
              IF group = "privileged" THEN privileged ELSE unprivileged],
   accuracy |-> accuracy, comparable |-> comparable]
MCEvaluation ==
  {Rates(Rate(1, 2), Rate(1, 1), Rate(3, 4), TRUE),
   Rates(Rate(0, 1), Rate(1, 1), Rate(1, 2), TRUE),
   Rates(Rate(2, 2), Rate(0, 1), Rate(2, 3), TRUE),
   Rates(Rate(0, 0), Rate(1, 1), Rate(1, 3), FALSE)}
MCBeta == Rate(3, 2)
=============================================================================
