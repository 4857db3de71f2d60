--------------------------- MODULE RoundLifecycle ---------------------------
(***************************************************************************)
(* What the ledger promises of federated rounds, without contract storage, *)
(* roles or proofs.  A round collects contributions until it is sealed;    *)
(* a sealed round either publishes an aggregate of some of the             *)
(* contributions it admitted, once, or is abandoned.  No contribution      *)
(* counts in two rounds.                                                   *)
(***************************************************************************)
CONSTANTS Round, Contribution

VARIABLES
  phase,      \* phase[r]: where round r stands
  admitted,   \* admitted[r]: contributions that may enter the aggregate of r
  aggregate   \* aggregate[r]: contributions the published aggregate of r uses

lifecycleVars == <<phase, admitted, aggregate>>

Phase == {"idle", "collecting", "sealed", "published", "abandoned"}

Init ==
  /\ phase = [r \in Round |-> "idle"]
  /\ admitted = [r \in Round |-> {}]
  /\ aggregate = [r \in Round |-> {}]

Move(r, from, to) ==
  /\ phase[r] = from
  /\ phase' = [phase EXCEPT ![r] = to]

Begin(r) == Move(r, "idle", "collecting") /\ UNCHANGED <<admitted, aggregate>>

Seal(r) == Move(r, "collecting", "sealed") /\ UNCHANGED <<admitted, aggregate>>

Abandon(r) == Move(r, "sealed", "abandoned") /\ UNCHANGED <<admitted, aggregate>>

Admit(r, c) ==
  /\ phase[r] = "collecting"
  /\ \A s \in Round : c \notin admitted[s]
  /\ admitted' = [admitted EXCEPT ![r] = @ \cup {c}]
  /\ UNCHANGED <<phase, aggregate>>

Publish(r, S) ==
  /\ Move(r, "sealed", "published")
  /\ S # {} /\ S \subseteq admitted[r]
  /\ aggregate' = [aggregate EXCEPT ![r] = S]
  /\ UNCHANGED admitted

Next ==
  \E r \in Round :
    \/ Begin(r)
    \/ Seal(r)
    \/ Abandon(r)
    \/ \E c \in Contribution : Admit(r, c)
    \/ \E S \in SUBSET Contribution : Publish(r, S)

Spec == Init /\ [][Next]_lifecycleVars
=============================================================================
