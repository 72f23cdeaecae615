--------------------------- MODULE GenerationStore ---------------------------
(***************************************************************************)
(* What the refresh transaction promises to the frontends of a project:    *)
(* an index generation is replaced as a whole or not at all, only while no *)
(* query is bound to it, and a query is bound to the generation that is    *)
(* published when it starts.                                               *)
(***************************************************************************)
EXTENDS Naturals

CONSTANTS Proc, Unbound

VARIABLES
  gen,    \* the published generation, 0 when the project is not indexed
  open,   \* queries are admitted
  bound   \* bound[p]: the generation the query of p answers from

vars == <<gen, open, bound>>

Init ==
  /\ gen \in {0, 1}
  /\ open = TRUE
  /\ bound = [p \in Proc |-> Unbound]

NoQuery == \A p \in Proc : bound[p] = Unbound

\* A refresh becomes durable: until it is settled nobody is admitted.
Prepare ==
  /\ open /\ NoQuery
  /\ open' = FALSE
  /\ UNCHANGED <<gen, bound>>

\* The refresh is settled: the old generation again, or a later one.
Settle ==
  /\ ~open /\ NoQuery
  /\ open' = TRUE
  /\ gen' \in Nat /\ gen' >= gen
  /\ UNCHANGED bound

Bind(p) ==
  /\ open
  /\ bound[p] = Unbound
  /\ bound' = [bound EXCEPT ![p] = gen]
  /\ UNCHANGED <<gen, open>>

Release(p) ==
  /\ bound[p] # Unbound
  /\ bound' = [bound EXCEPT ![p] = Unbound]
  /\ UNCHANGED <<gen, open>>

Next == Prepare \/ Settle \/ \E p \in Proc : Bind(p) \/ Release(p)

Spec == Init /\ [][Next]_vars
=============================================================================
