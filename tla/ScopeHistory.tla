----------------------------- MODULE ScopeHistory -----------------------------
(***************************************************************************)
(* What the scope tables promise: every scope is an anchor that is never   *)
(* deleted, with an append-only list of definitions.  Version n is the     *)
(* n-th definition for ever, so that (scope_id, version) in the provenance *)
(* of an analysis names one definition (ARCH-28).                          *)
(***************************************************************************)
EXTENDS Naturals, Sequences

CONSTANTS
  Scope,
  MaxInserts    \* bound on the definitions that are ever inserted

VARIABLE history    \* the scopes that exist, each with its definitions

Stamps == 1..MaxInserts

Recorded == UNION {{history[c][v] : v \in 1..Len(history[c])} : c \in DOMAIN history}

Init == history = [c \in {} |-> <<>>]

IsExtension(older, newer) ==
  /\ Len(older) <= Len(newer)
  /\ \A v \in 1..Len(older) : newer[v] = older[v]

\* A transaction commits the scopes and the definitions it created: scopes
\* appear, histories grow at their end by definitions no scope had before.
CommitTransaction ==
  /\ DOMAIN history' \in SUBSET Scope
  /\ DOMAIN history \subseteq DOMAIN history'
  /\ \A c \in DOMAIN history : IsExtension(history[c], history'[c])
  /\ \A c \in DOMAIN history' :
       LET known == IF c \in DOMAIN history THEN Len(history[c]) ELSE 0
       IN  \A v \in known + 1..Len(history'[c]) :
             /\ history'[c][v] \in Stamps \ Recorded
             /\ \A d \in DOMAIN history' : \A w \in 1..Len(history'[d]) :
                  history'[c][v] = history'[d][w] => d = c /\ w = v

Spec == Init /\ [][CommitTransaction]_history
=============================================================================
