------------------------------ MODULE SingleUse ------------------------------
(***************************************************************************)
(* What a single-use token promises, whatever keeps it: it is good until   *)
(* it is used, replaced, expired or answered wrongly too often, and it is  *)
(* used at most once.  Tokens do not disturb each other, and several may   *)
(* move in one step (issuing one may end the others).                      *)
(***************************************************************************)
EXTENDS Integers

CONSTANTS
  Token,
  MaxWrong       \* wrong answers that end a token

VARIABLES
  state,         \* of each token: "none", "live" or "over"
  uses,          \* how often it was used
  wrong          \* the wrong answers counted for it

vars == <<state, uses, wrong>>

(* Some may have been issued before.                                        *)
Init ==
  /\ state \in [Token -> {"none", "live"}]
  /\ uses = [t \in Token |-> 0]
  /\ wrong = [t \in Token |-> 0]

Issue(t) ==
  /\ state[t] = "none" /\ state'[t] = "live"
  /\ uses'[t] = uses[t] /\ wrong'[t] = wrong[t]

Use(t) ==
  /\ state[t] = "live" /\ state'[t] = "over"
  /\ uses'[t] = uses[t] + 1 /\ wrong'[t] = wrong[t]

End(t) ==
  /\ state[t] = "live" /\ state'[t] = "over"
  /\ uses'[t] = uses[t] /\ wrong'[t] = wrong[t]

Miss(t) ==
  /\ state[t] = "live" /\ wrong'[t] = wrong[t] + 1
  /\ state'[t] = IF wrong'[t] = MaxWrong THEN "over" ELSE "live"
  /\ uses'[t] = uses[t]

Keep(t) == state'[t] = state[t] /\ uses'[t] = uses[t] /\ wrong'[t] = wrong[t]

Next == \A t \in Token : Keep(t) \/ Issue(t) \/ Use(t) \/ End(t) \/ Miss(t)

Spec == Init /\ [][Next]_vars
=============================================================================
