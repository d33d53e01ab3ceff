------------------------------ MODULE MCDiscord -----------------------------
(* Small instances of Discord for TLC.                                      *)
EXTENDS Discord, TLC

MCSymmetry ==
  Permutations(Org) \cup Permutations(User) \cup Permutations(Guild)
    \cup Permutations(Account) \cup Permutations(Flow) \cup Permutations(Command)
=============================================================================
