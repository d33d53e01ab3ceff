------------------------------- MODULE MCMods --------------------------------
(* Mods with two mods and a library: A, whose second version has the file   *)
(* name of its first and requires B; B, whose second version has a name of  *)
(* its own and, in its metadata only, requires C; and C, which requires A.  *)
EXTENDS Mods, TLC

CONSTANTS s1, s2, a, b, b2, c, A1, A2, B1, B2, C1, A, B, C

MCSlots == {s1, s2}
MCNames == {a, b, b2, c}
MCProjects == {A, B, C}
MCVersions == {A1, A2, B1, B2, C1}
MCProject == A1 :> A @@ A2 :> A @@ B1 :> B @@ B2 :> B @@ C1 :> C
MCFile == A1 :> a @@ A2 :> a @@ B1 :> b @@ B2 :> b2 @@ C1 :> c
MCDeps == A1 :> {} @@ A2 :> {B} @@ B1 :> {} @@ B2 :> {} @@ C1 :> {A}
MCNeeds == A1 :> {} @@ A2 :> {} @@ B1 :> {} @@ B2 :> {C} @@ C1 :> {}
MCLatest == A :> A2 @@ B :> B2 @@ C :> C1

(* Nothing; older versions of A and B.  The file manager names two files.   *)
MCInitial == {[n \in MCNames |-> None], a :> A1 @@ b :> B1 @@ b2 :> None @@ c :> None}
MCSelections == {{a, b2}}
MCSymmetry == Permutations(MCSlots)
==============================================================================
