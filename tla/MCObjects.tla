------------------------------- MODULE MCObjects -------------------------------
(* Model-checking references and packages: one is used, the other rests.    *)
EXTENDS SvRefs, Mro

CONSTANTS A, B, C

VARIABLE used

MCIsas ==
  (A :> {<<>>, <<B>>}) @@ (B :> {<<>>, <<A>>})
    @@ (C :> {<<>>, <<A>>, <<B>>, <<A, B>>}) @@ (UNIVERSAL :> {<<A>>})

\* Packages are told apart by MCIsas.
Symmetry == Permutations(Obj) \cup Permutations(Var) \cup Permutations(Class)

MCInit == used \in {"references", "packages"} /\ SvInit /\ MroInit

MCNext ==
  \/ used = "references" /\ SvNext /\ UNCHANGED <<used, mro_vars>>
  \/ used = "packages" /\ MroNext /\ UNCHANGED <<used, heap>>

MCSpec == MCInit /\ [][MCNext]_<<used, heap, mro_vars>>

\* The variables of values and of packages keep their types.
TypesOK == SvTypeOK /\ MroTypeOK

=============================================================================
