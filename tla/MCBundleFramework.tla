------------------------ MODULE MCBundleFramework ------------------------
(* Constants for model checking BundleFramework.                           *)
EXTENDS BundleFramework, TLC

CONSTANTS l1, l2, l3

Bundles2 == {l1, l2}
Bundles3 == {l1, l2, l3}
OnePacked == {l1}

Symmetry2 == Permutations(Bundles2)
OnDemandSymmetry == Permutations({l2, l3})

\* Bound for the runs whose properties say nothing once an id was reused: with one APK
\* version the storage is never purged again after that, so no later state is of interest.
BeforeReuse == ~reusedIds

=============================================================================
