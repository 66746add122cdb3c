----------------------------- MODULE MCHotPatch -----------------------------
(***************************************************************************)
(* A small instance of HotPatch for TLC: a patch and the file that undoes  *)
(* it, whose name contains the patch's.                                    *)
(***************************************************************************)
EXTENDS HotPatch, TLC

TwoNames    == {"fix", "fix_rst"}
TwoUndoes   == "fix_rst" :> "fix"
TwoContains == {<<n, n>> : n \in TwoNames} \cup {<<"fix", "fix_rst">>}

=============================================================================
