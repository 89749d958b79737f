----------------------------- MODULE MCProvisioning -----------------------------
(* Two sessions at a time, four in all, over one cache.                    *)
EXTENDS Provisioning, TLC

MCSymmetry == Permutations(Sessions)
================================================================================
