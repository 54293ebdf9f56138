--------------------------- MODULE MCRetentionRules ---------------------------
(* RetentionRules over every archive of three recordings and two rules.     *)
EXTENDS RetentionRules

ThreeLimits == {-1, 2, 3}
=============================================================================
