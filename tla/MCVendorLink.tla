---------------------------- MODULE MCVendorLink ----------------------------
(* Model-checking instances of VendorLink. *)
EXTENDS VendorLink, TLC

CONSTANTS r1, r2

\* The second replica runs ahead of the vendor's clock.
OneAhead == (r1 :> 0) @@ (r2 :> 1)
=============================================================================
