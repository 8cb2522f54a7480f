-------------------------- MODULE MCPurchaseContracts --------------------------
(* PurchaseContracts for TLC. *)
EXTENDS PurchaseContracts

\* create with and without a header change, never with both that and a purchase date
PlainHeaders == {<<TRUE, FALSE>>, <<FALSE, TRUE>>}

ChangedHeader == {<<TRUE, FALSE>>}

DatedHeader == {<<TRUE, TRUE>>}

=============================================================================
