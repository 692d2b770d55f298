---------------------------- MODULE MCDocumentLists -------------------------
(* Three documents on pages of one, and three receipts on pages of two.     *)
EXTENDS DocumentLists

MCKinds == {"po", "so", "gr", "dl", "tr", "ad", "op"}
=============================================================================
