---------------------------- MODULE MCDocumentPages ----------------------------
(***************************************************************************)
(* The document pages on a document, or a source order, of two lines: one  *)
(* of a product in the picker list, one of a product that was archived     *)
(* since.  The user may add a third.                                       *)
(***************************************************************************)
EXTENDS DocumentPages

CONSTANTS tile, grout, trim

MCProduct == {tile, grout, trim}
MCListed  == {tile, trim}
MCSaved   == {tile, grout}
=============================================================================
