--------------------------- MODULE MCConsumidores ---------------------------
(***************************************************************************)
(* Consumidores for TLC.  Payloads play no part in the loop, so one is     *)
(* enough; the streams are long enough for two batches and for the trim to *)
(* pass the group's cursor.                                                *)
(***************************************************************************)
EXTENDS Consumidores
=============================================================================
