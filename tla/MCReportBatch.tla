----------------------------- MODULE MCReportBatch ------------------------------
(***************************************************************************)
(* Four communities in two chunks for two workers; the second community   *)
(* is extractive.                                                          *)
(***************************************************************************)
EXTENDS ReportBatch

MCExtractive == {2}
================================================================================
