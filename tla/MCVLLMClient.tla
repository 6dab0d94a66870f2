----------------------------- MODULE MCVLLMClient -----------------------------
(***************************************************************************)
(* Every combination of overrides, and streams of up to four lines.        *)
(***************************************************************************)
EXTENDS VLLMClient

MCOverrides == [stream : BOOLEAN, include_usage : BOOLEAN]
=============================================================================
