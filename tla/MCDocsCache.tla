---------------------------- MODULE MCDocsCache ----------------------------
(* Model values and bounds for checking DocsCache with TLC. *)
EXTENDS DocsCache
=============================================================================
