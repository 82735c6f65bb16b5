---------------------------- MODULE MCVoiceCall ----------------------------
(* Small instances of VoiceCall: two callers, and INVITEs of which one     *)
(* carries the number of the first and the other no number that is known.  *)
EXTENDS VoiceCall, TLC

CONSTANTS c1, i1
OneMatches == {<<c1, i1>>}
=============================================================================
