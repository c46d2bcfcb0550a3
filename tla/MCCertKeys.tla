----------------------------- MODULE MCCertKeys ------------------------------
(* Two submissions; a first key, one lost to a torn file, one more. *)
EXTENDS CertKeys

CONSTANTS s1, s2

MCSubmissions == {s1, s2}
=============================================================================
