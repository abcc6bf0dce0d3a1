----------------------------- MODULE MCReadFile -----------------------------
(***************************************************************************)
(* Module ReadFile on files of up to two bytes more than the cap.          *)
(***************************************************************************)
EXTENDS ReadFile

MCContents == UNION {[1..n -> Bytes] : n \in 0..Cap + 2}
=============================================================================
