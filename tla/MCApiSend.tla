----------------------------- MODULE MCApiSend -----------------------------
(***************************************************************************)
(* Instances of ApiSend for TLC.                                           *)
(***************************************************************************)
EXTENDS ApiSend, TLC

\* Posters are interchangeable, and so are texts.
Symmetric == Permutations(Posters) \cup Permutations(Texts)
=============================================================================
