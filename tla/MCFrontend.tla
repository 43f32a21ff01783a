----------------------------- MODULE MCFrontend -----------------------------
(* Two clients, uids 0 and 1.                                              *)
EXTENDS Frontend

MCReq == {0, 1}
=============================================================================
