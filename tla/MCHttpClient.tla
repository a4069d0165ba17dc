---------------------------- MODULE MCHttpClient ----------------------------
(***************************************************************************)
(* An instance of HttpClient: crt.sh asked by two connectors' tasks for    *)
(* the same page, with one retry.                                          *)
(***************************************************************************)
EXTENDS HttpClient

MCUrlOf == [c \in Caller |-> "page"]

MCHostOf == [u \in Url |-> "crtsh"]

MCMaxAttempts == [h \in Host |-> 2]
=============================================================================
