---------------------------- MODULE MCHttpClient ----------------------------
(* One request with two retries: a first, a middle and a last attempt.     *)
EXTENDS HttpClient
=============================================================================
