----------------------------- MODULE MCLruCache -----------------------------
(* The instance of LruCache that TLC checks. *)
EXTENDS LruCache
=============================================================================
