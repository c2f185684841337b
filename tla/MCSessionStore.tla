--------------------------- MODULE MCSessionStore ---------------------------
(***************************************************************************)
(* SessionStore with two uploads, one of which may not be serializable.    *)
(***************************************************************************)
EXTENDS SessionStore

CONSTANTS vans, shifts, nobody

=============================================================================
