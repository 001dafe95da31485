----------------------------- MODULE MCSessions -----------------------------
(***************************************************************************)
(* The instance of Sessions for the run on logout: two users, one of them  *)
(* with a second factor, and two calls.                                    *)
(***************************************************************************)
EXTENDS Sessions

CONSTANTS u1, u2

MCUsers == {u1, u2}
MCSecondFactor == {u2}
MCKinds == {"login", "second", "passkey", "use", "logout", "revoke", "revokeAll"}

=============================================================================
