--------------------------- MODULE MCInvitations ---------------------------
(***************************************************************************)
(* Small instances of Invitations: one workspace, the invited address and  *)
(* another one, invitations made by r1 and r2 and used by any request.     *)
(***************************************************************************)
EXTENDS Invitations, TLC

CONSTANTS r1, r2, r3, r4, office, guest, other

MCWorkspaces == {office}
MCEmails == {guest, other}

InviteGuest == [kind |-> "invite", ws |-> office, email |-> guest]

\* Everything that can happen to the invitation of r1.
MCCalls ==
    {InviteGuest}
      \cup [kind: {"get", "cancel", "resend"}, id: {r1}]
      \cup [kind: {"accept", "register"}, id: {r1}, email: MCEmails]

=============================================================================
