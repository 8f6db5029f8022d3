---------------------------- MODULE MCOnboarding ----------------------------
(***************************************************************************)
(* Small histories of two workers: both sign up, both serve invitations,   *)
(* or one of each.                                                         *)
(***************************************************************************)
EXTENDS Onboarding, TLC

CONSTANTS w1, w2

MCHistories ==
    LET Both(f) == w1 :> f @@ w2 :> f IN
    { \* one signup with a resend; a second signup after the first ended
      [serves |-> Both("signup"), deliveries |-> 2, signups |-> 1, invites |-> 0, claims |-> 0],
      [serves |-> Both("signup"), deliveries |-> 1, signups |-> 2, invites |-> 0, claims |-> 0],
      \* an invitation with a resend; one that is claimed again
      [serves |-> Both("invitation"), deliveries |-> 2, signups |-> 0, invites |-> 1, claims |-> 1],
      [serves |-> Both("invitation"), deliveries |-> 1, signups |-> 0, invites |-> 1, claims |-> 2],
      \* a signup and an invitation
      [serves |-> w1 :> "signup" @@ w2 :> "invitation",
       deliveries |-> 2, signups |-> 1, invites |-> 1, claims |-> 1] }
=============================================================================
