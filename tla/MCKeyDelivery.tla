--------------------------- MODULE MCKeyDelivery ---------------------------
(* Physical keys are broadcast to two clients while the focus changes.     *)
EXTENDS KeyDelivery, TLC

CONSTANTS p1, p2, ctrl, key

NoJobs   == <<>>
Invite   == <<{ctrl, key}>>
OnlyBoth == {{p1, p2}}
NoFilter == {{}}
=============================================================================
