----------------------------- MODULE MCDelivery -----------------------------
(* Instances of Delivery for TLC.                                           *)
EXTENDS Delivery

\* Nothing is promised of a message once another contact has a copy: what
\* comes after its acknowledgement has been taken, or when the recipient has
\* the message or the user has deleted it, is not looked at.
Bounded ==
    \A m \in Misdelivered :
        m \notin misfiled \cup stored \cup deleted /\ messages[m] \in {"pending", "sent"}
=============================================================================
