-------------------------- MODULE SubscriptionSlot --------------------------
(***************************************************************************)
(* What the threads of a Broadcast find in subscription_, whatever objects *)
(* and connections are behind it: how far its present subscription has     *)
(* got.  Broadcast.tla moves it so, and so does StageSubscription.tla with *)
(* the objects and connections themselves.                                 *)
(***************************************************************************)

VARIABLE subscription

Init == subscription = "null"

\* setupSubscription, first half: a new subscription takes the place of none or
\* of one that has been reported as ended.
Assign == subscription \in {"null", "ended"} /\ subscription' = "fresh"

\* Its second half, connect().
Connect == subscription = "fresh" /\ subscription' = "connecting"

Open == subscription = "connecting" /\ subscription' = "open"

\* After an expired credential the same subscription connects again, and closes
\* the connection it had.
Reconnect == subscription = "open" /\ subscription' = "connecting"

\* Its ended handler is called: its connection has failed or was closed, or the
\* one it had before a refresh was.
End == subscription \in {"connecting", "open"} /\ subscription' = "ended"

\* stop() or ~Broadcast
Reset == subscription' = "null"

Next == Assign \/ Connect \/ Open \/ Reconnect \/ End \/ Reset

Spec == Init /\ [][Next]_subscription
=============================================================================
