----------------------------- MODULE LedContract -----------------------------
(***************************************************************************)
(* What the sensor promises the client of its LED characteristic: a write  *)
(* changes the value, a subscribed client is due a notification of every   *)
(* change, several changes may share one, and a notification carries the   *)
(* value of the moment it is sent.  Sensor and RelayGatt implement it.     *)
(***************************************************************************)
CONSTANTS Leds, NULL

VARIABLES
    value,       \* the state of the LED
    subscribed,  \* the client subscribed to it
    due,         \* a notification is owed to the client
    sent         \* the last value notified on this subscription, NULL at first

contractVars == <<value, subscribed, due, sent>>

ContractInit ==
    /\ value \in Leds
    /\ subscribed = FALSE
    /\ due = FALSE
    /\ sent = NULL

Change(v) ==
    /\ value' = v
    /\ due' = (due \/ subscribed)
    /\ UNCHANGED <<subscribed, sent>>

Follow ==
    /\ subscribed' = TRUE
    /\ UNCHANGED <<value, due, sent>>

Notify ==
    /\ subscribed /\ due
    /\ due' = FALSE
    /\ sent' = value
    /\ UNCHANGED <<value, subscribed>>

\* The client unsubscribes or is lost; a sensor that restarts, or another one,
\* may have any value.
Leave ==
    /\ subscribed' = FALSE
    /\ due' = FALSE
    /\ sent' = NULL
    /\ value' \in Leds

ContractNext == Follow \/ Notify \/ Leave \/ \E v \in Leds : Change(v)

ContractSpec == ContractInit /\ [][ContractNext]_contractVars

\* A client that was notified knows the value, or is due a notification.
ClientCurrent == sent # NULL => sent = value \/ due

=============================================================================
