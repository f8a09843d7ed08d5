-------------------------------- MODULE Push --------------------------------
(***************************************************************************)
(* Push notifications of one user's browser: the banner in each of his     *)
(* tabs that subscribes the browser and registers the subscription with    *)
(* the server, and the hub's fan-out of governance events to the           *)
(* registered rows, which deletes those the push service calls gone.       *)
(* The push service and the browser's push manager are external.           *)
(***************************************************************************)
EXTENDS Naturals, FiniteSets

CONSTANTS
    Windows,
    Sends,       \* notifications the hub ever fans out
    Endpoints,   \* subscriptions the push service ever hands out
    NoEndpoint

ASSUME PushAssumption == NoEndpoint \notin Endpoints

VARIABLES
    permission,    \* Notification.permission
    preference,    \* is preferences.browserNotifications 'on'
    subscription,  \* what the browser's push manager holds
    used,          \* endpoints handed out so far
    rows,          \* endpoints in push_subscriptions, one row each by its index
    posted,        \* endpoints whose registration is on its way
    lost,          \* history: endpoints of which a registration was lost
    banner,        \* per tab: "hidden", "shown", "asking" or "registering"
    notify         \* per notification: which rows were read and not settled

pushVars ==
    <<permission, preference, subscription, used, rows, posted, lost, banner, notify>>
browser == <<permission, preference, subscription, used>>
server == <<rows, posted, lost, notify>>

PushInit ==
    /\ permission = "default" /\ preference = FALSE
    /\ subscription = NoEndpoint /\ used = {} /\ rows = {}
    /\ posted = {} /\ lost = {}
    /\ banner = [t \in Windows |-> "hidden"]
    /\ notify = [n \in Sends |-> [at |-> "idle", left |-> {}]]

-----------------------------------------------------------------------------
(* The banner.                                                              *)

\* Settings switches the preference; a banner that shows is not taken back.
SwitchPreference ==
    /\ preference' = ~preference
    /\ UNCHANGED <<permission, subscription, used, banner, server>>

\* The effect at mount and at every change of the preference.
CheckSubscribed(t) ==
    /\ preference /\ subscription = NoEndpoint /\ permission # "denied"
    /\ banner[t] = "hidden"
    /\ banner' = [banner EXCEPT ![t] = "shown"]
    /\ UNCHANGED <<browser, server>>

\* Enable: subscribeToPush asks for the permission.
ClickEnable(t) ==
    /\ banner[t] = "shown"
    /\ banner' = [banner EXCEPT ![t] = "asking"]
    /\ UNCHANGED <<browser, server>>

\* A refusal returns false, which leaves the banner as it is.
PermissionRefused(t) ==
    /\ banner[t] = "asking" /\ permission # "granted"
    /\ permission' = "denied"
    /\ banner' = [banner EXCEPT ![t] = "shown"]
    /\ UNCHANGED <<preference, subscription, used, server>>

\* Granted: a subscription the browser holds is registered again (another tab
\* may have made it), else a new one is made and registered.
Subscribe(t) ==
    /\ banner[t] = "asking" /\ permission # "denied"
    /\ permission' = "granted"
    /\ \E e \in Endpoints :
          /\ IF subscription = NoEndpoint THEN e \notin used ELSE e = subscription
          /\ subscription' = e
          /\ used' = used \cup {e}
          /\ posted' = posted \cup {e}
    /\ banner' = [banner EXCEPT ![t] = "registering"]
    /\ UNCHANGED <<preference, rows, lost, notify>>

\* The push manager fails, or the registration is answered, well or not: the
\* banner is hidden.
EnableSettles(t) ==
    /\ \/ banner[t] = "asking" /\ permission # "denied" /\ permission' = "granted"
       \/ banner[t] = "registering" /\ UNCHANGED permission
    /\ banner' = [banner EXCEPT ![t] = "hidden"]
    /\ UNCHANGED <<preference, subscription, used, server>>

ReloadTab(t) ==
    /\ banner[t] # "hidden"
    /\ banner' = [banner EXCEPT ![t] = "hidden"]
    /\ UNCHANGED <<browser, server>>

\* The push service ends a subscription; nothing listens for that.
ExpireSubscription ==
    /\ subscription # NoEndpoint
    /\ subscription' = NoEndpoint
    /\ UNCHANGED <<permission, preference, used, banner, server>>

\* The subscribe route: an insert that does nothing when the row is there.
StoreSubscription(e) ==
    /\ e \in posted
    /\ rows' = rows \cup {e}
    /\ posted' = posted \ {e}
    /\ UNCHANGED <<browser, banner, lost, notify>>

\* The request or the statement fails.
LoseRegistration(e) ==
    /\ e \in posted
    /\ posted' = posted \ {e}
    /\ lost' = lost \cup {e}
    /\ UNCHANGED <<browser, banner, rows, notify>>

-----------------------------------------------------------------------------
(* The hub.                                                                 *)

\* persistAndPublish triggers it without waiting, for plans and questions.
ReadSubscriptions(n) ==
    /\ notify[n].at = "idle"
    /\ notify' = [notify EXCEPT ![n] = [at |-> "sending", left |-> rows]]
    /\ UNCHANGED <<browser, rows, posted, lost, banner>>

\* Delivered, or failed with anything but 410.
SendSettles(n) ==
    \E e \in notify[n].left :
       /\ notify' = [notify EXCEPT ![n].left = @ \ {e}]
       /\ UNCHANGED <<browser, rows, posted, lost, banner>>

\* Variant: the rows of the user go.
DeleteUsersRows(n) ==
    \E e \in notify[n].left :
       /\ e # subscription
       /\ rows' = {}
       /\ notify' = [notify EXCEPT ![n].left = @ \ {e}]
       /\ UNCHANGED <<browser, posted, lost, banner>>

\* 410: the row goes, by its id.
DeleteStale(n) ==
    \E e \in notify[n].left :
       /\ e # subscription
       /\ rows' = rows \ {e}
       /\ notify' = [notify EXCEPT ![n].left = @ \ {e}]
       /\ UNCHANGED <<browser, posted, lost, banner>>

-----------------------------------------------------------------------------

PushNext ==
    \/ \E t \in Windows : CheckSubscribed(t) \/ ClickEnable(t) \/ PermissionRefused(t)
          \/ Subscribe(t) \/ EnableSettles(t) \/ ReloadTab(t)
    \/ \E e \in Endpoints : StoreSubscription(e) \/ LoseRegistration(e)
    \/ \E n \in Sends : ReadSubscriptions(n) \/ SendSettles(n) \/ DeleteStale(n)
    \/ SwitchPreference \/ ExpireSubscription

PushSpec == PushInit /\ [][PushNext]_pushVars

-----------------------------------------------------------------------------
(* Properties.                                                              *)

\* The typing of the browser's, the banners' and the hub's state.
PushTypeOK ==
    /\ permission \in {"default", "granted", "denied"}
    /\ preference \in BOOLEAN
    /\ subscription \in used \cup {NoEndpoint} /\ used \subseteq Endpoints
    /\ rows \subseteq used /\ posted \subseteq used /\ lost \subseteq used
    /\ banner \in [Windows -> {"hidden", "shown", "asking", "registering"}]
    /\ notify \in [Sends -> [at : {"idle", "sending"}, left : SUBSET Endpoints]]

\* A subscription the browser holds has its row, whatever the fan-outs delete,
\* unless its registration is on its way or was lost (which hardly anything
\* repeats: the banner comes up only where the browser holds none).
SubscribedIsStored ==
    subscription # NoEndpoint => subscription \in rows \cup posted \cup lost

=============================================================================
