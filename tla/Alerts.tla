------------------------------- MODULE Alerts -------------------------------
(***************************************************************************)
(* What one user is notified of, and where: the preferences that           *)
(* NotificationService, UserRegisteredHandler and                          *)
(* NotificationOrchestratorService each create when there are none, the    *)
(* job alerts that JobAlertScheduler sends by them, and the push tokens    *)
(* that NotificationService registers and PushProvider deactivates.  What  *)
(* becomes of a notification in the queue is Notifications.                *)
(***************************************************************************)
EXTENDS Server

CONSTANTS
    Tokens,         \* push tokens
    Devices,        \* ids of devices
    NoDevice,       \* stands for a token registered without one
    NoPreferences   \* stands for no row in user_notification_preferences

ASSUME AlertsAssumption ==
    NoDevice \notin Devices /\ NoPreferences \notin [{"email", "push"} -> BOOLEAN]

VARIABLES
    preferences,    \* per channel, whether it is enabled for job_recommendation
    tokens,         \* the push_notification_tokens table
    queued,         \* the notifications in the queue, and whether the user wanted them
    chosen,         \* history: per channel, what the last update has saved, if any
    updates,        \* history: how many updates were asked for
    registered      \* history: the token registered last, until it is rejected or another comes

avars == <<preferences, tokens, queued, chosen, updates, registered>>

Channels == {"email", "push"}
NoToken == [token |-> "none", device |-> NoDevice]

AlertsInit ==
    /\ preferences = NoPreferences /\ tokens = {} /\ queued = {}
    /\ chosen = [c \in Channels |-> {}] /\ updates = 0 /\ registered = NoToken

-----------------------------------------------------------------------------
(* Preferences: find, and insert what is missing *)

Everything == [c \in Channels |-> TRUE]     \* types: ['job_recommendation']
NoAlerts == [c \in Channels |-> FALSE]      \* types: []

Defaults(op) == IF op = "notify" THEN NoAlerts ELSE Everything

\* The type of a notification, in lower case, is never a key of the preferences, so
\* every suggested channel is taken.
SelectChannels(suggested) == suggested

\* Where an operation goes on once it has the row.
Found(h, row) ==
    CASE handler[h].op = "updatePreferences" -> Keep(h, "save", row)
      [] handler[h].op = "notify" -> Keep(h, "queue", [left |-> SelectChannels(Channels)])
      [] OTHER -> End(h)

FindPreferences(h) ==
    /\ handler[h].op \in {"register", "getPreferences", "updatePreferences", "notify"}
    /\ handler[h].step = "start"
    /\ IF preferences = NoPreferences THEN Goto(h, "insert") ELSE Found(h, preferences)
    /\ UNCHANGED avars

InsertPreferences_Upserts(h) ==
    /\ handler[h].step = "insert"
    /\ preferences' = Defaults(handler[h].op)
    /\ Found(h, preferences')
    /\ UNCHANGED <<tokens, queued, chosen, updates, registered>>

InsertPreferences(h) ==
    /\ handler[h].step = "insert"
    /\ preferences = NoPreferences
    /\ preferences' = Defaults(handler[h].op)
    /\ Found(h, preferences')
    /\ UNCHANGED <<tokens, queued, chosen, updates, registered>>

\* userId is unique.
PreferencesExist(h) ==
    /\ handler[h].step = "insert"
    /\ preferences # NoPreferences
    /\ End(h)
    /\ UNCHANGED avars

\* The channels that are given replace those of the row that was read.
SavePreferences(h) ==
    /\ At(h, "updatePreferences", "save")
    /\ preferences' = [Mem(h) EXCEPT ![Arg(h).channel] = Arg(h).wants]
    /\ chosen' = [chosen EXCEPT ![Arg(h).channel] = {Arg(h).wants}]
    /\ End(h)
    /\ UNCHANGED <<tokens, queued, updates, registered>>

-----------------------------------------------------------------------------
(* Sending: sendToRecipient, and executeJobAlerts for this user *)

Wanted(row) == {c \in Channels : row # NoPreferences /\ row[c]}

\* The subscribers of a round are read at its start.  A user may have no verified
\* address or no recommendations, and the jobs recommended may be closed.
ReadSubscription(h) ==
    /\ At(h, "alert", "start")
    /\ \/ End(h)
       \/ /\ Wanted(preferences) # {}
          /\ Keep(h, "queue", [left |-> SelectChannels(Wanted(preferences))])
    /\ UNCHANGED avars

\* Email before push.
NextChannel(left) == IF "email" \in left THEN "email" ELSE "push"

Rest(left) == left \ {NextChannel(left)}

Proceed(h, left) ==
    IF left = {} THEN handler' = [handler EXCEPT ![h] = Answered(h)]
    ELSE handler' = [handler EXCEPT ![h].mem = [left |-> left]]

\* The row is inserted and its job queued.
QueueNotification(h) ==
    /\ handler[h].step = "queue"
    /\ LET c == NextChannel(Mem(h).left) IN
       queued' = queued \cup {[by |-> h, op |-> handler[h].op, channel |-> c,
                               wanted |-> c \in Wanted(preferences)]}
    /\ Proceed(h, Rest(Mem(h).left)) /\ UNCHANGED faults
    /\ UNCHANGED <<preferences, tokens, chosen, updates, registered>>

\* A channel that fails is logged, and the next one is tried.
ChannelFails(h) ==
    /\ handler[h].step = "queue"
    /\ faults < MaxFaults
    /\ faults' = faults + 1
    /\ Proceed(h, Rest(Mem(h).left))
    /\ UNCHANGED avars

-----------------------------------------------------------------------------
(* Push tokens *)

\* Whatever was active on the device is deactivated.
ReplaceOnDevice(h) ==
    /\ At(h, "registerPushToken", "start")
    /\ tokens' = {IF Arg(h).device # NoDevice /\ t.device = Arg(h).device
                  THEN [t EXCEPT !.active = FALSE] ELSE t : t \in tokens}
    /\ Goto(h, "find")
    /\ registered' = NoToken
    /\ UNCHANGED <<preferences, queued, chosen, updates>>

FindToken(h) ==
    /\ At(h, "registerPushToken", "find")
    /\ LET same == {t \in tokens : t.active /\ t.token = Arg(h).token} IN
       IF same = {} THEN Keep(h, "save", h) ELSE \E t \in same : Keep(h, "save", t.id)
    /\ UNCHANGED avars

\* A row that was found gets the device, if there is one, and is saved as it was read:
\* active.  Otherwise a row is inserted.
SaveToken(h) ==
    /\ At(h, "registerPushToken", "save")
    /\ LET device == Arg(h).device IN
       tokens' =
           IF Mem(h) = h
           THEN tokens \cup {[id |-> h, token |-> Arg(h).token, device |-> device, active |-> TRUE]}
           ELSE {IF t.id # Mem(h) THEN t
                 ELSE [t EXCEPT !.active = TRUE, !.device = IF device = NoDevice THEN @ ELSE device]
                 : t \in tokens}
    /\ registered' = Arg(h)
    /\ End(h)
    /\ UNCHANGED <<preferences, queued, chosen, updates>>

\* PushProvider reads the active tokens and sends to each; some may be rejected.
SendPush(h) ==
    /\ At(h, "push", "start")
    /\ \E rejected \in SUBSET {t \in tokens : t.active} :
           IF rejected = {} THEN End(h) ELSE Keep(h, "deactivate", rejected)
    /\ UNCHANGED avars

\* What Firebase rejects is updated by id; a subscription of a browser that it does not
\* serve is saved as it was read.
Deactivate(h) ==
    /\ At(h, "push", "deactivate")
    /\ \E r \in Mem(h) :
          /\ \E asRead \in BOOLEAN :
                 tokens' = {IF t.id # r.id THEN t
                            ELSE [t EXCEPT !.active = FALSE, !.device = IF asRead THEN r.device ELSE @]
                            : t \in tokens}
          /\ registered' = IF r.token = registered.token THEN NoToken ELSE registered
          /\ IF Mem(h) = {r} THEN End(h) ELSE Keep(h, "deactivate", Mem(h) \ {r})
    /\ UNCHANGED <<preferences, queued, chosen, updates>>

-----------------------------------------------------------------------------
AlertsRequest(h) ==
    \/ /\ \/ \E op \in {"register", "getPreferences", "notify", "alert", "push"} : Ask(h, op, "none")
          \/ \E t \in Tokens, d \in Devices \cup {NoDevice} :
                 Ask(h, "registerPushToken", [token |-> t, device |-> d])
       /\ UNCHANGED avars
    \/ /\ \E c \in Channels, w \in BOOLEAN : Ask(h, "updatePreferences", [channel |-> c, wants |-> w])
       /\ updates' = updates + 1
       /\ UNCHANGED <<preferences, tokens, queued, chosen, registered>>

AlertsStep(h) ==
    \/ FindPreferences(h) \/ InsertPreferences(h) \/ PreferencesExist(h) \/ SavePreferences(h)
    \/ ReadSubscription(h) \/ QueueNotification(h) \/ ChannelFails(h)
    \/ ReplaceOnDevice(h) \/ FindToken(h) \/ SaveToken(h) \/ SendPush(h) \/ Deactivate(h)

\* A round reads the preferences again for each channel: if this fails it ends.
AlertsFault(h) == ~At(h, "notify", "queue") /\ Fault(h) /\ UNCHANGED avars

AlertsNext == \E h \in Requests : AlertsRequest(h) \/ AlertsStep(h) \/ AlertsFault(h)

AlertsSpec == SInit /\ AlertsInit /\ [][AlertsNext]_<<svars, avars>>

-----------------------------------------------------------------------------
(* Properties *)

\* What was chosen last for a channel stands: nobody who creates preferences when they
\* are missing puts the defaults back (getOrCreatePreferences, createDefaultPreferences,
\* updatePreferences).
ChoiceStands == \A c \in Channels : chosen[c] # {} => preferences[c] \in chosen[c]

\* A job alert goes to a channel that has it enabled (executeJobAlerts).
AlertsAreWanted == \A n \in queued : n.op = "alert" => n.wanted

\* At most one active token is on a device, and it is there once (registerPushToken).
TokensAreSingle ==
    \A t, u \in {t \in tokens : t.active} :
        t.token = u.token \/ (t.device = u.device /\ t.device # NoDevice) => t = u

\* The token registered last is active, on its device (registerPushToken, PushProvider).
RegisteredIsActive ==
    registered # NoToken =>
        \E t \in tokens : t.active /\ t.token = registered.token /\ registered.device \in {t.device, NoDevice}
=============================================================================
