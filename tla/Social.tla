------------------------------- MODULE Social -------------------------------
(***************************************************************************)
(* user-service: friendships and blocks, mutes and player settings, with   *)
(* the events a friendship publishes and the gRPC calls other services     *)
(* make.                                                                   *)
(*                                                                         *)
(* A row of users.friendships has a direction, (requester, addressee), and *)
(* two rows may exist between two players.                                 *)
(***************************************************************************)
EXTENDS Notifications

VARIABLES
    friendship,  \* status of the row of each ordered pair, "none" without a row
    answered,    \* history: requests accepted over the REST endpoint
    mutes,       \* rows of users.player_mutes
    settings     \* the stored map of each player, NoRow without one

socialVars == <<friendship, answered, mutes, settings>>

Pairs == {pr \in Players \X Players : pr[1] # pr[2]}
Privacy == {"nobody", "friends_only", "anyone"}
Keys == {"allow_dms", "mute_all"}

\* A body may leave keys out; a pointer that is nil is omitted from the JSON.
SettingMap == [allow_dms : Privacy \cup {"unset"}, mute_all : {"on", "off", "unset"}]

SocialTypeOK ==
    /\ friendship \in [Pairs -> {"none", "pending", "accepted", "blocked"}]
    /\ answered \subseteq Pairs /\ mutes \subseteq Pairs
    /\ settings \in [Players -> {NoRow} \cup SettingMap]

SocialInit ==
    /\ friendship = [pr \in Pairs |-> "none"]
    /\ answered = {} /\ mutes = {}
    /\ settings = [p \in Players |-> NoRow]

Back(pr) == <<pr[2], pr[1]>>

SetRow(pr, status) == friendship' = [friendship EXCEPT ![pr] = status]

QuietNotifications ==
    UNCHANGED <<tries, job, dedupe, notes, pushes, accepting, marred>>

(***************************************************************************)
(* The statements of the store.                                            *)
(***************************************************************************)
\* A row in this direction, whatever its status, turns the INSERT into an error.
SendFriendRequest(pr) == friendship[pr] = "none" /\ SetRow(pr, "pending")

AcceptFriendRequest(pr) == friendship[pr] = "pending" /\ SetRow(pr, "accepted")

DeclineFriendRequest(pr) == friendship[pr] = "pending" /\ SetRow(pr, "none")

BlockPlayer(pr) == SetRow(pr, "blocked")

UnblockPlayer(pr) == friendship[pr] = "blocked" /\ SetRow(pr, "none")

\* AND binds tighter than OR in the statement: the caller's own row goes whatever
\* its status, the other one only when it is a friendship.
RemoveFriend(pr) ==
    /\ friendship[pr] # "none" \/ friendship[Back(pr)] = "accepted"
    /\ friendship' = [friendship EXCEPT ![pr] = "none",
                                        ![Back(pr)] = IF @ = "accepted" THEN "none" ELSE @]

\* The rows between two players, of which the query answers either: it has LIMIT 1
\* and no order.
GetFriendship(p, q) == {friendship[<<p, q>>], friendship[<<q, p>>]} \ {"none"}

(***************************************************************************)
(* Friendships, over REST.  The caller is the player the row belongs to:   *)
(* the requester for a request, a block and their undoing, the addressee   *)
(* for an answer.                                                          *)
(***************************************************************************)
handleSendFriendRequest(pr) ==
    /\ SendFriendRequest(pr)
    /\ Publish([kind |-> "friendship.requested", one |-> pr[1], other |-> pr[2]])
    /\ QuietNotifications /\ UNCHANGED <<answered, mutes, settings>>

handleAcceptFriendRequest(pr) ==
    /\ AcceptFriendRequest(pr)
    /\ answered' = answered \cup {pr}
    /\ Publish([kind |-> "friendship.accepted", one |-> pr[1], other |-> pr[2]])
    /\ QuietNotifications /\ UNCHANGED <<mutes, settings>>

handleDeclineFriendRequest(pr) ==
    DeclineFriendRequest(pr) /\ UNCHANGED <<answered, mutes, settings, notifVars>>

handleBlockPlayer(pr) ==
    BlockPlayer(pr) /\ UNCHANGED <<answered, mutes, settings, notifVars>>

handleUnblockPlayer(pr) ==
    UnblockPlayer(pr) /\ UNCHANGED <<answered, mutes, settings, notifVars>>

handleRemoveFriend(pr) ==
    RemoveFriend(pr) /\ UNCHANGED <<answered, mutes, settings, notifVars>>

(***************************************************************************)
(* gRPC.                                                                   *)
(***************************************************************************)
grpcGetFriendship(p, q) == IF GetFriendship(p, q) = {} THEN {"none"} ELSE GetFriendship(p, q)

\* A request that is no longer pending is an error, which the caller swallows.
grpcAcceptFriendRequest(pr) ==
    AcceptFriendRequest(pr) \/ (friendship[pr] # "pending" /\ UNCHANGED friendship)

executeAcceptSideEffect_Swapped(pr) ==
    /\ pr \in accepting
    /\ accepting' = accepting \ {pr}
    /\ grpcAcceptFriendRequest(Back(pr)) \/ UNCHANGED friendship
    /\ UNCHANGED <<published, queue, tries, job, dedupe, notes, pushes, marred,
                   answered, mutes, settings>>

\* executeAcceptSideEffect of notification-service: the call, or its failure, which
\* is logged; the notification keeps its action either way.
executeAcceptSideEffect(pr) ==
    /\ pr \in accepting
    /\ accepting' = accepting \ {pr}
    /\ grpcAcceptFriendRequest(pr) \/ UNCHANGED friendship
    /\ UNCHANGED <<published, queue, tries, job, dedupe, notes, pushes, marred,
                   answered, mutes, settings>>

(***************************************************************************)
(* Mutes and settings.                                                     *)
(***************************************************************************)
MutePlayer(pr) ==
    /\ mutes' = mutes \cup {pr}
    /\ UNCHANGED <<friendship, answered, settings, notifVars>>

UnmutePlayer(pr) ==
    /\ mutes' = mutes \ {pr}
    /\ UNCHANGED <<friendship, answered, settings, notifVars>>

\* The whole map is replaced by the body: keys it leaves out are unset again.
UpsertPlayerSettings(p, body) == settings' = [settings EXCEPT ![p] = body]

handleUpsertPlayerSettings(p, body) ==
    UpsertPlayerSettings(p, body) /\ UNCHANGED <<friendship, answered, mutes, notifVars>>

defaultPlayerSettings == [allow_dms |-> "anyone", mute_all |-> "off"]

mergeSettings(defaults, stored) ==
    [k \in Keys |-> IF stored[k] = "unset" THEN defaults[k] ELSE stored[k]]

\* What the settings page shows.
GetPlayerSettings(p) ==
    IF settings[p] = NoRow THEN defaultPlayerSettings
    ELSE mergeSettings(defaultPlayerSettings, settings[p])

(***************************************************************************)
(* Properties.                                                             *)
(***************************************************************************)
\* Only the player who blocked ends the block: no request, answer, notification or
\* removal by the other side, in any order, takes the row away or turns it into a
\* friendship.
BlockHolds == [][\A pr \in Pairs :
    friendship[pr] = "blocked" /\ friendship'[pr] # "blocked"
        => UnblockPlayer(pr) \/ RemoveFriend(pr)]_<<socialVars, notifVars>>

\* A friendship rests on its addressee's own answer, over REST or on a notification
\* of the request; no stale notification or late gRPC call makes one without it.
FriendsAgreed == \A pr \in Pairs : friendship[pr] = "accepted" =>
    \/ pr \in answered
    \/ \E n \in notes : /\ n.type = "friend_request" /\ n.action = "accepted"
                        /\ n.player = pr[2] /\ n.from = pr[1]

\* What two players can rely on, whichever of REST, gRPC and notifications they and
\* the other use (store_friendships.go): friends agreed to be, and a block holds.
FriendshipsSound == [](SocialTypeOK /\ FriendsAgreed) /\ BlockHolds
=============================================================================
