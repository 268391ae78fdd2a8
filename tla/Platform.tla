------------------------------ MODULE Platform ------------------------------
(***************************************************************************)
(* The services around the game server, composed.  A behaviour plays one   *)
(* scene: the services that interact in it share their state and take      *)
(* their steps in any order, and the others stay as they started, so the   *)
(* state spaces of the scenes add up instead of multiplying.               *)
(***************************************************************************)
EXTENDS Chat, Gateway, Achievements, EventLog, Matchmaker, RateLimit, BotRunner, RoomScreen

CONSTANTS p1, p2, p3, h1, t1, g1

VARIABLE scene

vars == <<notifVars, socialVars, chatVars, modVars, authVars, gwVars,
          ratingVars, achievementVars, eventVars, matchmakerVars, rateVars, runnerVars, screenVars, scene>>

resultVars == <<ratingVars, achievementVars>>
otherVars == <<eventVars, matchmakerVars, rateVars, runnerVars, screenVars>>

Two == {<<p1, p2>>, <<p2, p1>>}

(***************************************************************************)
(* Friend requests and their notifications.                                *)
(***************************************************************************)
Friendships(P) == \E pr \in P :
    \/ handleSendFriendRequest(pr) \/ handleAcceptFriendRequest(pr) \/ handleDeclineFriendRequest(pr)
    \/ handleBlockPlayer(pr) \/ handleUnblockPlayer(pr) \/ handleRemoveFriend(pr)

FriendsScene ==
    /\ scene = "friends"
    /\ \/ Friendships(Two) /\ Len(published') <= 1
       \/ \E pr \in Pairs : executeAcceptSideEffect(pr)
       \/ /\ PlayerActs \/ Deliver(h1) \/ Create(h1) \/ Push(h1)
          /\ UNCHANGED socialVars
    /\ UNCHANGED <<chatVars, modVars, authVars, gwVars, resultVars, otherVars, scene>>

DeliveryScene ==
    /\ scene = "deliveries"
    /\ \/ \E pr \in Two : handleSendFriendRequest(pr)
       \/ NotifSteps /\ UNCHANGED socialVars
    /\ UNCHANGED <<chatVars, modVars, authVars, gwVars, resultVars, otherVars, scene>>

(***************************************************************************)
(* Messages, while settings and friendships change.                        *)
(***************************************************************************)
Bodies == [allow_dms : {"nobody", "friends_only", "unset"}, mute_all : {"unset"}]

DMScene ==
    /\ scene = "messages"
    /\ \/ \E p \in {p1, p3} : handleSendDM(p, p2)
       \/ \E p \in Players : CheckFriends(p) \/ SaveDM(p)
       \/ handleMarkDMRead \/ handleReportDM
       \/ /\ \/ \E body \in Bodies : handleUpsertPlayerSettings(p2, body)
             \/ Friendships({<<p1, p2>>}) \/ handleBlockPlayer(<<p2, p1>>)
          /\ UNCHANGED <<published, dmReq, dms, seated, roomReq, room>> /\ Watched
    /\ UNCHANGED <<modVars, authVars, gwVars, resultVars, otherVars, scene>>

RoomScene ==
    /\ scene = "room"
    /\ \/ \E p \in Players : handleSendRoomMessage(p) \/ SaveRoomMessage(p) \/ Reseat(p)
       \/ handleReportRoomMessage \/ handleHideRoomMessage
    /\ UNCHANGED <<modVars, authVars, gwVars, resultVars, otherVars, scene>>

(***************************************************************************)
(* Bans against sessions.                                                  *)
(***************************************************************************)
BansChange ==
    /\ handleIssueBan(p2, p1, Len(sessions)) \/ \E b \in 1 .. MaxBans : BanExpires(b)
    /\ UNCHANGED <<sessions, revoking, failed, told>> /\ WatchedBans

BansLifted ==
    /\ \E b \in 1 .. MaxBans : handleLiftBan(p2, b)
    /\ UNCHANGED <<sessions, revoking, failed, told>> /\ WatchedBans

RefreshSteps(t) ==
    \/ \E s \in DOMAIN sessions : GetSession(t, s)
    \/ CheckBan(t) \/ Rotate(t) \/ FinishRefresh(t)

\* Two tabs refresh while bans come and go.
RefreshScene ==
    /\ scene = "refresh"
    /\ \/ BansChange /\ UNCHANGED <<published, audit>>
       \/ sessions = <<>> /\ HandleGitHubCallback(p1)
       \/ \E t \in Tabs : RefreshSteps(t)
    /\ UNCHANGED <<socialVars, chatVars, gwVars, resultVars, otherVars, scene>>

\* One ban reaches the consumer while its player logs in, out and refreshes.
RevokeScene ==
    /\ scene = "revoke"
    /\ \/ (BansChange \/ BansLifted) /\ Len(bans') <= 1
       \/ HandleGitHubCallback(p1) \/ HandleBotLogin(p3)
       \/ RefreshSteps(t1)
       \/ \E s \in DOMAIN sessions : HandleLogout(s) \/ SessionExpires(s)
       \/ \E b \in DOMAIN bans : ConsumeBan(b) \/ PublishRevoked(b)
    /\ Len(sessions') <= 2
    /\ UNCHANGED <<socialVars, chatVars, gwVars, resultVars, otherVars, scene>>

AdminScene ==
    /\ scene = "admin"
    /\ \/ /\ \/ \E by \in Players, p \in Players, r \in Roles : handleSetPlayerRole(by, p, r)
             \/ \E by \in Players : UpdateRole(by)
             \/ \E by \in Players, r \in Roles : handleAddAllowedEmail(by, p3, r)
             \/ \E by \in Players : handleRemoveAllowedEmail(by, p3)
          /\ UNCHANGED authVars
       \/ \E p \in Players : HandleGitHubCallback(p) /\ UNCHANGED sessions
    /\ UNCHANGED <<socialVars, chatVars, gwVars, resultVars, otherVars, scene>>

ReportScene ==
    /\ scene = "reports"
    /\ \/ /\ \E by \in Players : \/ \E p \in Players : handleCreateReport(by, p)
                                  \/ \E i \in 1 .. MaxReports : handleReviewReport(by, i)
          /\ UNCHANGED socialVars
       \/ (\E pr \in Two : MutePlayer(pr) \/ UnmutePlayer(pr)) /\ UNCHANGED modVars
    /\ UNCHANGED <<chatVars, authVars, gwVars, resultVars, otherVars, scene>>

(***************************************************************************)
(* Connections of the gateway: first how they come, move and go, then what *)
(* is sent to them.                                                        *)
(***************************************************************************)
Connections(owners) == \E c \in Clients :
    \/ \E p \in owners : PlayerHandler(c, p)
    \/ handleControl(c) \/ Drop(c) \/ WritePump(c) \/ ReadPump(c)

SocketScene ==
    /\ scene = "sockets"
    /\ \/ Connections({p1, p2})
       \/ \E c \in Clients, p \in {p1, p2}, r \in Rooms : RoomHandler(c, p, r)
       \/ \E c \in Clients : Heartbeat(c) /\ conn[c].player = p1
       \/ SetLands(p1) \/ PresenceExpires(p1)
    /\ UNCHANGED <<socialVars, chatVars, resultVars, otherVars, scene>>

\* A broadcast while player sockets move between rooms.
BroadcastScene ==
    /\ scene = "broadcast" /\ bcast.phase # "done"
    /\ Connections({p1}) \/ handleBroadcastSent \/ BroadcastPlayers
    /\ UNCHANGED <<socialVars, chatVars, resultVars, otherVars, scene>>

\* Room events, player events and a ban reach the same room sockets.
FanoutScene ==
    /\ scene = "fanout"
    /\ \/ \E c \in Clients : \/ \E r \in Rooms : RoomHandler(c, p1, r)
                             \/ Drop(c) \/ WritePump(c) \/ ReadPump(c)
       \/ \E r \in Rooms : listenRoom(r)
       \/ listenPlayer(p1) \/ handleSessionRevoked(p1) \/ Fatal
       \/ /\ \/ handleIssueBan(p2, p1, 0) /\ Len(bans') <= 1 /\ UNCHANGED authVars
             \/ \E b \in DOMAIN bans : ConsumeBan(b) \/ PublishRevoked(b)
          /\ UNCHANGED gwVars
    /\ UNCHANGED <<socialVars, chatVars, resultVars, otherVars, scene>>

(***************************************************************************)
(* Finished sessions.                                                      *)
(***************************************************************************)
\* Two players meet twice, or three once; in a single match one may be new, a veteran, on a
\* streak or far from the other's rating.
RankedPairs ==
    {publishGameFinished("ranked", "tictactoe", 7, {p1, p2}, r) :
     r \in {buildGameResultParams(p1), buildGameResultParams("nobody"), Surrendered(p2)}}
RatedSessions ==
    {<<a>> : a \in RankedPairs} \cup {<<a, b>> : a \in RankedPairs, b \in RankedPairs}
    \cup {<<publishGameFinished("ranked", "rootaccess", 9, Players, buildGameResultParams(p1)),
            publishGameFinished(m, "rootaccess", 9, S, buildGameResultParams(p2))>> :
          m \in {"ranked", "casual"}, S \in {Players, {p1, p2}}}
RatingRows ==
    {NoRow} \cup [mmr : {12000, 19000}, display : {15000}, games : {30, 31, 2000}, wins : {0, 12}, losses : {0}]

RatingScene ==
    /\ scene = "ratings"
    /\ \E h \in Handlers : \/ \E i \in DOMAIN finished : ProcessGameFinished(h, i)
                           \/ UpsertRatings(h) \/ AckSession(h) \/ RaterCrash(h)
    /\ UNCHANGED <<socialVars, chatVars, modVars, authVars, gwVars, achievementVars, otherVars, scene>>

\* Tiers within reach of three sessions.
FewTiers ==
    [games_played |-> <<1, 2>>, games_won |-> <<1, 2>>, win_streak |-> <<2>>, first_draw |-> <<1>>,
     ttt_perfect_game |-> <<1>>, ttt_games_played |-> <<2>>]

\* Casual sessions as p1 sees them.
Solo(game, moves, winners) ==
    {publishGameFinished("casual", game, moves, {p1}, buildGameResultParams(w)) : w \in winners}

\* Two handlers count two sessions of a player.
CountedByTwo ==
    {<<a, b>> : a \in Solo("tictactoe", 5, {p1}), b \in Solo("rootaccess", 7, {p1})}

\* One handler counts three, and p1 hears of what they unlock.
CountedByOne ==
    {<<a, b, c>> : a \in Solo("tictactoe", 5, {p1}), b \in Solo("tictactoe", 7, {p1, p2}),
                   c \in Solo("rootaccess", 9, {p1, "nobody"})}

Counts(h) ==
    \/ \E i \in DOMAIN finished : handle(h, i)
    \/ ListAchievements(h) \/ UpsertAchievement(h) \/ PublishAchievementUnlocked(h)
    \/ AckCounted(h)

CountScene ==
    /\ scene = "counts"
    /\ \E h \in Handlers : Counts(h) \/ CounterCrash(h)
    /\ UNCHANGED <<published, queue>>
    /\ UNCHANGED <<socialVars, chatVars, modVars, authVars, gwVars, ratingVars, otherVars, scene>>

UnlockScene ==
    /\ scene = "unlocks"
    /\ \/ Counts(h1) /\ Len(published') <= 1
       \/ (Deliver(h1) \/ Create(h1) \/ Push(h1)) /\ UNCHANGED achievementVars
    /\ UNCHANGED <<socialVars, chatVars, modVars, authVars, gwVars, ratingVars, otherVars, scene>>

(***************************************************************************)
(* The event log of two sessions, one of which is read.                    *)
(***************************************************************************)
EventScene ==
    /\ scene = "events"
    /\ \/ \E g \in Games : AppendEvent(g) \/ \E h \in Handlers : PersistReads(h, g)
       \/ \E h \in Handlers : BulkCreateSessionEvents(h) \/ DeleteStream(h)
       \/ ReadLooks(g1) \/ ReadAnswers
    /\ UNCHANGED <<notifVars, socialVars, chatVars, modVars, authVars, gwVars, resultVars>>
    /\ UNCHANGED <<matchmakerVars, rateVars, runnerVars, screenVars, scene>>

(***************************************************************************)
(* The rest stand alone.                                                   *)
(***************************************************************************)
Elsewhere ==
    UNCHANGED <<notifVars, socialVars, chatVars, modVars, authVars, gwVars, resultVars, eventVars,
                scene>>

PairingScene ==
    /\ scene = "pairing"
    /\ (\E r \in Skills : EnqueueAt(r)) \/ Wait \/ FindMatches
    /\ Elsewhere /\ UNCHANGED <<rateVars, runnerVars, screenVars>>

LimitScene ==
    /\ scene = "limit"
    /\ (\E r \in Requests : Arrive(r) \/ allow(r)) \/ Elapse
    /\ Elsewhere /\ UNCHANGED <<matchmakerVars, runnerVars, screenVars>>

BotScene ==
    /\ scene = "bot"
    /\ RunnerSteps
    /\ Elsewhere /\ UNCHANGED <<matchmakerVars, rateVars, screenVars>>

\* Followed until something the properties except has happened.
ScreenScene ==
    /\ flaws \cap {"missed", "crossed"} = {}
    /\ \/ scene = "screen" /\ (RoomSteps \/ WatcherSteps)
       \/ scene = "board" /\ (BoardSteps \/ WatcherSteps) /\ commits' <= 2
    /\ Elsewhere /\ UNCHANGED <<matchmakerVars, rateVars, runnerVars>>

Init ==
    /\ scene \in {"friends", "messages", "room", "deliveries", "refresh", "revoke", "admin",
                  "reports", "sockets", "broadcast", "fanout", "ratings", "counts", "unlocks",
                  "events", "pairing", "limit", "bot", "screen", "board"}
    /\ NotifInit /\ SocialInit /\ ChatInit /\ AuthInit /\ GWInit
    /\ CASE scene = "ratings"      -> \E all \in RatedSessions, r \in RatingRows :
                                        /\ r # NoRow => Len(all) = 1
                                        /\ RatingInit(all, [p \in Players |-> IF p = p1 THEN r ELSE NoRow])
         [] scene = "counts"       -> \E all \in CountedByTwo : RatingInit(all, [p \in Players |-> NoRow])
         [] scene = "unlocks"      -> \E all \in CountedByOne : RatingInit(all, [p \in Players |-> NoRow])
         [] OTHER                  -> RatingInit(<<>>, [p \in Players |-> NoRow])
    /\ AchievementInit /\ EventInit /\ RateInit /\ RunnerInit
    /\ ScreenInit(IF scene = "board" THEN "game" ELSE "room", p1)
    /\ MatchmakerInit({[perTeam |-> n, teams |-> 2] : n \in IF scene = "pairing" THEN 1 .. 2 ELSE {1}})
    /\ ModInit([p \in Players |->
           CASE p = Founder                  -> "owner"
             [] p = p1 /\ scene = "admin"    -> "manager"
             [] p = p3 /\ scene = "admin"    -> "absent"
             [] OTHER                        -> "player"])

Next == FriendsScene \/ DMScene \/ RoomScene \/ DeliveryScene
        \/ RefreshScene \/ RevokeScene \/ AdminScene \/ ReportScene
        \/ SocketScene \/ BroadcastScene \/ FanoutScene
        \/ RatingScene \/ CountScene \/ UnlockScene \/ EventScene
        \/ PairingScene \/ LimitScene \/ BotScene \/ ScreenScene

PlatformTypeOK ==
    /\ NotifTypeOK /\ SocialTypeOK /\ ChatTypeOK /\ ModTypeOK /\ AuthTypeOK /\ GWTypeOK
    /\ RatingTypeOK /\ AchievementTypeOK /\ EventTypeOK /\ MatchmakerTypeOK /\ RateTypeOK
    /\ RunnerTypeOK /\ ScreenTypeOK

Spec == Init /\ [][Next]_vars
=============================================================================
