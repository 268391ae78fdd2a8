---------------------------- MODULE AuthSessions ----------------------------
(***************************************************************************)
(* auth-service: logins, the rotation of refresh sessions, and the         *)
(* consumer that ends the sessions of a banned player.                     *)
(***************************************************************************)
EXTENDS Moderation

CONSTANTS
    Bots,          \* players with is_bot, seeded with the database
    Tabs,          \* browser tabs that may refresh at the same time
    MaxSessions    \* bound: rows of player_sessions

ASSUME AuthAssumption == MaxSessions \in Nat

VARIABLES
    sessions,      \* rows of player_sessions
    tab,           \* the refresh in progress of each tab
    revoking,      \* bans the consumer is at work on, with their sessions revoked or not
    failed,        \* history: bans RevokeAllSessions failed for
    told           \* player.session.revoked messages published, by player

authVars == <<sessions, tab, revoking, failed, told>>

Session == [player : Players, revoked : BOOLEAN, expired : BOOLEAN, despite : BOOLEAN]
Refresh == [session : 1 .. MaxSessions, step : {"ban", "rotate", "create"}, banned : BOOLEAN]

AuthTypeOK ==
    /\ sessions \in Seq(Session) /\ Len(sessions) <= MaxSessions
    /\ tab \in [Tabs -> {Idle} \cup Refresh]
    /\ revoking \subseteq DOMAIN bans /\ failed \subseteq DOMAIN bans
    /\ told \subseteq Players

AuthInit ==
    /\ sessions = <<>> /\ tab = [t \in Tabs |-> Idle]
    /\ revoking = {} /\ failed = {} /\ told = {}

QuietMod ==
    UNCHANGED <<bans, authQueue, reports, audit, roleReq, emails, notifVars>>

\* An INSERT, or an error of it.
CreateSession(p, despite) ==
    /\ Len(sessions) < MaxSessions
    /\ sessions' = Append(sessions, [player |-> p, revoked |-> FALSE, expired |-> FALSE,
                                     despite |-> despite])

(***************************************************************************)
(* Logging in.                                                             *)
(***************************************************************************)
IsEmailAllowed(p) == emails[p] # Idle

\* The first login creates the player with the invitation's role.
UpsertOAuthIdentity(p) ==
    IF role[p] = "absent"
    THEN /\ role' = [role EXCEPT ![p] = emails[p].role]
         /\ vouched' = IF emails[p].by = "owner" THEN vouched \cup {p} ELSE vouched
    ELSE UNCHANGED <<role, vouched>>

\* The callback checks the invitation, not bans; without a session row the access
\* token is set all the same.
HandleGitHubCallback(p) ==
    /\ IsEmailAllowed(p)
    /\ UpsertOAuthIdentity(p)
    /\ token' = [token EXCEPT ![p] = role'[p]]
    /\ CreateSession(p, FALSE) \/ UNCHANGED sessions
    /\ QuietMod /\ UNCHANGED <<tab, revoking, failed, told>>

\* bot-runner's login: a bot's row is enough.
HandleBotLogin(p) ==
    /\ p \in Bots /\ role[p] # "absent"
    /\ token' = [token EXCEPT ![p] = role[p]]
    /\ CreateSession(p, FALSE) \/ UNCHANGED sessions
    /\ QuietMod /\ UNCHANGED <<role, vouched, tab, revoking, failed, told>>

(***************************************************************************)
(* Refreshing: read the session, check the ban, revoke, create.            *)
(***************************************************************************)
Live(s) == ~sessions[s].revoked /\ ~sessions[s].expired

RevokeSession(s) == sessions' = [sessions EXCEPT ![s].revoked = TRUE]

GetSession(t, s) ==
    /\ tab[t] = Idle /\ s \in DOMAIN sessions /\ Live(s)
    /\ tab' = [tab EXCEPT ![t] = [session |-> s, step |-> "ban",
                                  banned |-> CheckActiveBan(sessions[s].player)]]
    /\ QuietMod /\ UNCHANGED <<role, token, vouched, sessions, revoking, failed, told>>

CheckBan_NotChecked(t) ==
    /\ tab[t] # Idle /\ tab[t].step = "ban"
    /\ tab' = [tab EXCEPT ![t].step = "rotate"]
    /\ QuietMod /\ UNCHANGED <<role, token, vouched, sessions, revoking, failed, told>>

\* A ban revokes the session, errors ignored, and ends the refresh; so does an error
\* of the query.
CheckBan(t) ==
    /\ tab[t] # Idle /\ tab[t].step = "ban"
    /\ \/ /\ ~CheckActiveBan(sessions[tab[t].session].player)
          /\ tab' = [tab EXCEPT ![t].step = "rotate"]
          /\ UNCHANGED sessions
       \/ /\ CheckActiveBan(sessions[tab[t].session].player)
          /\ tab' = [tab EXCEPT ![t] = Idle]
          /\ RevokeSession(tab[t].session) \/ UNCHANGED sessions
       \/ /\ tab' = [tab EXCEPT ![t] = Idle]
          /\ UNCHANGED sessions
    /\ QuietMod /\ UNCHANGED <<role, token, vouched, revoking, failed, told>>

\* The old session is revoked, or an error is logged.
Rotate(t) ==
    /\ tab[t] # Idle /\ tab[t].step = "rotate"
    /\ RevokeSession(tab[t].session) \/ UNCHANGED sessions
    /\ tab' = [tab EXCEPT ![t].step = "create"]
    /\ QuietMod /\ UNCHANGED <<role, token, vouched, revoking, failed, told>>

\* The new session and a token with the player's role, or an error.
FinishRefresh(t) ==
    /\ tab[t] # Idle /\ tab[t].step = "create"
    /\ LET p == sessions[tab[t].session].player IN
       \/ CreateSession(p, tab[t].banned) /\ token' = [token EXCEPT ![p] = role[p]]
       \/ UNCHANGED <<sessions, token>>
    /\ tab' = [tab EXCEPT ![t] = Idle]
    /\ QuietMod /\ UNCHANGED <<role, vouched, revoking, failed, told>>

HandleLogout(s) ==
    /\ s \in DOMAIN sessions /\ Live(s)
    /\ RevokeSession(s)
    /\ QuietMod /\ UNCHANGED <<role, token, vouched, tab, revoking, failed, told>>

SessionExpires(s) ==
    /\ s \in DOMAIN sessions /\ Live(s)
    /\ sessions' = [sessions EXCEPT ![s].expired = TRUE]
    /\ QuietMod /\ UNCHANGED <<role, token, vouched, tab, revoking, failed, told>>

(***************************************************************************)
(* The consumer of player.banned.                                          *)
(***************************************************************************)
RevokeAllSessions(p) ==
    sessions' = [s \in DOMAIN sessions |->
        IF sessions[s].player = p THEN [sessions[s] EXCEPT !.revoked = TRUE] ELSE sessions[s]]

\* The sessions are revoked first; an error of that is logged and not retried.
ConsumeBan(b) ==
    /\ b \in authQueue \ revoking
    /\ revoking' = revoking \cup {b}
    /\ \/ RevokeAllSessions(bans[b].player) /\ failed' = failed \ {b}
       \/ UNCHANGED sessions /\ failed' = failed \cup {b}
    /\ QuietMod /\ UNCHANGED <<role, token, vouched, tab, told>>

\* Then player.session.revoked; its error returns the event to the stream, as does a
\* crash, and the sessions are revoked again.
PublishRevoked(b) ==
    /\ b \in revoking
    /\ revoking' = revoking \ {b}
    /\ \/ authQueue' = authQueue \ {b} /\ told' = told \cup {bans[b].player}
       \/ UNCHANGED <<authQueue, told>>
    /\ UNCHANGED <<bans, reports, audit, role, token, roleReq, emails, vouched, notifVars>>
    /\ UNCHANGED <<sessions, tab, failed>>

\* What user-service does to bans while a refresh is in progress.
WatchedBans == tab' = [t \in Tabs |->
    IF tab[t] = Idle THEN Idle
    ELSE [tab[t] EXCEPT !.banned =
             @ /\ \E p \in Players : p = sessions[tab[t].session].player /\ CheckActiveBan(p)']]

(***************************************************************************)
(* The accounts by themselves: user-service's managers and owners and      *)
(* auth-service, from any roster with an owner who founded it.             *)
(***************************************************************************)
accountVars == <<modVars, authVars>>

AccountInit ==
    /\ \E roles \in [Players -> Roles \cup {"absent"}] :
          roles[Founder] = "owner" /\ ModInit(roles)
    /\ AuthInit

\* A ban counts sessions there are; who was banned throughout a refresh is kept up
\* with every change of the bans.
BanSteps ==
    /\ \/ \E by, p \in Players, n \in 0 .. Len(sessions) : handleIssueBan(by, p, n)
       \/ \E by \in Players, b \in DOMAIN bans : handleLiftBan(by, b)
       \/ \E b \in DOMAIN bans : BanExpires(b)
    /\ WatchedBans /\ UNCHANGED <<sessions, revoking, failed, told>>

StaffSteps ==
    /\ \/ \E by, p \in Players : handleCreateReport(by, p)
       \/ \E by \in Players, i \in DOMAIN reports : handleReviewReport(by, i)
       \/ \E by, p \in Players, r \in Roles : handleSetPlayerRole(by, p, r)
       \/ \E by \in Players : UpdateRole(by)
       \/ \E by, e \in Players, r \in Roles : handleAddAllowedEmail(by, e, r)
       \/ \E by, e \in Players : handleRemoveAllowedEmail(by, e)
    /\ UNCHANGED authVars

AuthSteps ==
    \/ \E p \in Players : HandleGitHubCallback(p) \/ HandleBotLogin(p)
    \/ \E t \in Tabs : \/ \E s \in DOMAIN sessions : GetSession(t, s)
                       \/ CheckBan(t) \/ Rotate(t) \/ FinishRefresh(t)
    \/ \E s \in DOMAIN sessions : HandleLogout(s) \/ SessionExpires(s)
    \/ \E b \in DOMAIN bans : ConsumeBan(b) \/ PublishRevoked(b)

AccountNext == BanSteps \/ StaffSteps \/ AuthSteps

AccountSpec == AccountInit /\ [][AccountNext]_accountVars

(***************************************************************************)
(* Properties.                                                             *)
(***************************************************************************)
\* A ban stops the rotation: no session is created by a refresh during all of which
\* its player was banned.  A refresh the ban overtakes, and a login, still get one.
BanStopsRefresh == \A s \in DOMAIN sessions : ~sessions[s].despite

\* Once auth-service has acknowledged a ban, every session its player had when it was
\* issued is revoked, unless the statement that does it failed, in which case nothing
\* tries again.
BanEndsSessions == \A b \in DOMAIN bans :
    bans[b].sent /\ b \notin authQueue \cup failed =>
       \A s \in 1 .. bans[b].sessions :
           sessions[s].player = bans[b].player => sessions[s].revoked

\* What a ban does to the player's sessions (handler.go, the refresh; consumer.go):
\* those there were are revoked and no refresh makes another.
BansReachSessions == BanStopsRefresh /\ BanEndsSessions
=============================================================================
