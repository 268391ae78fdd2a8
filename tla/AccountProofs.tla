--------------------------- MODULE AccountProofs ----------------------------
(***************************************************************************)
(* Bans, roles and sessions, for any number of players, tabs and rows:     *)
(* every operation of user-service's managers and owners and of            *)
(* auth-service, in any order, from any roster with an owner who founded   *)
(* it.                                                                     *)
(***************************************************************************)
EXTENDS AuthSessions, TLAPS

\* The time a leaf that names no prover may take.
USE SMTT(60), ZenonT(20)

(***************************************************************************)
(* Types.                                                                  *)
(***************************************************************************)
\* What the rows have in common before and after a step.
BansGrow ==
    /\ Len(bans') >= Len(bans)
    /\ \A b \in 1 .. Len(bans) :
          /\ bans'[b].player = bans[b].player /\ bans'[b].sent = bans[b].sent
          /\ bans'[b].sessions = bans[b].sessions
          /\ bans[b].lifted => bans'[b].lifted

SessionsGrow ==
    /\ Len(sessions') >= Len(sessions)
    /\ \A s \in 1 .. Len(sessions) :
          /\ sessions'[s].player = sessions[s].player
          /\ sessions[s].revoked => sessions'[s].revoked

(* A row that is changed in place leaves the table as long as it was.      *)
LEMMA ChangeRow ==
    ASSUME NEW S, NEW s \in Seq(S), NEW i \in DOMAIN s, NEW e \in S
    PROVE  /\ [s EXCEPT ![i] = e] \in Seq(S)
           /\ Len([s EXCEPT ![i] = e]) = Len(s)
           /\ [s EXCEPT ![i] = e][i] = e
           /\ \A j \in 1 .. Len(s) : j # i => [s EXCEPT ![i] = e][j] = s[j]
OBVIOUS

(* A row that is added comes last.                                         *)
LEMMA AddRow ==
    ASSUME NEW S, NEW s \in Seq(S), NEW e \in S
    PROVE  /\ Append(s, e) \in Seq(S) /\ Len(Append(s, e)) = Len(s) + 1
           /\ Append(s, e)[Len(s) + 1] = e
           /\ \A j \in 1 .. Len(s) : Append(s, e)[j] = s[j]
OBVIOUS

(* The rows of a table are numbered from 1.                                *)
LEMMA RowCount ==
    ASSUME NEW S, NEW s \in Seq(S)
    PROVE  /\ Len(s) \in Nat /\ DOMAIN s = 1 .. Len(s)
           /\ \A j \in 1 .. Len(s) : s[j] \in S
OBVIOUS

(* users.bans: rows are added and marked, never taken back.                *)
LEMMA BanRows ==
    ASSUME bans \in Seq(Ban), Len(bans) <= MaxBans, sessions \in Seq(Session),
           [AccountNext]_accountVars
    PROVE  bans' \in Seq(Ban) /\ Len(bans') <= MaxBans /\ BansGrow
<1>1. ASSUME NEW by \in Players, NEW p \in Players, NEW n \in 0 .. Len(sessions),
             handleIssueBan(by, p, n)
      PROVE  bans' \in Seq(Ban) /\ Len(bans') <= MaxBans /\ BansGrow
  <2> DEFINE row == [player |-> p, lifted |-> FALSE, expired |-> FALSE,
                     sessions |-> n, sent |-> published' # published]
  <2>1. row \in Ban
        BY DEF Ban
  <2>2. bans' = Append(bans, row) /\ Len(bans) < MaxBans
        BY <1>1 DEF handleIssueBan, IssueBan
  <2> HIDE DEF row
  <2>3. QED
        BY <2>1, <2>2, AddRow, ModerationAssumption DEF BansGrow
<1>2. ASSUME NEW b \in DOMAIN bans, NEW row \in Ban, bans' = [bans EXCEPT ![b] = row],
             row.player = bans[b].player, row.sent = bans[b].sent,
             row.sessions = bans[b].sessions, bans[b].lifted => row.lifted
      PROVE  bans' \in Seq(Ban) /\ Len(bans') <= MaxBans /\ BansGrow
      BY <1>2, ChangeRow DEF BansGrow
<1>3. ASSUME NEW b \in DOMAIN bans PROVE bans[b] \in Ban
      BY <1>3, RowCount
<1>4. ASSUME NEW by \in Players, NEW b \in DOMAIN bans, handleLiftBan(by, b)
      PROVE  bans' \in Seq(Ban) /\ Len(bans') <= MaxBans /\ BansGrow
  <2>1. bans' = [bans EXCEPT ![b] = [bans[b] EXCEPT !.lifted = TRUE]]
        BY <1>4 DEF handleLiftBan, LiftBan
  <2>2. QED
        BY <1>2, <1>3, <2>1, Zenon DEF Ban
<1>5. ASSUME NEW b \in DOMAIN bans, BanExpires(b)
      PROVE  bans' \in Seq(Ban) /\ Len(bans') <= MaxBans /\ BansGrow
  <2>1. bans' = [bans EXCEPT ![b] = [bans[b] EXCEPT !.expired = TRUE]]
        BY <1>5 DEF BanExpires
  <2>2. QED
        BY <1>2, <1>3, <2>1, Zenon DEF Ban
<1>6. CASE UNCHANGED bans
      BY <1>6 DEF BansGrow
<1>7. CASE StaffSteps
      BY <1>6, <1>7, Zenon
      DEF StaffSteps, handleCreateReport, handleReviewReport, handleSetPlayerRole,
          UpdateRole, handleAddAllowedEmail, handleRemoveAllowedEmail
<1>8. CASE AuthSteps
      BY <1>6, <1>8, Zenon
      DEF AuthSteps, QuietMod, HandleGitHubCallback, HandleBotLogin, GetSession, CheckBan,
          Rotate, FinishRefresh, HandleLogout, SessionExpires, ConsumeBan, PublishRevoked
<1>9. CASE BanSteps
      BY <1>1, <1>4, <1>5, <1>9 DEF BanSteps
<1>10. QED
      BY <1>6, <1>7, <1>8, <1>9 DEF AccountNext, accountVars, modVars

\* A refresh past its ban check was not banned throughout; one before it that was is
\* banned now.
TabInv == \A t \in Tabs : tab[t] # Idle =>
    /\ tab[t] \in Refresh /\ tab[t].session \in 1 .. Len(sessions)
    /\ tab[t].step = "ban" /\ tab[t].banned =>
          CheckActiveBan(sessions[tab[t].session].player)
    /\ tab[t].step # "ban" => ~tab[t].banned

SessionRowsOK ==
    /\ sessions \in Seq(Session) /\ Len(sessions) <= MaxSessions
    /\ BanStopsRefresh

(* player_sessions: rows are added, revoked and expire; a refresh adds one *)
(* only if its player was not banned throughout.                           *)
LEMMA SessionRows ==
    ASSUME bans \in Seq(Ban), SessionRowsOK, TabInv, [AccountNext]_accountVars
    PROVE  SessionRowsOK' /\ SessionsGrow
<1> USE DEF SessionRowsOK
<1>1. ASSUME NEW s \in 1 .. Len(sessions)
      PROVE  s \in DOMAIN sessions /\ sessions[s] \in Session /\ sessions[s].player \in Players
             /\ ~sessions[s].despite
  <2>1. s \in DOMAIN sessions /\ sessions[s] \in Session
        BY RowCount
  <2>2. QED
        BY <2>1 DEF Session, BanStopsRefresh
<1>2. CASE UNCHANGED sessions
      BY <1>2 DEF SessionsGrow, BanStopsRefresh
<1>3. ASSUME NEW p \in Players, CreateSession(p, FALSE) PROVE SessionRowsOK' /\ SessionsGrow
  <2> DEFINE row == [player |-> p, revoked |-> FALSE, expired |-> FALSE, despite |-> FALSE]
  <2>1. row \in Session /\ ~row.despite
        BY DEF Session
  <2>2. sessions' = Append(sessions, row) /\ Len(sessions) < MaxSessions
        BY <1>3 DEF CreateSession
  <2> HIDE DEF row
  <2>3. /\ sessions' \in Seq(Session) /\ Len(sessions') = Len(sessions) + 1
        /\ sessions'[Len(sessions) + 1] = row
        /\ \A s \in 1 .. Len(sessions) : sessions'[s] = sessions[s]
        BY <2>1, <2>2, AddRow
  <2>4. \A s \in DOMAIN sessions' : ~sessions'[s].despite
        BY <1>1, <2>1, <2>3
  <2>5. QED
        BY <2>2, <2>3, <2>4, AuthAssumption DEF SessionsGrow, BanStopsRefresh
<1>4. ASSUME NEW s \in 1 .. Len(sessions), NEW row \in Session,
             sessions' = [sessions EXCEPT ![s] = row], row.player = sessions[s].player,
             sessions[s].revoked => row.revoked, row.despite = sessions[s].despite
      PROVE  SessionRowsOK' /\ SessionsGrow
  <2>1. /\ sessions' \in Seq(Session) /\ Len(sessions') = Len(sessions)
        /\ sessions'[s] = row
        /\ \A r \in 1 .. Len(sessions) : r # s => sessions'[r] = sessions[r]
        BY <1>1, <1>4, ChangeRow
  <2>2. \A r \in DOMAIN sessions' : ~sessions'[r].despite
        BY <1>1, <1>4, <2>1
  <2>3. QED
        BY <1>4, <2>1, <2>2 DEF SessionsGrow, BanStopsRefresh
<1>5. ASSUME NEW s \in 1 .. Len(sessions), RevokeSession(s)
      PROVE  SessionRowsOK' /\ SessionsGrow
  <2>1. sessions' = [sessions EXCEPT ![s] = [sessions[s] EXCEPT !.revoked = TRUE]]
        BY <1>5 DEF RevokeSession
  <2>2. QED
        BY <1>1, <1>4, <2>1, Zenon DEF Session
<1>6. ASSUME NEW p, RevokeAllSessions(p) PROVE SessionRowsOK' /\ SessionsGrow
  <2>1. \A s \in 1 .. Len(sessions) :
           /\ sessions'[s] \in Session
           /\ sessions'[s].player = sessions[s].player
           /\ sessions[s].revoked => sessions'[s].revoked
           /\ ~sessions'[s].despite
        BY <1>1, <1>6, Zenon DEF RevokeAllSessions, Session
  <2>2. sessions' = [s \in 1 .. Len(sessions) |-> sessions'[s]]
        BY <1>6 DEF RevokeAllSessions
  <2>3. sessions' \in Seq(Session) /\ Len(sessions') = Len(sessions)
        BY <2>1, <2>2, RowCount
  <2>4. QED
        BY <2>1, <2>3 DEF SessionsGrow, BanStopsRefresh
<1>7. CASE BanSteps \/ StaffSteps
      BY <1>2, <1>7 DEF BanSteps, StaffSteps, authVars
<1>8. ASSUME NEW p \in Players, HandleGitHubCallback(p) \/ HandleBotLogin(p)
      PROVE  SessionRowsOK' /\ SessionsGrow
      BY <1>2, <1>3, <1>8, Zenon DEF HandleGitHubCallback, HandleBotLogin
<1>9. ASSUME NEW t \in Tabs, CheckBan(t) \/ Rotate(t) \/ FinishRefresh(t)
      PROVE  SessionRowsOK' /\ SessionsGrow
  <2>1. tab[t] # Idle /\ tab[t].session \in 1 .. Len(sessions)
        BY <1>9 DEF CheckBan, Rotate, FinishRefresh, TabInv
  <2>2. CASE CheckBan(t) \/ Rotate(t)
        BY <1>2, <1>5, <2>1, <2>2 DEF CheckBan, Rotate
  <2>3. CASE FinishRefresh(t)
    <3>1. tab[t].banned = FALSE
          BY <2>1, <2>3 DEF FinishRefresh, TabInv, Refresh
    <3>2. CreateSession(sessions[tab[t].session].player, FALSE) \/ UNCHANGED sessions
          BY <2>3, <3>1, Zenon DEF FinishRefresh
    <3>3. QED
          BY <1>1, <1>2, <1>3, <2>1, <3>2, Zenon
  <2>4. QED
        BY <1>9, <2>2, <2>3
<1>10. ASSUME NEW s \in DOMAIN sessions, HandleLogout(s) \/ SessionExpires(s)
       PROVE  SessionRowsOK' /\ SessionsGrow
  <2>1. s \in 1 .. Len(sessions)
        BY RowCount
  <2>2. CASE HandleLogout(s)
        BY <1>5, <2>1, <2>2 DEF HandleLogout
  <2>3. CASE SessionExpires(s)
    <3>1. sessions' = [sessions EXCEPT ![s] = [sessions[s] EXCEPT !.expired = TRUE]]
          BY <2>3 DEF SessionExpires
    <3>2. QED
          BY <1>1, <1>4, <2>1, <3>1, Zenon DEF Session
  <2>4. QED
        BY <1>10, <2>2, <2>3
<1>11. CASE AuthSteps
  <2>1. CASE \E t \in Tabs, s \in DOMAIN sessions : GetSession(t, s)
        BY <1>2, <2>1 DEF GetSession
  <2>2. CASE \E b \in DOMAIN bans : ConsumeBan(b) \/ PublishRevoked(b)
        BY <1>2, <1>6, <2>2 DEF ConsumeBan, PublishRevoked
  <2>3. QED
        BY <1>8, <1>9, <1>10, <1>11, <2>1, <2>2 DEF AuthSteps
<1>12. QED
       BY <1>2, <1>7, <1>11 DEF AccountNext, accountVars, authVars

(* refresh: the ban check stands between reading a session and replacing   *)
(* it, whatever managers do meanwhile.                                     *)
LEMMA TabStep ==
    ASSUME bans \in Seq(Ban), SessionRowsOK, tab \in [Tabs -> {Idle} \cup Refresh], TabInv,
           [AccountNext]_accountVars
    PROVE  tab' \in [Tabs -> {Idle} \cup Refresh] /\ TabInv'
<1>1. SessionRowsOK' /\ SessionsGrow
      BY SessionRows
<1>2. \A s \in 1 .. Len(sessions) :
         s \in 1 .. Len(sessions') /\ sessions'[s].player = sessions[s].player
      BY <1>1 DEF SessionRowsOK, SessionsGrow
<1>3. \A p : UNCHANGED bans => (CheckActiveBan(p)' <=> CheckActiveBan(p))
      BY DEF CheckActiveBan
<1>4. CASE UNCHANGED <<bans, tab>>
      BY <1>2, <1>3, <1>4 DEF TabInv
<1>5. ASSUME NEW t \in Tabs, NEW row \in {Idle} \cup Refresh, UNCHANGED bans,
             tab' = [tab EXCEPT ![t] = row],
             row # Idle => /\ row \in Refresh /\ row.session \in 1 .. Len(sessions)
                           /\ row.step = "ban" /\ row.banned =>
                                 CheckActiveBan(sessions[row.session].player)
                           /\ row.step # "ban" => ~row.banned
      PROVE  tab' \in [Tabs -> {Idle} \cup Refresh] /\ TabInv'
  <2>1. tab' \in [Tabs -> {Idle} \cup Refresh] /\ tab'[t] = row
        /\ \A u \in Tabs : u # t => tab'[u] = tab[u]
        BY <1>5
  <2>2. QED
        BY <1>2, <1>3, <1>5, <2>1 DEF TabInv
<1>6. ASSUME WatchedBans, UNCHANGED sessions
      PROVE  tab' \in [Tabs -> {Idle} \cup Refresh] /\ TabInv'
  <2> DEFINE Now(p) == \E b \in DOMAIN bans' :
                 bans'[b].player = p /\ ~bans'[b].lifted /\ ~bans'[b].expired
  <2>1. ASSUME NEW t \in Tabs, tab[t] # Idle
        PROVE  LET now == Now(sessions[tab[t].session].player) IN
               tab'[t] = [session |-> tab[t].session, step |-> tab[t].step,
                          banned |-> tab[t].banned /\ now]
    <3>1. tab[t] \in Refresh /\ sessions[tab[t].session].player \in Players
      <4>1. tab[t] \in Refresh /\ tab[t].session \in 1 .. Len(sessions)
            BY <2>1 DEF TabInv
      <4>2. sessions[tab[t].session] \in Session
            BY <4>1, RowCount DEF SessionRowsOK
      <4>3. QED
            BY <4>1, <4>2 DEF Session
    <3>2. tab'[t] = [tab[t] EXCEPT !.banned =
             @ /\ \E p \in Players : p = sessions[tab[t].session].player /\ CheckActiveBan(p)']
          BY <1>6, <2>1 DEF WatchedBans
    <3>3. (\E p \in Players : p = sessions[tab[t].session].player /\ CheckActiveBan(p)')
          <=> Now(sessions[tab[t].session].player)
          BY <1>6, <3>1 DEF CheckActiveBan
    <3> HIDE DEF Now
    <3>4. QED
          BY <3>1, <3>2, <3>3 DEF Refresh
  <2>2. \A t \in Tabs : tab[t] = Idle => tab'[t] = Idle
        BY <1>6 DEF WatchedBans
  <2>3. ASSUME NEW t \in Tabs, tab[t] # Idle
        PROVE  /\ tab'[t] \in Refresh /\ tab'[t].session \in 1 .. Len(sessions)
               /\ tab'[t].step = "ban" /\ tab'[t].banned =>
                     Now(sessions[tab'[t].session].player)
               /\ tab'[t].step # "ban" => ~tab'[t].banned
    <3>1. tab[t] \in Refresh /\ tab[t].session \in 1 .. Len(sessions)
          /\ (tab[t].step # "ban" => ~tab[t].banned)
          BY <2>3 DEF TabInv
    <3> DEFINE now == Now(sessions[tab[t].session].player)
    <3>3. tab'[t] = [session |-> tab[t].session, step |-> tab[t].step,
                     banned |-> tab[t].banned /\ now]
          BY <2>1, <2>3
    <3>4. CASE now
      <4>1. tab[t].banned \in BOOLEAN /\ (tab[t].banned /\ now) = tab[t].banned
            BY <3>1, <3>4 DEF Refresh
      <4>2. tab'[t] = [session |-> tab[t].session, step |-> tab[t].step,
                       banned |-> tab[t].banned]
            BY <3>3, <4>1
      <4>3. QED
            BY <3>1, <3>4, <4>2 DEF Refresh
    <3>5. CASE ~now
      <4>1. (tab[t].banned /\ now) = FALSE
            BY <3>5
      <4>2. tab'[t] = [session |-> tab[t].session, step |-> tab[t].step, banned |-> FALSE]
            BY <3>3, <4>1, Zenon
      <4>3. QED
            BY <3>1, <4>2 DEF Refresh
    <3>6. QED
          BY <3>4, <3>5
  <2>4. tab' \in [Tabs -> {Idle} \cup Refresh]
    <3>1. tab' = [t \in Tabs |-> tab'[t]]
          BY <1>6 DEF WatchedBans
    <3>2. \A t \in Tabs : tab'[t] \in {Idle} \cup Refresh
          BY <2>2, <2>3
    <3>3. QED
          BY <3>1, <3>2
  <2>5. QED
        BY <1>6, <2>2, <2>3, <2>4 DEF TabInv, CheckActiveBan
<1>7. CASE BanSteps
      BY <1>6, <1>7 DEF BanSteps
<1>8. CASE StaffSteps
      BY <1>4, <1>8, Zenon
      DEF StaffSteps, authVars, handleCreateReport, handleReviewReport, handleSetPlayerRole,
          UpdateRole, handleAddAllowedEmail, handleRemoveAllowedEmail
<1>9. ASSUME NEW t \in Tabs, NEW s \in DOMAIN sessions, GetSession(t, s)
      PROVE  tab' \in [Tabs -> {Idle} \cup Refresh] /\ TabInv'
  <2> DEFINE row == [session |-> s, step |-> "ban", banned |-> CheckActiveBan(sessions[s].player)]
  <2>1. s \in 1 .. Len(sessions) /\ s \in 1 .. MaxSessions
        BY RowCount, AuthAssumption DEF SessionRowsOK
  <2>2. CheckActiveBan(sessions[s].player) \in BOOLEAN
        BY DEF CheckActiveBan
  <2>3. row \in Refresh
        BY <2>1, <2>2 DEF Refresh
  <2>4. UNCHANGED bans /\ tab' = [tab EXCEPT ![t] = row]
        BY <1>9 DEF GetSession, QuietMod
  <2>5. QED
        BY <1>5, <2>1, <2>3, <2>4, Zenon
<1>10. ASSUME NEW t \in Tabs, CheckBan(t) \/ Rotate(t) \/ FinishRefresh(t)
       PROVE  tab' \in [Tabs -> {Idle} \cup Refresh] /\ TabInv'
  <2>1. UNCHANGED bans
        BY <1>10 DEF CheckBan, Rotate, FinishRefresh, QuietMod
  <2>2. /\ tab[t] \in Refresh /\ tab[t].session \in 1 .. Len(sessions)
        /\ tab[t].step = "ban" /\ tab[t].banned =>
              CheckActiveBan(sessions[tab[t].session].player)
        /\ tab[t].step # "ban" => ~tab[t].banned
        BY <1>10 DEF CheckBan, Rotate, FinishRefresh, TabInv
  <2>3. \/ tab' = [tab EXCEPT ![t] = Idle]
        \/ /\ tab[t].step = "ban" /\ ~CheckActiveBan(sessions[tab[t].session].player)
           /\ tab' = [tab EXCEPT ![t] = [tab[t] EXCEPT !.step = "rotate"]]
        \/ /\ tab[t].step = "rotate"
           /\ tab' = [tab EXCEPT ![t] = [tab[t] EXCEPT !.step = "create"]]
        BY <1>10 DEF CheckBan, Rotate, FinishRefresh
  <2>4. CASE tab' = [tab EXCEPT ![t] = Idle]
        BY <1>5, <2>1, <2>4, Zenon
  <2>5. CASE /\ tab[t].step = "ban" /\ ~CheckActiveBan(sessions[tab[t].session].player)
             /\ tab' = [tab EXCEPT ![t] = [tab[t] EXCEPT !.step = "rotate"]]
        BY <1>5, <2>1, <2>2, <2>5, Zenon DEF Refresh
  <2>6. CASE /\ tab[t].step = "rotate"
             /\ tab' = [tab EXCEPT ![t] = [tab[t] EXCEPT !.step = "create"]]
        BY <1>5, <2>1, <2>2, <2>6, Zenon DEF Refresh
  <2>7. QED
        BY <2>3, <2>4, <2>5, <2>6
<1>11. CASE AuthSteps
  <2>1. CASE UNCHANGED <<bans, tab>>
        BY <1>4, <2>1
  <2>2. CASE \E p \in Players : HandleGitHubCallback(p) \/ HandleBotLogin(p)
        BY <2>1, <2>2, Zenon DEF HandleGitHubCallback, HandleBotLogin, QuietMod
  <2>3. CASE \E s \in DOMAIN sessions : HandleLogout(s) \/ SessionExpires(s)
        BY <2>1, <2>3 DEF HandleLogout, SessionExpires, QuietMod
  <2>4. CASE \E b \in DOMAIN bans : ConsumeBan(b) \/ PublishRevoked(b)
        BY <2>1, <2>4, Zenon DEF ConsumeBan, PublishRevoked, QuietMod
  <2>5. QED
        BY <1>9, <1>10, <1>11, <2>2, <2>3, <2>4 DEF AuthSteps
<1>12. QED
       BY <1>4, <1>7, <1>8, <1>11 DEF AccountNext, accountVars, authVars, modVars

(***************************************************************************)
(* Roles.                                                                  *)
(***************************************************************************)
\* A change in progress never takes the founder's role, and an invitation to more
\* than a player's was an owner's.
RoleInv ==
    /\ role \in [Players -> Roles \cup {"absent"}]
    /\ token \in [Players -> Roles \cup {"absent"}]
    /\ roleReq \in [Players -> {Idle} \cup [target : Players, new : Roles]]
    /\ emails \in [Players -> {Idle} \cup [role : Roles, by : {"manager", "owner"}]]
    /\ AlwaysAnOwner /\ RolesFromOwners
    /\ \A by \in Players : roleReq[by] # Idle /\ roleReq[by].target = Founder =>
                              roleReq[by].new = "owner"
    /\ \A p \in Players : emails[p] # Idle /\ emails[p].role # "player" =>
                             emails[p].by = "owner"

(* SetPlayerRole, AddAllowedEmail, the first login and every token keep    *)
(* RoleInv, the two statements of a role change apart.                     *)
LEMMA RoleStep ==
    ASSUME RoleInv, SessionRowsOK, TabInv, [AccountNext]_accountVars
    PROVE  RoleInv'
<1> USE ModerationAssumption DEF RoleInv, AlwaysAnOwner, RolesFromOwners
<1>1. CASE UNCHANGED <<role, token, roleReq, emails, vouched>>
      BY <1>1
<1>2. CASE BanSteps
      BY <1>1, <1>2, Zenon DEF BanSteps, handleIssueBan, handleLiftBan, BanExpires
<1>3. ASSUME NEW by \in Players, NEW p \in Players, NEW r \in Roles,
             handleSetPlayerRole(by, p, r)
      PROVE  RoleInv'
      BY <1>3 DEF handleSetPlayerRole, SetPlayerRole
<1>4. ASSUME NEW by \in Players, UpdateRole(by) PROVE RoleInv'
  <2>1. roleReq[by] \in [target : Players, new : Roles]
        BY <1>4 DEF UpdateRole
  <2>2. QED
        BY <1>4, <2>1 DEF UpdateRole, Roles
<1>5. ASSUME NEW by \in Players, NEW e \in Players, NEW r \in Roles,
             handleAddAllowedEmail(by, e, r)
      PROVE  RoleInv'
  <2> DEFINE row == [role |-> r, by |-> token[by]]
  <2>1. token[by] \in {"manager", "owner"} /\ (token[by] = "manager" => r = "player")
        BY <1>5, Zenon DEF handleAddAllowedEmail, requireRole, hasRole
  <2>2. emails' = [emails EXCEPT ![e] = row]
        BY <1>5, Zenon DEF handleAddAllowedEmail, AddAllowedEmail
  <2>3. row \in [role : Roles, by : {"manager", "owner"}] /\ (row.role # "player" => row.by = "owner")
        BY <2>1
  <2> HIDE DEF row
  <2>4. /\ emails' \in [Players -> {Idle} \cup [role : Roles, by : {"manager", "owner"}]]
        /\ \A p \in Players : emails'[p] # Idle /\ emails'[p].role # "player" =>
                                 emails'[p].by = "owner"
        BY <2>2, <2>3, Zenon
  <2>5. QED
        BY <1>5, <2>4 DEF handleAddAllowedEmail
<1>6. ASSUME NEW by \in Players, NEW e \in Players, handleRemoveAllowedEmail(by, e)
      PROVE  RoleInv'
      BY <1>6 DEF handleRemoveAllowedEmail, RemoveAllowedEmail
<1>7. CASE StaffSteps
      BY <1>1, <1>3, <1>4, <1>5, <1>6, <1>7, Zenon
      DEF StaffSteps, handleCreateReport, handleReviewReport
<1>8. ASSUME NEW p \in Players, HandleGitHubCallback(p) PROVE RoleInv'
  <2>1. UNCHANGED <<roleReq, emails>>
        BY <1>8 DEF HandleGitHubCallback, QuietMod
  <2>2. /\ emails[p] \in [role : Roles, by : {"manager", "owner"}]
        /\ emails[p].role # "player" => emails[p].by = "owner"
        BY <1>8 DEF HandleGitHubCallback, IsEmailAllowed
  <2>3. /\ role' \in [Players -> Roles \cup {"absent"}] /\ role'[Founder] = "owner"
        /\ \A q \in Players : role'[q] \in {"manager", "owner"} => q \in vouched'
    <3>1. CASE role[p] = "absent"
      <4>1. role' = [role EXCEPT ![p] = emails[p].role] /\ vouched \subseteq vouched'
            /\ (emails[p].by = "owner" => p \in vouched')
            BY <1>8, <3>1 DEF HandleGitHubCallback, UpsertOAuthIdentity
      <4>2. QED
            BY <2>2, <3>1, <4>1
    <3>2. CASE role[p] # "absent"
          BY <1>8, <3>2 DEF HandleGitHubCallback, UpsertOAuthIdentity
    <3>3. QED
          BY <3>1, <3>2
  <2>4. token' \in [Players -> Roles \cup {"absent"}]
        BY <1>8, <2>3, ZenonT(60) DEF HandleGitHubCallback
  <2>5. QED
        BY <2>1, <2>3, <2>4
<1>9. ASSUME NEW p \in Players, UNCHANGED <<role, roleReq, emails, vouched>>,
             token' = [token EXCEPT ![p] = role[p]]
      PROVE  RoleInv'
      BY <1>9, Zenon
<1>10. ASSUME NEW p \in Players, HandleBotLogin(p) PROVE RoleInv'
       BY <1>9, <1>10, Zenon DEF HandleBotLogin, QuietMod
<1>11. ASSUME NEW t \in Tabs, FinishRefresh(t) PROVE RoleInv'
  <2>1. tab[t].session \in 1 .. Len(sessions)
        BY <1>11, Zenon DEF FinishRefresh, TabInv
  <2>2. sessions[tab[t].session].player \in Players
    <3>1. sessions[tab[t].session] \in Session
          BY <2>1, RowCount DEF SessionRowsOK
    <3>2. QED
          BY <3>1 DEF Session
  <2>3. QED
        BY <1>1, <1>9, <1>11, <2>2, Zenon DEF FinishRefresh, QuietMod
<1>12. CASE AuthSteps
       BY <1>1, <1>8, <1>10, <1>11, <1>12, Zenon
       DEF AuthSteps, QuietMod, GetSession, CheckBan, Rotate, HandleLogout, SessionExpires,
           ConsumeBan, PublishRevoked
<1>13. QED
       BY <1>1, <1>2, <1>7, <1>12 DEF AccountNext, accountVars, modVars

(***************************************************************************)
(* Decisions of managers.                                                  *)
(***************************************************************************)
\* A decision with an entry in the log is taken.
DecisionInv ==
    /\ reports \in Seq(Report) /\ Len(reports) <= MaxReports
    /\ audit \in [Audited -> 0 .. 2]
    /\ \A b \in 1 .. MaxBans : /\ audit[<<"ban_lifted", b>>] <= 1
                               /\ audit[<<"ban_lifted", b>>] # 0 =>
                                     b \in 1 .. Len(bans) /\ bans[b].lifted
    /\ \A i \in 1 .. MaxReports : /\ audit[<<"report_reviewed", i>>] <= 1
                                  /\ audit[<<"report_reviewed", i>>] # 0 =>
                                        /\ i \in 1 .. Len(reports)
                                        /\ reports[i].status = "reviewed"

(* LogAction: the first entry for a decision, or none if it fails.         *)
LEMMA FirstEntry ==
    ASSUME NEW a \in Audited, audit \in [Audited -> 0 .. 2], audit[a] = 0, LogAction(a)
    PROVE  /\ audit' \in [Audited -> 0 .. 2] /\ audit'[a] \in 0 .. 1
           /\ \A x \in Audited : x # a => audit'[x] = audit[x]
<1>1. audit' = audit \/ audit' = [audit EXCEPT ![a] = 1]
      BY DEF LogAction
<1>2. QED
      BY <1>1

(* LiftBan and ReviewReport: the UPDATE finds its row once, and the entry  *)
(* of the log comes with it.                                               *)
LEMMA DecisionStep ==
    ASSUME bans \in Seq(Ban), Len(bans) <= MaxBans, sessions \in Seq(Session),
           DecisionInv, [AccountNext]_accountVars
    PROVE  DecisionInv'
<1>1. bans' \in Seq(Ban) /\ BansGrow
      BY BanRows
<1>2. \A b \in 1 .. Len(bans) : b \in 1 .. Len(bans') /\ (bans[b].lifted => bans'[b].lifted)
      BY <1>1 DEF BansGrow
<1>3. CASE UNCHANGED <<reports, audit>>
      BY <1>2, <1>3, Zenon DEF DecisionInv
<1>4. ASSUME NEW by \in Players, NEW b \in DOMAIN bans, handleLiftBan(by, b)
      PROVE  DecisionInv'
  <2>1. b \in 1 .. Len(bans) /\ b \in 1 .. MaxBans
        BY RowCount, ModerationAssumption
  <2>2. ~bans[b].lifted
        BY <1>4 DEF handleLiftBan, LiftBan
  <2>3. bans'[b].lifted
    <3>1. bans[b] \in Ban
          BY <2>1, RowCount
    <3>2. QED
          BY <1>4, <3>1 DEF handleLiftBan, LiftBan, Ban
  <2>4. audit[<<"ban_lifted", b>>] = 0
        BY <2>1, <2>2 DEF DecisionInv
  <2>5. /\ audit' \in [Audited -> 0 .. 2] /\ audit'[<<"ban_lifted", b>>] \in 0 .. 1
        /\ \A a \in Audited : a # <<"ban_lifted", b>> => audit'[a] = audit[a]
    <3>1. <<"ban_lifted", b>> \in Audited
          BY <2>1 DEF Audited
    <3>2. QED
          BY <1>4, <2>4, <3>1, FirstEntry DEF DecisionInv, handleLiftBan
  <2>6. \A c \in 1 .. MaxBans : c # b =>
           <<"ban_lifted", c>> \in Audited /\ <<"ban_lifted", c>> # <<"ban_lifted", b>>
        BY DEF Audited
  <2>7. \A i \in 1 .. MaxReports :
           <<"report_reviewed", i>> \in Audited /\ <<"report_reviewed", i>> # <<"ban_lifted", b>>
        BY DEF Audited
  <2>8. UNCHANGED reports
        BY <1>4 DEF handleLiftBan
  <2>9. \A c \in 1 .. MaxBans : /\ audit'[<<"ban_lifted", c>>] <= 1
                                /\ audit'[<<"ban_lifted", c>>] # 0 =>
                                      c \in 1 .. Len(bans') /\ bans'[c].lifted
    <3>1. ASSUME NEW c \in 1 .. MaxBans, c # b
          PROVE  audit'[<<"ban_lifted", c>>] = audit[<<"ban_lifted", c>>]
          BY <2>5, <2>6, <3>1
    <3>2. ASSUME NEW c \in 1 .. MaxBans
          PROVE  /\ audit'[<<"ban_lifted", c>>] <= 1
                 /\ audit'[<<"ban_lifted", c>>] # 0 => c \in 1 .. Len(bans') /\ bans'[c].lifted
      <4>1. CASE c = b
            BY <1>2, <2>1, <2>3, <2>5, <4>1
      <4>2. CASE c # b
            BY <1>2, <3>1, <4>2, Zenon DEF DecisionInv
      <4>3. QED
            BY <4>1, <4>2
    <3>3. QED
          BY <3>2
  <2>10. \A i \in 1 .. MaxReports :
            audit'[<<"report_reviewed", i>>] = audit[<<"report_reviewed", i>>]
        BY <2>5, <2>7
  <2>11. QED
        BY <2>5, <2>8, <2>9, <2>10 DEF DecisionInv
<1>5. ASSUME NEW by \in Players, NEW p \in Players, handleCreateReport(by, p)
      PROVE  DecisionInv'
  <2> DEFINE row == [reporter |-> by, reported |-> p, status |-> "pending"]
  <2>1. row \in Report
        BY DEF Report
  <2>2. reports' = Append(reports, row) /\ Len(reports) < MaxReports /\ UNCHANGED <<bans, audit>>
        BY <1>5 DEF handleCreateReport
  <2> HIDE DEF row
  <2>3. /\ reports' \in Seq(Report) /\ Len(reports') = Len(reports) + 1
        /\ \A i \in 1 .. Len(reports) : reports'[i] = reports[i]
        BY <2>1, <2>2, AddRow DEF DecisionInv
  <2>4. QED
        BY <2>2, <2>3, ModerationAssumption DEF DecisionInv
<1>6. ASSUME NEW by \in Players, NEW i \in DOMAIN reports, handleReviewReport(by, i)
      PROVE  DecisionInv'
  <2>1. i \in 1 .. Len(reports) /\ i \in 1 .. MaxReports
        BY RowCount, ModerationAssumption DEF DecisionInv
  <2>2. reports[i] \in Report /\ reports[i].status = "pending"
        BY <1>6, <2>1, RowCount DEF DecisionInv, handleReviewReport, ReviewReport
  <2> DEFINE row == [reports[i] EXCEPT !.status = "reviewed"]
  <2>3. row \in Report /\ row.status = "reviewed"
        BY <2>2 DEF Report
  <2>4. reports' = [reports EXCEPT ![i] = row]
        BY <1>6 DEF handleReviewReport, ReviewReport
  <2> HIDE DEF row
  <2>5. /\ reports' \in Seq(Report) /\ Len(reports') = Len(reports)
        /\ reports'[i] = row
        /\ \A j \in 1 .. Len(reports) : j # i => reports'[j] = reports[j]
        BY <2>3, <2>4, ChangeRow DEF DecisionInv
  <2>6. audit[<<"report_reviewed", i>>] = 0
        BY <2>1, <2>2, Zenon DEF DecisionInv
  <2>7. /\ audit' \in [Audited -> 0 .. 2] /\ audit'[<<"report_reviewed", i>>] \in 0 .. 1
        /\ \A a \in Audited : a # <<"report_reviewed", i>> => audit'[a] = audit[a]
    <3>1. <<"report_reviewed", i>> \in Audited
          BY <2>1 DEF Audited
    <3>2. QED
          BY <1>6, <2>6, <3>1, FirstEntry DEF DecisionInv, handleReviewReport
  <2>8. \A b \in 1 .. MaxBans : audit'[<<"ban_lifted", b>>] = audit[<<"ban_lifted", b>>]
    <3>1. \A b \in 1 .. MaxBans :
             <<"ban_lifted", b>> \in Audited /\ <<"ban_lifted", b>> # <<"report_reviewed", i>>
          BY DEF Audited
    <3>2. QED
          BY <2>7, <3>1
  <2>9. \A j \in 1 .. MaxReports : j # i =>
           audit'[<<"report_reviewed", j>>] = audit[<<"report_reviewed", j>>]
    <3>1. \A j \in 1 .. MaxReports : j # i =>
             <<"report_reviewed", j>> \in Audited /\ <<"report_reviewed", j>> # <<"report_reviewed", i>>
          BY DEF Audited
    <3>2. QED
          BY <2>7, <3>1
  <2>10. ASSUME NEW j \in 1 .. MaxReports
         PROVE  /\ audit'[<<"report_reviewed", j>>] <= 1
                /\ audit'[<<"report_reviewed", j>>] # 0 =>
                      j \in 1 .. Len(reports') /\ reports'[j].status = "reviewed"
    <3>1. CASE j = i
          BY <2>1, <2>3, <2>5, <2>7, <3>1
    <3>2. CASE j # i
          BY <2>5, <2>9, <3>2, Zenon DEF DecisionInv
    <3>3. QED
          BY <3>1, <3>2
  <2>11. QED
        BY <1>2, <2>5, <2>7, <2>8, <2>10 DEF DecisionInv
<1>7. CASE BanSteps
      BY <1>3, <1>4, <1>7, Zenon DEF BanSteps, handleIssueBan, BanExpires
<1>8. CASE StaffSteps
      BY <1>3, <1>5, <1>6, <1>8
      DEF StaffSteps, handleSetPlayerRole, UpdateRole, handleAddAllowedEmail,
          handleRemoveAllowedEmail
<1>9. CASE AuthSteps
      BY <1>3, <1>9, Zenon
      DEF AuthSteps, QuietMod, HandleGitHubCallback, HandleBotLogin, GetSession, CheckBan,
          Rotate, FinishRefresh, HandleLogout, SessionExpires, ConsumeBan, PublishRevoked
<1>10. QED
       BY <1>3, <1>7, <1>8, <1>9 DEF AccountNext, accountVars, modVars

(***************************************************************************)
(* The consumer of player.banned.                                          *)
(***************************************************************************)
\* The sessions its player had when ban b was issued are over.
Ended(b) == \A s \in 1 .. bans[b].sessions :
    sessions[s].player = bans[b].player => sessions[s].revoked

\* That holds once the consumer's statement has succeeded, before the event is
\* acknowledged and from then on; the event is in the queue until then.
RevokeInv ==
    /\ authQueue \subseteq 1 .. Len(bans) /\ revoking \subseteq 1 .. Len(bans)
    /\ failed \subseteq 1 .. Len(bans)
    /\ \A b \in 1 .. Len(bans) :
          /\ bans[b].sessions <= Len(sessions)
          /\ b \in revoking \ failed => Ended(b)
          /\ bans[b].sent /\ b \notin authQueue \cup failed => Ended(b)

(* ConsumeBan before PublishRevoked: the event is acknowledged only after  *)
(* the statement that revokes, and a redelivery undoes nothing.            *)
LEMMA RevokeStep ==
    ASSUME bans \in Seq(Ban), Len(bans) <= MaxBans, SessionRowsOK, TabInv, RevokeInv,
           [AccountNext]_accountVars
    PROVE  RevokeInv'
<1>1. bans' \in Seq(Ban) /\ BansGrow
      BY BanRows DEF SessionRowsOK
<1>2. sessions \in Seq(Session) /\ sessions' \in Seq(Session) /\ SessionsGrow
      BY SessionRows DEF SessionRowsOK
<1>3. \A b \in 1 .. Len(bans) : bans[b].sessions \in Nat /\ bans[b].sessions <= Len(sessions)
  <2>1. \A b \in 1 .. Len(bans) : bans[b] \in Ban
        BY RowCount, Zenon
  <2>2. QED
        BY <2>1 DEF Ban, RevokeInv
<1>4. ASSUME NEW b \in 1 .. Len(bans)
      PROVE  /\ b \in 1 .. Len(bans') /\ bans'[b].sent = bans[b].sent
             /\ bans'[b].sessions <= Len(sessions')
             /\ Ended(b) => Ended(b)'
  <2>1. /\ b \in 1 .. Len(bans') /\ bans'[b].sent = bans[b].sent
        /\ bans'[b].sessions = bans[b].sessions /\ bans'[b].player = bans[b].player
        BY <1>1 DEF BansGrow
  <2>2. \A s \in 1 .. bans[b].sessions : s \in 1 .. Len(sessions)
        BY <1>2, <1>3
  <2>3. Ended(b) => Ended(b)'
        BY <1>2, <2>1, <2>2, Zenon DEF Ended, SessionsGrow
  <2>4. QED
        BY <1>2, <1>3, <2>1, <2>3 DEF SessionsGrow
<1>5. CASE Len(bans') = Len(bans) /\ UNCHANGED <<authQueue, revoking, failed>>
      BY <1>4, <1>5, Zenon DEF RevokeInv
<1>6. ASSUME NEW by \in Players, NEW p \in Players, NEW n \in 0 .. Len(sessions),
             handleIssueBan(by, p, n), UNCHANGED <<sessions, revoking, failed>>
      PROVE  RevokeInv'
  <2> DEFINE row == [player |-> p, lifted |-> FALSE, expired |-> FALSE,
                     sessions |-> n, sent |-> published' # published]
  <2> DEFINE new == Len(bans) + 1
  <2>1. row \in Ban
        BY DEF Ban
  <2>2. bans' = Append(bans, row)
        BY <1>6 DEF handleIssueBan, IssueBan
  <2>3. row.sessions = n /\ (row.sent => published' # published)
        BY Zenon
  <2> HIDE DEF row
  <2>4. Len(bans') = new /\ bans'[new] = row
        BY <2>1, <2>2, AddRow
  <2>5. /\ authQueue' \subseteq authQueue \cup {new} /\ authQueue \subseteq authQueue'
        /\ bans'[new].sent => new \in authQueue'
        BY <1>6, <2>3, <2>4, Zenon DEF handleIssueBan, PublishPlayerBanned
  <2>6. new \notin revoking /\ bans'[new].sessions <= Len(sessions')
        BY <1>6, <2>3, <2>4, <1>2, RowCount DEF RevokeInv
  <2>7. \A b \in 1 .. Len(bans') : b \in 1 .. Len(bans) \/ b = new
        BY <2>4, RowCount
  <2>8. /\ authQueue' \subseteq 1 .. Len(bans') /\ revoking' \subseteq 1 .. Len(bans')
        /\ failed' \subseteq 1 .. Len(bans')
        BY <1>6, <2>4, <2>5, RowCount DEF RevokeInv
  <2>9. ASSUME NEW b \in 1 .. Len(bans')
        PROVE  /\ bans'[b].sessions <= Len(sessions')
               /\ b \in revoking' \ failed' => Ended(b)'
               /\ bans'[b].sent /\ b \notin authQueue' \cup failed' => Ended(b)'
    <3>1. CASE b = new
          BY <1>6, <2>5, <2>6, <3>1, Zenon
    <3>2. CASE b \in 1 .. Len(bans)
          BY <1>4, <1>6, <2>5, <3>2, Zenon DEF RevokeInv
    <3>3. QED
          BY <2>7, <3>1, <3>2
  <2>10. QED
        BY <2>8, <2>9, Zenon DEF RevokeInv
<1>7. ASSUME NEW c \in DOMAIN bans, ConsumeBan(c) PROVE RevokeInv'
  <2>1. UNCHANGED <<bans, authQueue>> /\ c \in 1 .. Len(bans) /\ c \in authQueue
        /\ revoking' = revoking \cup {c} /\ (failed' = failed \ {c} \/ failed' = failed \cup {c})
        BY <1>7, RowCount, Zenon DEF ConsumeBan, QuietMod
  <2>2. c \notin failed' => Ended(c)'
    <3>1. SUFFICES ASSUME c \notin failed' PROVE Ended(c)'
          OBVIOUS
    <3>2. RevokeAllSessions(bans[c].player)
          BY <1>7, <3>1 DEF ConsumeBan
    <3>3. ASSUME NEW s \in 1 .. Len(sessions), sessions'[s].player = bans[c].player
          PROVE  sessions'[s].revoked
      <4>1. sessions[s] \in Session /\ s \in DOMAIN sessions
            BY <1>2, RowCount
      <4>2. QED
            BY <3>2, <3>3, <4>1 DEF RevokeAllSessions, Session
    <3>4. QED
          BY <1>2, <1>3, <2>1, <3>3 DEF Ended
  <2>3. QED
        BY <1>4, <2>1, <2>2, Zenon DEF RevokeInv
<1>8. ASSUME NEW c \in DOMAIN bans, PublishRevoked(c) PROVE RevokeInv'
  <2>1. UNCHANGED <<bans, failed>> /\ c \in revoking /\ revoking' = revoking \ {c}
        /\ (authQueue' = authQueue \ {c} \/ authQueue' = authQueue)
        BY <1>8 DEF PublishRevoked
  <2>2. QED
        BY <1>4, <2>1, Zenon DEF RevokeInv
<1>9. ASSUME NEW b \in DOMAIN bans,
             (\E by \in Players : handleLiftBan(by, b)) \/ BanExpires(b)
      PROVE  Len(bans') = Len(bans) /\ UNCHANGED authQueue
  <2>1. DOMAIN bans' = DOMAIN bans /\ UNCHANGED authQueue
        BY <1>9 DEF handleLiftBan, LiftBan, BanExpires
  <2>2. QED
        BY <1>1, <2>1, RowCount
<1>10. CASE BanSteps
       BY <1>5, <1>6, <1>9, <1>10 DEF BanSteps
<1>11. CASE StaffSteps
       BY <1>5, <1>11, Zenon
       DEF StaffSteps, authVars, handleCreateReport, handleReviewReport, handleSetPlayerRole,
           UpdateRole, handleAddAllowedEmail, handleRemoveAllowedEmail
<1>12. CASE AuthSteps
       BY <1>5, <1>7, <1>8, <1>12, Zenon
       DEF AuthSteps, QuietMod, HandleGitHubCallback, HandleBotLogin, GetSession, CheckBan,
           Rotate, FinishRefresh, HandleLogout, SessionExpires
<1>13. QED
       BY <1>5, <1>10, <1>11, <1>12 DEF AccountNext, accountVars, authVars, modVars

(***************************************************************************)
(* The theorems.                                                           *)
(***************************************************************************)
AccountInv ==
    /\ bans \in Seq(Ban) /\ Len(bans) <= MaxBans
    /\ SessionRowsOK
    /\ tab \in [Tabs -> {Idle} \cup Refresh] /\ TabInv
    /\ RoleInv /\ DecisionInv /\ RevokeInv

(* The seeded database satisfies the invariant and every operation keeps   *)
(* it.                                                                     *)
LEMMA AccountInductive == AccountSpec => []AccountInv
<1>1. AccountInit => AccountInv
  <2> SUFFICES ASSUME NEW roles \in [Players -> Roles \cup {"absent"}],
                      roles[Founder] = "owner", ModInit(roles), AuthInit
               PROVE  AccountInv
      BY DEF AccountInit
  <2>1. bans = <<>> /\ sessions = <<>> /\ reports = <<>>
        BY DEF ModInit, AuthInit
  <2>2. bans \in Seq(Ban) /\ sessions \in Seq(Session) /\ reports \in Seq(Report)
        /\ Len(bans) = 0 /\ Len(sessions) = 0 /\ Len(reports) = 0
        BY <2>1
  <2>3. SessionRowsOK
        BY <2>1, <2>2, AuthAssumption DEF SessionRowsOK, BanStopsRefresh
  <2>4. tab \in [Tabs -> {Idle} \cup Refresh] /\ TabInv
        BY Zenon DEF AuthInit, TabInv
  <2>5. RoleInv
    <3>1. ASSUME NEW p \in Players
          PROVE  \/ emails[p] = Idle
                 \/ /\ emails[p] = [role |-> roles[p], by |-> "owner"]
                    /\ roles[p] \in Roles
          BY DEF ModInit
    <3>2. emails \in [Players -> {Idle} \cup [role : Roles, by : {"manager", "owner"}]]
      <4>1. emails = [p \in Players |-> emails[p]]
            BY Zenon DEF ModInit
      <4>2. QED
            BY <3>1, <4>1
    <3>3. QED
          BY <3>1, <3>2, ModerationAssumption
          DEF ModInit, RoleInv, AlwaysAnOwner, RolesFromOwners
  <2>6. DecisionInv
    <3>1. \A a \in Audited : audit[a] = 0
          BY DEF ModInit
    <3>2. audit \in [Audited -> 0 .. 2]
          BY DEF ModInit
    <3>3. \A b \in 1 .. MaxBans : <<"ban_lifted", b>> \in Audited
          BY DEF Audited
    <3>4. \A i \in 1 .. MaxReports : <<"report_reviewed", i>> \in Audited
          BY Zenon DEF Audited
    <3>5. QED
          BY <2>2, <3>1, <3>2, <3>3, <3>4, ModerationAssumption DEF DecisionInv
  <2>7. RevokeInv
        BY <2>2 DEF ModInit, AuthInit, RevokeInv
  <2>8. QED
        BY <2>2, <2>3, <2>4, <2>5, <2>6, <2>7, ModerationAssumption DEF AccountInv
<1>2. AccountInv /\ [AccountNext]_accountVars => AccountInv'
  <2> SUFFICES ASSUME AccountInv, [AccountNext]_accountVars PROVE AccountInv'
      OBVIOUS
  <2>1. sessions \in Seq(Session)
        BY DEF AccountInv, SessionRowsOK
  <2>2. QED
        BY <2>1, BanRows, SessionRows, TabStep, RoleStep, DecisionStep, RevokeStep DEF AccountInv
<1>3. QED
      BY <1>1, <1>2, PTL DEF AccountSpec

(* SetPlayerRole (store_admin.go): the check and the UPDATE are two        *)
(* statements, and the founder stays an owner all the same.                *)
THEOREM FounderStays == AccountSpec => []AlwaysAnOwner
<1>1. AccountInv => AlwaysAnOwner
      BY Zenon DEF AccountInv, RoleInv
<1>2. QED
      BY <1>1, AccountInductive, PTL

(* Stale tokens and overlapping changes included, every manager and every  *)
(* owner was made one by an owner.                                         *)
THEOREM OwnersChoose == AccountSpec => []RolesFromOwners
<1>1. AccountInv => RolesFromOwners
      BY Zenon DEF AccountInv, RoleInv
<1>2. QED
      BY <1>1, AccountInductive, PTL

(* LiftBan and ReviewReport: whoever asks, and however often, a decision   *)
(* is taken once and logged at most once.                                  *)
THEOREM DecisionsTakenOnce == AccountSpec => []DecidedOnce
<1>1. AccountInv => DecidedOnce
  <2> SUFFICES ASSUME AccountInv PROVE DecidedOnce
      OBVIOUS
  <2>1. \A a \in Audited : audit[a] <= 1
    <3>1. SUFFICES ASSUME NEW a \in Audited PROVE audit[a] <= 1
          OBVIOUS
    <3>2. (\E b \in 1 .. MaxBans : a = <<"ban_lifted", b>>)
          \/ (\E i \in 1 .. MaxReports : a = <<"report_reviewed", i>>)
          BY DEF Audited
    <3>3. QED
          BY <3>2 DEF AccountInv, DecisionInv
  <2>2. \A b \in 1 .. MaxBans : audit[<<"ban_lifted", b>>] = 1 => bans[b].lifted
        BY DEF AccountInv, DecisionInv
  <2>3. QED
        BY <2>1, <2>2 DEF DecidedOnce
<1>2. QED
      BY <1>1, AccountInductive, PTL

(* HandleRefresh: a refresh during all of which its player was banned      *)
(* creates no session, with any number of tabs and bans.                   *)
THEOREM RefreshStopped == AccountSpec => []BanStopsRefresh
<1>1. AccountInv => BanStopsRefresh
      BY Zenon DEF AccountInv, SessionRowsOK
<1>2. QED
      BY <1>1, AccountInductive, PTL

(* The consumer of player.banned: once a ban is acknowledged, unless the   *)
(* statement failed, the sessions there were are revoked.                  *)
THEOREM SessionsEnded == AccountSpec => []BanEndsSessions
<1>1. AccountInv => BanEndsSessions
  <2> SUFFICES ASSUME AccountInv PROVE BanEndsSessions
      OBVIOUS
  <2>1. DOMAIN bans = 1 .. Len(bans)
        BY RowCount DEF AccountInv
  <2>2. QED
        BY <2>1 DEF AccountInv, RevokeInv, Ended, BanEndsSessions
<1>2. QED
      BY <1>1, AccountInductive, PTL

(* Together: what the operations of the staff keep, however they overlap    *)
(* (store_admin.go, store_bans.go).                                        *)
THEOREM StaffIsSound == AccountSpec => []StaffSound
<1>1. AlwaysAnOwner /\ RolesFromOwners /\ DecidedOnce => StaffSound
      BY DEF StaffSound
<1>2. QED
      BY <1>1, FounderStays, OwnersChoose, DecisionsTakenOnce, PTL

(* Together: what a ban does to the sessions of its player (handler.go,     *)
(* consumer.go of auth-service).                                           *)
THEOREM BansReachEverySession == AccountSpec => []BansReachSessions
<1>1. BanStopsRefresh /\ BanEndsSessions => BansReachSessions
      BY DEF BansReachSessions
<1>2. QED
      BY <1>1, RefreshStopped, SessionsEnded, PTL
=============================================================================
