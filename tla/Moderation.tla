----------------------------- MODULE Moderation -----------------------------
(***************************************************************************)
(* user-service for managers and owners: bans, reports, roles, invitations *)
(* and the audit log.  A caller's rights are those of the role in their    *)
(* access token, which may be older than their row.                        *)
(***************************************************************************)
EXTENDS Notifications

CONSTANTS
    Founder,     \* the owner seeded with the database
    MaxBans,     \* bound: bans issued in a behaviour
    MaxReports   \* bound: reports filed in a behaviour

ASSUME ModerationAssumption == Founder \in Players /\ MaxBans \in Nat /\ MaxReports \in Nat

VARIABLES
    bans,        \* rows of users.bans
    authQueue,   \* bans whose player.banned auth-service has not acknowledged
    reports,     \* rows of users.player_reports
    audit,       \* entries of the audit log, by action and target
    role,        \* role of each player's row, "absent" before the first login
    token,       \* role in each player's access token, "absent" without one
    roleReq,     \* the role change in progress of each caller
    emails,      \* rows of allowed_emails, one address to a player
    vouched      \* history: players whose role an owner chose

modVars == <<bans, authQueue, reports, audit, role, token, roleReq, emails, vouched>>

Roles == {"player", "manager", "owner"}
Audited == ({"ban_lifted"} \X (1 .. MaxBans)) \cup ({"report_reviewed"} \X (1 .. MaxReports))
Ban == [player : Players, lifted : BOOLEAN, expired : BOOLEAN, sessions : Nat, sent : BOOLEAN]
Report == [reporter : Players, reported : Players, status : {"pending", "reviewed"}]

ModTypeOK ==
    /\ bans \in Seq(Ban) /\ Len(bans) <= MaxBans
    /\ authQueue \subseteq DOMAIN bans
    /\ reports \in Seq(Report) /\ Len(reports) <= MaxReports
    /\ audit \in [Audited -> 0 .. 2]
    /\ role \in [Players -> Roles \cup {"absent"}]
    /\ token \in [Players -> Roles \cup {"absent"}]
    /\ roleReq \in [Players -> {Idle} \cup [target : Players, new : Roles]]
    /\ emails \in [Players -> {Idle} \cup [role : Roles, by : {"manager", "owner"}]]
    /\ vouched \subseteq Players

\* The founder, and players who have logged in before.
ModInit(roles) ==
    /\ bans = <<>> /\ authQueue = {} /\ reports = <<>>
    /\ audit = [a \in Audited |-> 0]
    /\ role = roles /\ token = roles
    /\ roleReq = [p \in Players |-> Idle]
    /\ emails = [p \in Players |-> IF roles[p] = "absent" THEN Idle
                                   ELSE [role |-> roles[p], by |-> "owner"]]
    /\ vouched = {p \in Players : roles[p] \in {"manager", "owner"}}

\* hasRole: each role has the rights of those below it.
hasRole(p, r) == \/ r = "manager" /\ token[p] \in {"manager", "owner"}
                 \/ token[p] = r

\* The router's check of the caller.
requireRole(p, r) == token[p] # "absent" /\ hasRole(p, r)

\* An entry is written, or the error is ignored.
LogAction(a) == audit' \in {audit, [audit EXCEPT ![a] = IF @ < 2 THEN @ + 1 ELSE @]}

(***************************************************************************)
(* Bans.                                                                   *)
(***************************************************************************)
\* The properties ask for what is kept with the row: the number n of sessions there
\* are, and whether the event was sent.
IssueBan(p, n, sent) ==
    bans' = Append(bans, [player |-> p, lifted |-> FALSE, expired |-> FALSE,
                          sessions |-> n, sent |-> sent])

\* XADD to the stream that two consumer groups read, or an error, which is logged.
PublishPlayerBanned(b, p, by) ==
    /\ Publish([kind |-> "player.banned", one |-> p, other |-> by])
    /\ authQueue' = IF published' # published THEN authQueue \cup {b} ELSE authQueue

handleIssueBan(by, p, n) ==
    /\ requireRole(by, "manager") /\ Len(bans) < MaxBans
    /\ PublishPlayerBanned(Len(bans) + 1, p, by)
    /\ IssueBan(p, n, published' # published)
    /\ UNCHANGED <<tries, job, dedupe, notes, pushes, accepting, marred>>
    /\ UNCHANGED <<reports, audit, role, token, roleReq, emails, vouched>>

\* The UPDATE finds the row only while it is not lifted.
LiftBan(b) ==
    /\ ~bans[b].lifted
    /\ bans' = [bans EXCEPT ![b].lifted = TRUE]

handleLiftBan(by, b) ==
    /\ requireRole(by, "manager") /\ b \in DOMAIN bans
    /\ LiftBan(b)
    /\ LogAction(<<"ban_lifted", b>>)
    /\ UNCHANGED <<authQueue, reports, role, token, roleReq, emails, vouched, notifVars>>

BanExpires(b) ==
    /\ b \in DOMAIN bans /\ ~bans[b].expired
    /\ bans' = [bans EXCEPT ![b].expired = TRUE]
    /\ UNCHANGED <<authQueue, reports, audit, role, token, roleReq, emails, vouched, notifVars>>

\* A ban that is neither lifted nor over.
CheckActiveBan(p) ==
    \E b \in DOMAIN bans : bans[b].player = p /\ ~bans[b].lifted /\ ~bans[b].expired

(***************************************************************************)
(* Reports.                                                                *)
(***************************************************************************)
handleCreateReport(by, p) ==
    /\ by # p /\ token[by] # "absent" /\ Len(reports) < MaxReports
    /\ reports' = Append(reports, [reporter |-> by, reported |-> p, status |-> "pending"])
    /\ UNCHANGED <<bans, authQueue, audit, role, token, roleReq, emails, vouched, notifVars>>

ReviewReport(i) ==
    /\ reports[i].status = "pending"
    /\ reports' = [reports EXCEPT ![i].status = "reviewed"]

handleReviewReport(by, i) ==
    /\ requireRole(by, "manager") /\ i \in DOMAIN reports
    /\ ReviewReport(i)
    /\ LogAction(<<"report_reviewed", i>>)
    /\ UNCHANGED <<bans, authQueue, role, token, roleReq, emails, vouched, notifVars>>

(***************************************************************************)
(* Roles and invitations.                                                  *)
(***************************************************************************)
SetPlayerRole_Unchecked(by, p, new) ==
    /\ role[p] # "absent"
    /\ roleReq' = [roleReq EXCEPT ![by] = [target |-> p, new |-> new]]

\* The target's role is read and judged; the UPDATE is a later statement.
SetPlayerRole(by, p, new) ==
    /\ role[p] # "absent"
    /\ role[p] = "owner" => new = "owner"
    /\ roleReq' = [roleReq EXCEPT ![by] = [target |-> p, new |-> new]]

\* Owners only; an owner may not demote themselves.
handleSetPlayerRole(by, p, new) ==
    /\ roleReq[by] = Idle
    /\ requireRole(by, "owner") /\ (by = p => new = "owner")
    /\ SetPlayerRole(by, p, new)
    /\ UNCHANGED <<bans, authQueue, reports, audit, role, token, emails, vouched, notifVars>>

UpdateRole(by) ==
    /\ roleReq[by] # Idle
    /\ role' = [role EXCEPT ![roleReq[by].target] = roleReq[by].new]
    /\ vouched' = vouched \cup {roleReq[by].target}
    /\ roleReq' = [roleReq EXCEPT ![by] = Idle]
    /\ UNCHANGED <<bans, authQueue, reports, audit, token, emails, notifVars>>

AddAllowedEmail(by, e, r) == emails' = [emails EXCEPT ![e] = [role |-> r, by |-> token[by]]]

RemoveAllowedEmail(e) == emails[e] # Idle /\ emails' = [emails EXCEPT ![e] = Idle]

\* An invitation, or a new role for one; managers invite players only.
handleAddAllowedEmail(by, e, r) ==
    /\ requireRole(by, "manager")
    /\ token[by] = "manager" => r = "player"
    /\ AddAllowedEmail(by, e, r)
    /\ UNCHANGED <<bans, authQueue, reports, audit, role, token, roleReq, vouched, notifVars>>

handleRemoveAllowedEmail(by, e) ==
    /\ requireRole(by, "manager") /\ RemoveAllowedEmail(e)
    /\ UNCHANGED <<bans, authQueue, reports, audit, role, token, roleReq, vouched, notifVars>>

(***************************************************************************)
(* Properties.                                                             *)
(***************************************************************************)
\* One decision, one entry: of two managers who lift a ban or review a report at the
\* same time one does it, and the audit log never holds a second entry for it.
DecidedOnce ==
    /\ \A a \in Audited : audit[a] <= 1
    /\ \A b \in 1 .. MaxBans : audit[<<"ban_lifted", b>>] = 1 => bans[b].lifted

\* There is always an owner.  SetPlayerRole reads before it writes, so that two
\* changes can overlap and undo a promotion just made; the founder is out of reach of
\* any overlap.
AlwaysAnOwner == role[Founder] = "owner"

\* Nobody is a manager or an owner unless an owner chose it, by a role change or by
\* the invitation the account was created from.
RolesFromOwners == \A p \in Players : role[p] \in {"manager", "owner"} => p \in vouched

\* What the staff's operations keep, however they overlap (store_admin.go,
\* store_bans.go): roles come from owners, one stays, and decisions are taken once.
StaffSound == AlwaysAnOwner /\ RolesFromOwners /\ DecidedOnce
=============================================================================
