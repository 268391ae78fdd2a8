-------------------------------- MODULE Chat --------------------------------
(***************************************************************************)
(* chat-service: direct messages behind the receiver's privacy setting,    *)
(* room messages behind a seat at the table, read receipts, reports and    *)
(* hidden messages.  A request checks first and writes afterwards; the     *)
(* settings, the friendships and the seats may change in between.          *)
(***************************************************************************)
EXTENDS Social

Sets == INSTANCE FiniteSetsExt

CONSTANT MaxMessages  \* bound: direct messages, and room messages, of a behaviour

VARIABLES
    dmReq,     \* the send in progress of each player
    dms,       \* rows of direct_messages
    seated,    \* players with a row in room_players of the one room, kept by game-server
    roomReq,   \* the room message in progress of each player
    room,      \* rows of room_messages
    against    \* history: what has held all the time a request was in progress

chatVars == <<dmReq, dms, seated, roomReq, room, against>>

DM == [from : Players, to : Players, read : BOOLEAN, receipts : 0 .. 2, reported : BOOLEAN,
       unwanted : BOOLEAN]
RoomMessage == [player : Players, reported : BOOLEAN, hidden : BOOLEAN, stranger : BOOLEAN]

ChatTypeOK ==
    /\ dmReq \in [Players -> {Idle} \cup [to : Players, step : {"friends", "save"}]]
    /\ dms \in Seq(DM) /\ Len(dms) <= MaxMessages
    /\ seated \subseteq Players
    /\ roomReq \in [Players -> {Idle, "save"}]
    /\ room \in Seq(RoomMessage) /\ Len(room) <= MaxMessages
    /\ against \in [Players -> [closed : BOOLEAN, strangers : BOOLEAN, unseated : BOOLEAN]]

Clean == [closed |-> FALSE, strangers |-> FALSE, unseated |-> FALSE]

ChatInit ==
    /\ dmReq = [p \in Players |-> Idle] /\ dms = <<>>
    /\ seated = {}
    /\ roomReq = [p \in Players |-> Idle] /\ room = <<>>
    /\ against = [p \in Players |-> Clean]

QuietSocial == UNCHANGED <<socialVars, notifVars>>

(***************************************************************************)
(* Direct messages.                                                        *)
(***************************************************************************)
\* The column holds a quoted string, or nothing when the key is unset; an error of
\* the query is taken for a missing row.
GetAllowDMs(p) ==
    IF settings[p] = NoRow \/ settings[p].allow_dms = "unset" THEN "anyone"
    ELSE settings[p].allow_dms

Friends(p, q) == \E pr \in {<<p, q>>, <<q, p>>} : friendship[pr] = "accepted"

\* The privacy gate: nobody refuses, friends_only asks user-service, anyone passes.
handleSendDM(p, q) == \E failed \in BOOLEAN :
    LET allow == IF failed THEN "anyone" ELSE GetAllowDMs(q) IN
    /\ p # q /\ dmReq[p] = Idle /\ Len(dms) < MaxMessages
    /\ allow # "nobody"
    /\ dmReq' = [dmReq EXCEPT ![p] =
           [to |-> q, step |-> IF allow = "friends_only" THEN "friends" ELSE "save"]]
    /\ against' = [against EXCEPT ![p] =
           [closed |-> ~failed /\ GetAllowDMs(q) = "nobody",
            strangers |-> ~failed /\ GetAllowDMs(q) # "anyone" /\ ~Friends(p, q),
            unseated |-> against[p].unseated]]
    /\ QuietSocial /\ UNCHANGED <<dms, seated, roomReq, room>>

AreFriends_AnyRow(p, q) == {status # "none" : status \in grpcGetFriendship(p, q)}

AreFriends(p, q) == {status = "accepted" : status \in grpcGetFriendship(p, q)}

\* The answer of user-service; without one, or without a friendship, the send ends.
CheckFriends(p) ==
    /\ dmReq[p] # Idle /\ dmReq[p].step = "friends"
    /\ \/ /\ TRUE \in AreFriends(p, dmReq[p].to)
          /\ dmReq' = [dmReq EXCEPT ![p].step = "save"]
       \/ dmReq' = [dmReq EXCEPT ![p] = Idle]
    /\ QuietSocial /\ UNCHANGED <<dms, seated, roomReq, room, against>>

SaveDM(p) ==
    /\ dmReq[p] # Idle /\ dmReq[p].step = "save" /\ Len(dms) < MaxMessages
    /\ dms' = Append(dms, [from |-> p, to |-> dmReq[p].to, read |-> FALSE, receipts |-> 0,
                           reported |-> FALSE,
                           unwanted |-> against[p].closed \/ against[p].strangers])
    /\ dmReq' = [dmReq EXCEPT ![p] = Idle]
    /\ QuietSocial /\ UNCHANGED <<seated, roomReq, room, against>>

\* One UPDATE marks and reports whether it did; the receipt follows only then.
MarkDMRead(i, p) ==
    /\ dms[i].to = p /\ ~dms[i].read
    /\ dms' = [dms EXCEPT ![i].read = TRUE, ![i].receipts = IF @ < 2 THEN @ + 1 ELSE @]

handleMarkDMRead == \E i \in DOMAIN dms, p \in Players :
    /\ MarkDMRead(i, p)
    /\ QuietSocial /\ UNCHANGED <<dmReq, seated, roomReq, room, against>>

ReportDM(i) == dms' = [dms EXCEPT ![i].reported = TRUE]

handleReportDM == \E i \in DOMAIN dms :
    /\ ReportDM(i)
    /\ QuietSocial /\ UNCHANGED <<dmReq, seated, roomReq, room, against>>

GetUnreadDMCount(p) == Cardinality({i \in DOMAIN dms : dms[i].to = p /\ ~dms[i].read})

\* The conversations of a player, with the unread messages of each.
ListDMConversations(p) ==
    LET others == {q \in Players \ {p} : \E i \in DOMAIN dms : {dms[i].from, dms[i].to} = {p, q}}
    IN [q \in others |-> Cardinality({i \in DOMAIN dms :
                             dms[i].to = p /\ dms[i].from = q /\ ~dms[i].read})]

(***************************************************************************)
(* Room messages.                                                          *)
(***************************************************************************)
IsRoomParticipant(p) == p \in seated

handleSendRoomMessage(p) ==
    /\ roomReq[p] = Idle /\ Len(room) < MaxMessages
    /\ IsRoomParticipant(p)
    /\ roomReq' = [roomReq EXCEPT ![p] = "save"]
    /\ against' = [against EXCEPT ![p].unseated = p \notin seated]
    /\ QuietSocial /\ UNCHANGED <<dmReq, dms, seated, room>>

SaveRoomMessage(p) ==
    /\ roomReq[p] = "save" /\ Len(room) < MaxMessages
    /\ room' = Append(room, [player |-> p, reported |-> FALSE, hidden |-> FALSE,
                             stranger |-> against[p].unseated])
    /\ roomReq' = [roomReq EXCEPT ![p] = Idle]
    /\ QuietSocial /\ UNCHANGED <<dmReq, dms, seated, against>>

ReportRoomMessage(i) == room' = [room EXCEPT ![i].reported = TRUE]

handleReportRoomMessage == \E i \in DOMAIN room, p \in Players :
    /\ IsRoomParticipant(p)
    /\ ReportRoomMessage(i)
    /\ QuietSocial /\ UNCHANGED <<dmReq, dms, seated, roomReq, against>>

HideRoomMessage(i) == room' = [room EXCEPT ![i].hidden = TRUE]

handleHideRoomMessage == \E i \in DOMAIN room :
    /\ HideRoomMessage(i)
    /\ QuietSocial /\ UNCHANGED <<dmReq, dms, seated, roomReq, against>>

\* The lobby seats and unseats a player.
Reseat(p) ==
    /\ seated' = IF p \in seated THEN seated \ {p} ELSE seated \cup {p}
    /\ against' = [against EXCEPT ![p].unseated = @ /\ p \notin seated']
    /\ QuietSocial /\ UNCHANGED <<dmReq, dms, roomReq, room>>

\* What user-service does while requests are in progress, and what it ends.
Watched == against' = [p \in Players |->
    IF dmReq[p] = Idle THEN against[p]
    ELSE LET q == dmReq[p].to IN
         [against[p] EXCEPT !.closed = @ /\ (GetAllowDMs(q))' = "nobody",
                            !.strangers = @ /\ (GetAllowDMs(q))' # "anyone" /\ ~Friends(p, q)']]

(***************************************************************************)
(* Properties.                                                             *)
(***************************************************************************)
\* No direct message arrives against a wish that stood all the time: one sent and
\* stored while the receiver accepted nobody, or accepted friends and no friendship
\* existed, from the request's first read to its INSERT.  The two reads of the gate
\* are apart, and a failed read of the settings counts as "anyone".
WishesRespected == \A i \in DOMAIN dms : ~dms[i].unwanted

\* A read receipt is sent once for a message, and only for one that is read, whatever
\* the number of devices that open it.
ReceiptOnce == \A i \in DOMAIN dms : dms[i].receipts = IF dms[i].read THEN 1 ELSE 0

\* The gate and the settings page read the same stored map by different code, with a
\* default each: they agree on whom a player accepts messages from.
GateReadsSettings == \A p \in Players : GetAllowDMs(p) = GetPlayerSettings(p).allow_dms

\* The unread badge is the sum of the conversations' counts: two queries, one number.
BadgeIsSum == \A p \in UNION {{dms[i].from, dms[i].to} : i \in DOMAIN dms} :
    LET unread == ListDMConversations(p)
    IN GetUnreadDMCount(p) = Sets!MapThenSumSet(LAMBDA q : unread[q], DOMAIN unread)

\* A spectator's message never gets into the room: its author had a seat at some
\* moment of the request.
SeatedAuthors == \A i \in DOMAIN room : ~room[i].stranger

\* The gates in front of a message hold and receipts tell the truth (api_dms.go,
\* api_rooms.go).
GatesHold == WishesRespected /\ SeatedAuthors /\ ReceiptOnce /\ GateReadsSettings

\* What chat-service promises (api_dms.go, api_rooms.go): the gates in front of a
\* message hold, and receipts and counts tell the truth.
ChatSound == GatesHold /\ BadgeIsSum
=============================================================================
