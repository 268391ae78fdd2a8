------------------------------ MODULE EventLog ------------------------------
(***************************************************************************)
(* The event log of game-server: a Redis stream for a session that is      *)
(* played, copied to the table session_events when it ends.                *)
(*                                                                         *)
(* Redis numbers the entries of each stream by the clock, so entries of    *)
(* two streams may share an id; the table has one UNIQUE(stream_id).       *)
(***************************************************************************)
EXTENDS Notifications
LOCAL INSTANCE SequencesExt

CONSTANTS
    Games,       \* sessions that are logged
    MaxStamp     \* bound: ids the clock can give

VARIABLES
    stream,      \* entries of each session's stream; no entry, no stream
    table,       \* rows of session_events, in the order of insertion
    persisting,  \* what each handler that ends a session is doing
    reading,     \* a Read in progress
    appended,    \* history: all entries of each session
    late         \* history: entries added after a Persist had read the stream, or
                 \* not inserted because of another session's row

eventVars == <<stream, table, persisting, reading, appended, late>>

Entries == [game : Games, stamp : 1 .. MaxStamp]

EventTypeOK ==
    /\ \A g \in Games : \A i \in DOMAIN stream[g] : stream[g][i] \in Entries /\ stream[g][i].game = g
    /\ \A i \in DOMAIN table : table[i] \in Entries
    /\ late \subseteq Entries

EventInit ==
    /\ stream = [g \in Games |-> <<>>] /\ table = <<>>
    /\ persisting = [h \in Handlers |-> Idle] /\ reading = Idle
    /\ appended = [g \in Games |-> <<>>] /\ late = {}

In(s) == {s[i] : i \in DOMAIN s}

\* XADD gives an id greater than any the stream has given; a stream that was deleted
\* starts again, with the clock further on.
AppendEvent(g) == \E t \in 1 .. MaxStamp :
    /\ \A e \in In(appended[g]) : t > e.stamp
    /\ stream' = [stream EXCEPT ![g] = Append(@, [game |-> g, stamp |-> t])]
    /\ appended' = [appended EXCEPT ![g] = Append(@, [game |-> g, stamp |-> t])]
    /\ late' = IF \/ \E h \in Handlers : persisting[h] # Idle /\ persisting[h].game = g
                  \/ \E e \in In(table) : e.game = g
               THEN late \cup {[game |-> g, stamp |-> t]} ELSE late
    /\ UNCHANGED <<table, persisting, reading>>

(***************************************************************************)
(* Persist.                                                                *)
(***************************************************************************)
\* XRANGE; a stream with no entry, or an error, ends it.
PersistReads(h, g) ==
    /\ persisting[h] = Idle /\ stream[g] # <<>>
    /\ persisting' = [persisting EXCEPT ![h] = [game |-> g, step |-> "insert", entries |-> stream[g]]]
    /\ UNCHANGED <<stream, table, reading, appended, late>>

Fresh(entries) ==
    SelectSeq(entries, LAMBDA e : \A r \in In(table) : r.stamp # e.stamp)

BulkCreateSessionEvents_IgnoresError(h) == LET w == persisting[h] IN
    /\ w # Idle /\ w.step = "insert"
    /\ \/ /\ table' = table \o Fresh(w.entries)
          /\ late' = late \cup (In(w.entries) \ In(table'))
       \/ UNCHANGED <<table, late>>
    /\ persisting' = [persisting EXCEPT ![h] = [game |-> w.game, step |-> "delete"]]
    /\ UNCHANGED <<stream, reading, appended>>

\* One transaction; ON CONFLICT (stream_id) DO NOTHING.  An error leaves the stream.
BulkCreateSessionEvents(h) == LET w == persisting[h] IN
    /\ w # Idle /\ w.step = "insert"
    /\ \/ /\ table' = table \o Fresh(w.entries)
          /\ late' = late \cup (In(w.entries) \ In(table'))
          /\ persisting' = [persisting EXCEPT ![h] = [game |-> w.game, step |-> "delete"]]
       \/ /\ persisting' = [persisting EXCEPT ![h] = Idle]
          /\ UNCHANGED <<table, late>>
    /\ UNCHANGED <<stream, reading, appended>>

\* Or an error, or the process dies before it.
DeleteStream(h) == LET w == persisting[h] IN
    /\ w # Idle /\ w.step = "delete"
    /\ stream' \in {stream, [stream EXCEPT ![w.game] = <<>>]}
    /\ persisting' = [persisting EXCEPT ![h] = Idle]
    /\ UNCHANGED <<table, reading, appended, late>>

(***************************************************************************)
(* Read looks whether there is a stream, then reads it or the table.       *)
(***************************************************************************)
ReadFrom(g) == IF stream[g] # <<>> THEN "stream" ELSE "table"

ReadLooks(g) ==
    /\ reading = Idle
    /\ reading' = [game |-> g, from |-> ReadFrom(g), known |-> appended[g]]
    /\ UNCHANGED <<stream, table, persisting, appended, late>>

\* ListSessionEvents: the session's rows by time.
readFromDB(g) ==
    SetToSortSeq({e \in In(table) : e.game = g}, LAMBDA e, f : e.stamp < f.stamp)

Answer == IF reading.from = "stream" THEN stream[reading.game] ELSE readFromDB(reading.game)

ReadAnswers ==
    /\ reading # Idle
    /\ reading' = Idle
    /\ UNCHANGED <<stream, table, persisting, appended, late>>

(***************************************************************************)
(* Properties.                                                             *)
(***************************************************************************)
\* An entry is in the stream or in the table until and after Persist, whatever fails
\* or dies, unless it came late or another session had its id.
NothingLost == \A g \in Games :
    In(appended[g]) \subseteq In(stream[g]) \cup In(table) \cup late

\* Two Persists of a session, or one repeated after its stream was not deleted, insert
\* each entry once.
LoggedOnce == \A i, j \in DOMAIN table : table[i] = table[j] => i = j

\* Read answers with every entry there was when it began, in order, unless the stream
\* it found was deleted before it read it, or some entry came late or was not inserted.
ReadComplete == [][reading # Idle /\ reading' = Idle =>
    \/ Len(Answer) >= Len(reading.known) /\ SubSeq(Answer, 1, Len(reading.known)) = reading.known
    \/ reading.from = "stream" /\ stream[reading.game] = <<>>
    \/ \E e \in late : e.game = reading.game]_<<reading, appended>>

\* What the log keeps while sessions end and are read (events.go): every entry, once,
\* and in the answer of Read.
EventLogSound == [](NothingLost /\ LoggedOnce) /\ ReadComplete
=============================================================================
