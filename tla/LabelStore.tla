---------------------------- MODULE LabelStore -----------------------------
(* The claims about one address and the attributor that answers from them:  *)
(* intel/service.py, policy.py and LabelRepository for the transactions,    *)
(* intel/attributor_source.py for the index a running server holds.         *)
(*                                                                          *)
(* Transactions run at read committed.  Each reads, then writes under row   *)
(* locks, then commits; what it decided may be stale by the time it writes. *)
(* Event ids come from a sequence when the event is written, before its     *)
(* transaction commits.  A row read into a session keeps the content it had *)
(* (the ORM's identity map).  Category, address form and confidence are     *)
(* part of a claim's entity; a source's URL and dates are not modelled.     *)
EXTENDS Naturals, Sequences, FiniteSets, FiniteSetsExt, SequencesExt

CONSTANTS Source,      \* who makes claims
          Trusted,     \* the methods that activate a claim on arrival
          Offers,      \* the claims that may arrive: [source, entity, method]
          Ingest,      \* transactions that record a claim, at most one step each at a time
          MaxClaims,   \* claims filed in a behaviour
          MaxRollbacks,\* transactions that fail in a behaviour
          Nil

Bot == "reconcile"
Transaction == Ingest \cup {Bot}

\* A row of labels: what is claimed and how, whether it is served, and the source
\* that corroborates it.
Label == [entity : {offer.entity : offer \in Offers}, method : {offer.method : offer \in Offers},
          status : {"active", "pending"}, by : Source \cup {Nil}]

\* Sources and offers are finitely many; Nil is no label, and the reconcile no ingest.
ASSUME LabelAssumption ==
    /\ IsFiniteSet(Source) /\ \A offer \in Offers : offer.source \in Source
    /\ Nil \notin Label /\ Bot \notin Ingest

VARIABLES rows,       \* the committed label of each source, or Nil
          events,     \* the committed label_events
          nextEvent,  \* the sequence event ids are taken from
          txn,        \* what each transaction has read and not yet committed
          filed,      \* claims filed so far
          failed,     \* transactions that failed so far
          index,      \* what the attributor answers: {<<source, entity>>}
          watermark,  \* the event id the index was read at
          stage,      \* of the attributor: "down", "built", "up", "checked"
          latest,     \* the event id a refresh has read
          passed      \* events committed behind the attributor's back
labelVars == <<rows, events, nextEvent, txn, filed, failed, index, watermark, stage, latest, passed>>

\* A transaction: the rows it has read, the columns it has changed and the events it
\* has written.
Session(step, seen, sets, wrote, offer) ==
    [step |-> step, seen |-> seen, sets |-> sets, wrote |-> wrote, offer |-> offer]

NoTxn == Session("idle", Nil, <<>>, {}, Nil)

Overlaid(changes, base) ==
    [x \in DOMAIN changes \cup DOMAIN base |-> IF x \in DOMAIN changes THEN changes[x] ELSE base[x]]

ArrivalStatus(method) == IF method \in Trusted THEN "active" ELSE "pending"

\* policy.corroborates, of the claims in view, for the claimant s.
Corroborators(view, s) ==
    {c \in Source \ {s} : /\ view[c] # Nil
                          /\ view[c].status = "active"
                          /\ view[c].method \in Trusted
                          /\ view[c].entity = view[s].entity}

ActiveRows(view) == {s \in Source : view[s] # Nil /\ view[s].status = "active"}
PendingRows(view) == {s \in Source : view[s] # Nil /\ view[s].status = "pending"}
Attributed(view) == {<<s, view[s].entity>> : s \in ActiveRows(view)}

\* The rows as transaction t's own queries find them: committed, or changed by itself.
Written(t) == [s \in Source |-> IF s \in DOMAIN txn[t].sets
                                  THEN IF rows[s] = Nil THEN txn[t].sets[s]
                                                        ELSE Overlaid(txn[t].sets[s], rows[s])
                                  ELSE rows[s]]

Locked(s, t) == \E u \in Transaction \ {t} : s \in DOMAIN txn[u].sets

LastEvent == Max({e.id : e \in events} \cup {0})

\* The events t writes, in order, for the pairs <<source, kind>>.
Logged(pairs) ==
    {[id |-> nextEvent + i, source |-> pairs[i][1], kind |-> pairs[i][2]] : i \in DOMAIN pairs}

Write(t, sets, pairs, step) ==
    /\ \A s \in DOMAIN sets : ~Locked(s, t)
    /\ txn' = [txn EXCEPT ![t] = Session(step, txn[t].seen, Overlaid(sets, txn[t].sets),
                                        txn[t].wrote \cup Logged(pairs), txn[t].offer)]
    /\ nextEvent' = nextEvent + Len(pairs)

-----------------------------------------------------------------------------
(* Recording a claim.                                                       *)

\* Which of the idle sessions takes a claim makes no difference.
ReadClaim(t, offer) ==
    /\ txn[t].step = "idle" /\ t = CHOOSE u \in Ingest : txn[u].step = "idle"
    /\ filed < MaxClaims
    /\ filed' = filed + 1
    /\ txn' = [txn EXCEPT ![t] = Session("read", rows[offer.source], <<>>, {}, offer)]
    /\ UNCHANGED <<rows, events, nextEvent, failed, index, watermark, stage, latest, passed>>

\* The columns an ingest writes, those that differ from what it read; _resettle
\* moves a changed claim to the status its method arrives with.
Changes(seen, offer) ==
    LET content == {f \in {"entity", "method"} : seen[f] # offer[f]}
        status == ArrivalStatus(offer.method)
    IN  Overlaid([f \in content |-> offer[f]],
                 IF status = seen.status THEN <<>>
                 ELSE IF status = "active" THEN [status |-> status]
                 ELSE [status |-> status, by |-> Nil])

MoveEvent(seen, offer) ==
    LET status == ArrivalStatus(offer.method)
    IN  IF status = seen.status THEN <<>>
        ELSE <<<<offer.source, IF status = "active" THEN "promoted" ELSE "demoted">>>>

\* Bug: a refreshed claim that keeps its status is not news.
ChangeEventsIfMoved(seen, offer) ==
    IF MoveEvent(seen, offer) = <<>> THEN <<>> ELSE <<<<offer.source, "updated">>>> \o MoveEvent(seen, offer)

\* Bug: the transition is left out of the log.
ChangeEventsOnlyNews(seen, offer) == <<<<offer.source, "updated">>>>

ChangeEvents(seen, offer) == <<<<offer.source, "updated">>>> \o MoveEvent(seen, offer)

WriteClaim(t) ==
    LET offer == txn[t].offer
        seen == txn[t].seen
        s == offer.source
    IN  /\ txn[t].step = "read"
        /\ \/ /\ seen = Nil /\ rows[s] = Nil
              /\ Write(t, [r \in {s} |-> [entity |-> offer.entity, method |-> offer.method,
                                         status |-> ArrivalStatus(offer.method), by |-> Nil]],
                       <<<<s, "added">>>>, "written")
           \/ /\ seen # Nil /\ (seen.entity # offer.entity \/ seen.method # offer.method)
              /\ Write(t, [r \in {s} |-> Changes(seen, offer)], ChangeEvents(seen, offer), "written")
           \/ /\ seen # Nil /\ seen.entity = offer.entity /\ seen.method = offer.method
              /\ Write(t, <<>>, <<>>, "written")
        /\ UNCHANGED <<rows, events, filed, failed, index, watermark, stage, latest, passed>>

-----------------------------------------------------------------------------
(* reconcile: demotions first, then promotions, one transaction.            *)

\* The claims the session now holds: one query for the active rows, and all the
\* rows of the address once an untrusted active one asks for its corroborators.
ReadActive ==
    /\ txn[Bot].step = "idle"
    /\ LET seen == IF \E s \in ActiveRows(rows) : rows[s].method \notin Trusted THEN rows
                   ELSE [s \in Source |-> IF s \in ActiveRows(rows) THEN rows[s] ELSE Nil]
       IN  txn' = [txn EXCEPT ![Bot] = Session("read", seen, <<>>, {}, Nil)]
    /\ UNCHANGED <<rows, events, nextEvent, filed, failed, index, watermark, stage, latest, passed>>

\* Bug: a promotion stands as long as the source it cites does.
OrphansByCitation(view) ==
    {s \in ActiveRows(view) : /\ view[s].method \notin Trusted
                          /\ view[s].by \notin ActiveRows(view)}

Orphans(view) ==
    {s \in ActiveRows(view) : view[s].method \notin Trusted /\ Corroborators(view, s) = {}}

Demote ==
    LET gone == Orphans(txn[Bot].seen)
    IN  /\ txn[Bot].step = "read"
        /\ Write(Bot, [s \in gone |-> [status |-> "pending", by |-> Nil]],
                 SetToSeq({<<s, "demoted">> : s \in gone}), "demoted")
        /\ UNCHANGED <<rows, events, filed, failed, index, watermark, stage, latest, passed>>

\* The pending claims are found afresh; a row already held keeps the content read then.
Promote ==
    LET seen == txn[Bot].seen
        now == Written(Bot)
        view == [s \in Source |->
                   IF seen[s] = Nil THEN now[s]
                   ELSE IF s \in DOMAIN txn[Bot].sets THEN Overlaid(txn[Bot].sets[s], seen[s])
                   ELSE seen[s]]
        earned == {s \in PendingRows(now) : Corroborators(view, s) # {}}
    IN  /\ txn[Bot].step = "demoted"
        /\ Write(Bot, [s \in earned |-> [status |-> "active",
                                         by |-> CHOOSE c \in Corroborators(view, s) : TRUE]],
                 SetToSeq({<<s, "promoted">> : s \in earned}), "written")
        /\ UNCHANGED <<rows, events, filed, failed, index, watermark, stage, latest, passed>>

-----------------------------------------------------------------------------
Commit(t) ==
    /\ txn[t].step = "written"
    /\ rows' = Written(t)
    /\ events' = events \cup txn[t].wrote
    /\ passed' = passed \cup {e \in txn[t].wrote : stage = "built" \/ e.id < watermark}
    /\ txn' = [txn EXCEPT ![t] = NoTxn]
    /\ UNCHANGED <<nextEvent, filed, failed, index, watermark, stage, latest>>

\* Nothing of the transaction stays, except the ids it took.
Rollback(t) ==
    /\ txn' = [txn EXCEPT ![t] = NoTxn]
    /\ UNCHANGED <<rows, events, nextEvent, filed, index, watermark, stage, latest, passed>>

\* A cancelled request, a killed harvest, a lost connection.
Fails(t) ==
    /\ txn[t].step # "idle" /\ failed < MaxRollbacks
    /\ failed' = failed + 1
    /\ Rollback(t)

\* An insert whose key another transaction has inserted meanwhile.
LosesTheKey(t) ==
    /\ txn[t].step = "read" /\ txn[t].seen = Nil /\ rows[txn[t].offer.source] # Nil
    /\ Rollback(t)
    /\ UNCHANGED failed

-----------------------------------------------------------------------------
(* The attributor.                                                          *)

\* build_store_attributor reads the rows, and then the watermark.
BuildRows ==
    /\ stage = "down"
    /\ index' = Attributed(rows) /\ passed' = {}
    /\ stage' = "built"
    /\ UNCHANGED <<rows, events, nextEvent, txn, filed, failed, watermark, latest>>

BuildMark ==
    /\ stage = "built"
    /\ watermark' = LastEvent
    /\ stage' = "up"
    /\ UNCHANGED <<rows, events, nextEvent, txn, filed, failed, index, latest, passed>>

\* _maybe_refresh, once the interval has passed: the watermark, and then the rows.
Check ==
    /\ stage = "up" /\ LastEvent # watermark
    /\ stage' = "checked" /\ latest' = LastEvent
    /\ UNCHANGED <<rows, events, nextEvent, txn, filed, failed, index, watermark, passed>>

Reload ==
    /\ stage = "checked"
    /\ index' = Attributed(rows) /\ watermark' = latest /\ passed' = {}
    /\ stage' = "up" /\ latest' = 0
    /\ UNCHANGED <<rows, events, nextEvent, txn, filed, failed>>

\* The read of the rows fails: one lookup fails, the next interval tries again.
ReloadFails ==
    /\ stage = "checked"
    /\ stage' = "up" /\ latest' = 0
    /\ UNCHANGED <<rows, events, nextEvent, txn, filed, failed, index, watermark, passed>>

-----------------------------------------------------------------------------
LabelInit ==
    /\ rows = [s \in Source |-> Nil]
    /\ events = {} /\ nextEvent = 0 /\ filed = 0 /\ failed = 0
    /\ txn = [t \in Transaction |-> NoTxn]
    /\ index = {} /\ watermark = 0 /\ stage = "down" /\ latest = 0 /\ passed = {}

Recording(t) == WriteClaim(t) \/ Commit(t)
Reconciling == ReadActive \/ Demote \/ Promote \/ Commit(Bot)
Serving == BuildRows \/ BuildMark \/ Check \/ Reload \/ ReloadFails

LabelNext ==
    \/ \E t \in Ingest : (\E offer \in Offers : ReadClaim(t, offer)) \/ Recording(t) \/ LosesTheKey(t)
    \/ Reconciling
    \/ \E t \in Transaction : Fails(t)
    \/ Serving

\* A transaction ends, and a cycle that is not killed reconciles: it runs every day.
LabelFairness ==
    /\ \A t \in Ingest : WF_labelVars(Recording(t) \/ LosesTheKey(t))
    /\ WF_labelVars(Reconciling)

LabelSpec == LabelInit /\ [][LabelNext]_labelVars /\ LabelFairness

-----------------------------------------------------------------------------
(* Properties.                                                              *)

LastMove(s) ==
    LET moves == {e \in events : e.source = s /\ e.kind \in {"added", "promoted", "demoted"}}
    IN  CHOOSE e \in moves : \A other \in moves : other.id <= e.id

\* The log explains every label: a claim was demoted or promoted last, by the
\* order of the event ids, exactly as its status says, whichever transactions
\* raced for the row (service.py: every transition writes its event in the
\* transaction of the row change).
EventsTellStatus ==
    \A s \in Source : rows[s] # Nil =>
        CASE LastMove(s).kind = "promoted" -> rows[s].status = "active"
          [] LastMove(s).kind = "demoted" -> rows[s].status = "pending"
          [] OTHER -> TRUE

\* A server whose index differs from the active labels will notice: an event
\* lies above its watermark.  Except for what it can never notice: an event
\* committed between the two reads of its start, or after one with a higher id.
StalenessIsSignalled ==
    stage = "up" /\ index # Attributed(rows) => LastEvent > watermark \/ passed # {}

Stands(s) == \E c \in Source \ {s} : /\ rows[c] # Nil /\ rows[c].status = "active"
                                     /\ rows[c].method \in Trusted
                                     /\ rows[c].entity = rows[s].entity

\* Once claims stop arriving, the daily reconcile settles the store: no untrusted
\* claim stays active that nothing corroborates, none waits that something does
\* (service.py: active status is continuously justified, never stamped).
Settles ==
    <>[](\A s \in Source : rows[s] # Nil =>
            /\ rows[s].status = "active" /\ rows[s].method \notin Trusted => Stands(s)
            /\ rows[s].status = "pending" => ~Stands(s))
=============================================================================
