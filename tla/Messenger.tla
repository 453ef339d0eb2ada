------------------------------- MODULE Messenger -------------------------------
(***************************************************************************)
(* The inbound messages of the messenger webhook (gong-core/src/messenger) *)
(* and the summary of their senders.  Everything is kept in memory, in the *)
(* order of arrival; times are counted in milliseconds, so two calls may    *)
(* have the same, and all the messages of a call do.                       *)
(***************************************************************************)
EXTENDS Naturals, Sequences, SequencesExt, FiniteSets

CONSTANTS
  Senders,   \* ids of senders
  NoSender,  \* a message without one
  Messages,  \* texts
  MaxLimit   \* the largest limit parseLimit lets through

ASSUME SendersAssumption == NoSender \notin Senders
ASSUME LimitAssumption == MaxLimit \in Nat \ {0}

VARIABLE
  events     \* the events of the repository: [sender, text, at]

-----------------------------------------------------------------------------
\* extractEvents: one event for each item, all with the time of the call.
ExtractEvents(items, now) ==
  [n \in 1..Len(items) |-> [sender |-> items[n][1], text |-> items[n][2], at |-> now]]

MessengerInit == events = <<>>

Now == IF events = <<>> THEN 0 ELSE Last(events).at

\* handleIncomingWebhook, with up to two items.
HandleIncomingWebhook ==
  \E now \in {Now, Now + 1} :
  \E items \in BoundedSeq((Senders \cup {NoSender}) \X Messages, 2) :
    events' = events \o ExtractEvents(items, now)

\* parseLimit: none, or a positive number of at most MaxLimit.
ParseLimit(limit) == IF limit > MaxLimit THEN MaxLimit ELSE limit

\* One turn of filter and reverse: what was found, and e if it is of the senders.
Found(found, e, senders) ==
  IF e.sender \in senders THEN <<e>> \o found ELSE found

\* The events es of some senders, the newest first, among the first n.
Newest(es, senders) ==
  LET found[n \in 0..Len(es)] ==
        IF n = 0 THEN <<>> ELSE Found(found[n - 1], es[n], senders) IN
  found

\* findAll: the newest first; limit 0: all of them.
FindAll(senders, limit) ==
  LET found == Newest(events, senders)[Len(events)]
      n == ParseLimit(limit) IN
  IF n = 0 \/ n > Len(found) THEN found ELSE SubSeq(found, 1, n)

\* Variant: a later message counts when it is of an earlier time.
SeenFirst(summary, e) ==
  IF e.sender = NoSender THEN summary
  ELSE IF summary[e.sender] = <<>> \/ e.at < summary[e.sender][1].at
       THEN [summary EXCEPT ![e.sender] = <<e>>] ELSE summary

\* One turn of the loop over the events: the sender's entry is replaced by a
\* later event, and not by one of the same time.
Seen(summary, e) ==
  IF e.sender = NoSender THEN summary
  ELSE IF summary[e.sender] = <<>> \/ e.at > summary[e.sender][1].at
       THEN [summary EXCEPT ![e.sender] = <<e>>] ELSE summary

\* The loop: what it makes of the first n events es.
Summaries(es) ==
  LET summary[n \in 0..Len(es)] ==
        IF n = 0 THEN [s \in Senders |-> <<>>] ELSE Seen(summary[n - 1], es[n]) IN
  summary

\* findRecipients, without the order of the list: the event each sender's
\* entry is made of, if it has one.
FindRecipients == Summaries(events)[Len(events)]

-----------------------------------------------------------------------------
\* The summary has an entry for every sender of a message and no other; the
\* entry is made of the first message of the sender's last millisecond, and
\* it is the newest one that the list of events shows for the sender where
\* no other message of the sender came with it.
SummaryMatchesEvents ==
  \A s \in Senders :
    LET own == FindAll({s}, 0)
        last == {n \in 1..Len(own) : own[n].at = own[1].at} IN
    IF own = <<>> THEN FindRecipients[s] = <<>>
    ELSE /\ FindRecipients[s] = <<own[Cardinality(last)]>>
         /\ last = {1} => FindRecipients[s] = FindAll({s}, 1)

=============================================================================
