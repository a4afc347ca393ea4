-------------------------------- MODULE Leads --------------------------------
(***************************************************************************)
(* A message for orientation: the form of the contact page, the guided     *)
(* start, and the endpoint that stores it with its consents in one         *)
(* transaction.  A form is given a key when it is opened and keeps it       *)
(* however often it is sent; the key is unique in the table, so a message   *)
(* sent again after an answer was lost is the message already stored.  The *)
(* server runs its requests side by side, at READ COMMITTED.                *)
(***************************************************************************)
EXTENDS Naturals

CONSTANTS Sends,  \* requests to the server
          None,
          MaxKeys \* bound: forms opened

Texts == {1, 2} \* what the visitor wrote, and what it was changed to
Keys == 1..MaxKeys

VARIABLES
    contact,  \* the form: its key, its text, what it waits for and shows
    sends,    \* the requests: where the server is with each, and the answer
    leads,    \* the rows: key and text
    consents, \* whether the policies a consent must name are published
    settled   \* keys whose visitor was told of the outcome, or left

leadVars == <<contact, sends, leads, consents, settled>>

Idle == [at |-> "idle", key |-> 0, text |-> 0, answer |-> None]
Fresh(key) == [key |-> key, text |-> 1, waits |-> None, shown |-> None,
                last |-> 0, again |-> FALSE]

LeadsInit ==
    /\ contact = Fresh(1)
    /\ sends = [s \in Sends |-> Idle]
    /\ leads = {}
    /\ consents \in BOOLEAN
    /\ settled = {}

Stored(key) == {l \in leads : l.key = key}

(* The answer: the row as it is stored, none where the message was dropped  *)
(* without saying so, or an error.                                          *)
Dropped == [kind |-> "row", row |-> {}]
Row(rows) == [kind |-> "row", row |-> rows]
Failure == [kind |-> "error", row |-> {}]

Answered(s, answer) ==
    sends' = [sends EXCEPT ![s] = [sends[s] EXCEPT !.at = "answered", !.answer = answer]]

-----------------------------------------------------------------------------
(* The page.                                                                *)

Edit ==
    /\ contact.shown = None /\ contact.text = 1
    /\ contact' = [contact EXCEPT !.text = 2]
    /\ UNCHANGED <<sends, leads, consents, settled>>

Press(s) ==
    /\ contact.shown = None /\ contact.waits = None
    /\ sends[s] = Idle
    /\ sends' = [sends EXCEPT ![s] =
          [at |-> "received", key |-> contact.key, text |-> contact.text, answer |-> None]]
    /\ contact' = [contact EXCEPT !.waits = s, !.last = contact.text,
                                  !.again = contact.last # 0]
    /\ UNCHANGED <<leads, consents, settled>>

(* A row is shown with its reference, a dropped message with none; an error *)
(* leaves the form to be sent again.                                        *)
Hear(s) ==
    /\ contact.waits = s /\ sends[s].at = "answered"
    /\ LET ok == sends[s].answer.kind = "row" IN
       /\ contact' = [contact EXCEPT !.waits = None,
                                     !.shown = IF ok THEN sends[s].answer ELSE None]
       /\ settled' = IF ok THEN settled \union {contact.key} ELSE settled
    /\ sends' = [sends EXCEPT ![s] = Idle]
    /\ UNCHANGED <<leads, consents>>

(* The answer is lost, whatever the server does with the request.           *)
Lose(s) ==
    /\ contact.waits = s
    /\ contact' = [contact EXCEPT !.waits = None]
    /\ UNCHANGED <<sends, leads, consents, settled>>

\* Mutant: the form is cleared and keeps its key.
SameKey == Fresh(contact.key)

Renewed == Fresh(contact.key + 1)

Another ==
    /\ contact.shown # None /\ contact.key < MaxKeys
    /\ contact' = Renewed
    /\ UNCHANGED <<sends, leads, consents, settled>>

(* The page is left or reloaded: another form, another key.                 *)
Leave ==
    /\ contact.key < MaxKeys
    /\ contact' = Fresh(contact.key + 1)
    /\ settled' = settled \union {contact.key}
    /\ UNCHANGED <<sends, leads, consents>>

-----------------------------------------------------------------------------
(* The server.                                                              *)

(* A channel chosen without its consent is refused, which the guided start  *)
(* lets happen; a key already stored answers with its row.                  *)
Lookup(s) ==
    /\ sends[s].at = "received"
    /\ \/ Answered(s, Failure)
       \/ IF Stored(sends[s].key) # {} THEN Answered(s, Row(Stored(sends[s].key)))
          ELSE sends' = [sends EXCEPT ![s].at = "limited?"]
    /\ UNCHANGED <<contact, leads, consents, settled>>

Limit(s) ==
    /\ sends[s].at = "limited?"
    /\ \/ Answered(s, Dropped)
       \/ sends' = [sends EXCEPT ![s].at = "checking"]
    /\ UNCHANGED <<contact, leads, consents, settled>>

(* The transaction: the row looked for again, ...                           *)
Check(s) ==
    /\ sends[s].at = "checking"
    /\ IF Stored(sends[s].key) # {} THEN Answered(s, Row(Stored(sends[s].key)))
       ELSE sends' = [sends EXCEPT ![s].at = "inserting"]
    /\ UNCHANGED <<contact, leads, consents, settled>>

(* ... inserted, which waits for another transaction that has inserted the  *)
(* same key and fails if that one commits, ...                              *)
Insert(s) ==
    /\ sends[s].at = "inserting"
    /\ \A o \in Sends : sends[o].at = "inserted" => sends[o].key # sends[s].key
    /\ IF Stored(sends[s].key) # {} THEN Answered(s, Failure)
       ELSE sends' = [sends EXCEPT ![s].at = "inserted"]
    /\ UNCHANGED <<contact, leads, consents, settled>>

(* ... and committed with its consents, or not at all.                      *)
Commit(s) ==
    /\ sends[s].at = "inserted"
    /\ \/ consents
          /\ LET row == [key |-> sends[s].key, text |-> sends[s].text] IN
             leads' = leads \union {row} /\ Answered(s, Row({row}))
       \/ UNCHANGED leads /\ Answered(s, Failure)
    /\ UNCHANGED <<contact, consents, settled>>

(* An answer nobody waits for any more.                                     *)
Forget(s) ==
    /\ sends[s].at = "answered" /\ contact.waits # s
    /\ sends' = [sends EXCEPT ![s] = Idle]
    /\ UNCHANGED <<contact, leads, consents, settled>>

PublishPolicies ==
    /\ consents' = ~consents
    /\ UNCHANGED <<contact, sends, leads, settled>>

LeadsNext ==
    \/ Edit \/ Another \/ Leave \/ PublishPolicies
    \/ \E s \in Sends :
          \/ Press(s) \/ Hear(s) \/ Lose(s)
          \/ Lookup(s) \/ Limit(s) \/ Check(s) \/ Insert(s) \/ Commit(s) \/ Forget(s)

-----------------------------------------------------------------------------

(* However often a form is sent, it stores one message; a reference that is *)
(* shown belongs to that message of that form, which says something else    *)
(* than what was sent last only if it had been sent before; and a message   *)
(* of an earlier form is one its visitor was told of or walked away from.   *)
LeadsHold ==
    /\ \A l, m \in leads : l.key = m.key => l = m
    /\ contact.shown \notin {None, Dropped} =>
          /\ contact.shown.row = Stored(contact.key)
          /\ \A l \in Stored(contact.key) : l.text # contact.last => contact.again
    /\ \A l \in leads : l.key < contact.key => l.key \in settled
=============================================================================
