----------------------------- MODULE Messaging -----------------------------
(***************************************************************************)
(* The messages of one booking: package messaging.                         *)
(*                                                                         *)
(* A message gets its id, a number that grows, before it is inserted: two  *)
(* senders may be inserted in the other order.  A reader opens a thread    *)
(* from the list of conversations, which shows the message inserted last,  *)
(* and follows the pages of GetMessages, which go by id.                   *)
(***************************************************************************)
EXTENDS RowOrder, Sequences, SequencesExt

CONSTANTS
  Senders,     \* calls of SendMessage that may overlap
  Readers,     \* parties that read the thread
  MaxMessages, \* bound on the ids
  PageSize     \* "limit"

MessagingAssumption == MaxMessages \in Nat /\ PageSize \in Nat \ {0}

VARIABLES
  ids,     \* ids given out
  draft,   \* draft[s]: the id of the message that s is sending, 0 for none
  rows,    \* ids of the rows of messages, in the order of created_at
  reader   \* reader[r]: the pages that r has read so far

vars == <<ids, draft, rows, reader>>

\* "shown": what the conversation list showed; "before": history, the rows there were then.
Away == [at |-> "away", shown |-> 0, before |-> 0, cursor |-> 0, read |-> << >>]

TypeOK ==
  /\ ids \in 0 .. MaxMessages
  /\ draft \in [Senders -> 0 .. MaxMessages]
  /\ rows \in Seq(1 .. MaxMessages)
  /\ reader \in [Readers -> [at : {"away", "reading", "done"}, shown : 0 .. MaxMessages,
                             before : 0 .. MaxMessages, cursor : 0 .. MaxMessages,
                             read : Seq(1 .. MaxMessages)]]

Init ==
  /\ ids = 0 /\ rows = << >>
  /\ draft = [s \in Senders |-> 0]
  /\ reader = [r \in Readers |-> Away]

-----------------------------------------------------------------------------

\* Of a party, and neither empty nor too long.  The id is taken under a mutex.
SendMessage(s) ==
  /\ draft[s] = 0 /\ ids < MaxMessages
  /\ ids' = ids + 1
  /\ draft' = [draft EXCEPT ![s] = ids']
  /\ UNCHANGED <<rows, reader>>

\* What follows, the event and the notification, is best-effort.
Insert(s) ==
  /\ draft[s] # 0
  /\ rows' = Append(rows, draft[s])
  /\ draft' = [draft EXCEPT ![s] = 0]
  /\ UNCHANGED <<ids, reader>>

InsertFails(s) ==
  /\ draft[s] # 0
  /\ draft' = [draft EXCEPT ![s] = 0]
  /\ UNCHANGED <<ids, rows, reader>>

-----------------------------------------------------------------------------

After(cursor) == Ascending({rows[i] : i \in DOMAIN rows} \ 0 .. cursor)
Page(cursor) == SubSeq(After(cursor), 1, IF Len(After(cursor)) < PageSize THEN Len(After(cursor))
                                         ELSE PageSize)

\* The last message is the one inserted last.
ListConversations(r) ==
  /\ reader[r].at # "reading" /\ rows # << >>
  /\ reader' = [reader EXCEPT ![r] = [Away EXCEPT !.at = "reading", !.before = Len(rows),
                                                  !.shown = Last(rows)]]
  /\ UNCHANGED <<ids, draft, rows>>

\* Slip: the cursor is the position to go on from.
NextCursorByCount(page, cursor) == IF Len(page) = PageSize THEN cursor + PageSize ELSE 0

\* A full page has a next one, even if that will be empty.
NextCursor(page, cursor) == IF Len(page) = PageSize THEN Last(page) ELSE 0

GetMessages(r) ==
  /\ reader[r].at = "reading"
  /\ LET page == Page(reader[r].cursor)
         next == NextCursor(page, reader[r].cursor)
     IN reader' = [reader EXCEPT ![r].read = @ \o page, ![r].cursor = next,
                                 ![r].at = IF next = 0 THEN "done" ELSE "reading"]
  /\ UNCHANGED <<ids, draft, rows>>

-----------------------------------------------------------------------------

Next ==
  \/ \E s \in Senders : SendMessage(s) \/ Insert(s) \/ InsertFails(s)
  \/ \E r \in Readers : ListConversations(r) \/ GetMessages(r)

Spec == Init /\ [][Next]_vars

-----------------------------------------------------------------------------
(* Properties.                                                             *)

\* However many messages come in while the pages are read, and whichever order they are
\* inserted in: a reader has read every message that was there when the thread was
\* opened, the one that the conversation list showed among them, and none twice.
ScanIsWhole ==
  \A r \in Readers :
    reader[r].at = "done" =>
      /\ \A i \in 1 .. reader[r].before : \E j \in DOMAIN reader[r].read : reader[r].read[j] = rows[i]
      /\ \A i, j \in DOMAIN reader[r].read : i < j => reader[r].read[i] < reader[r].read[j]

=============================================================================
