------------------------------ MODULE TrQueue ------------------------------
(***************************************************************************)
(* The persistent message queue of timeranger2/src/tr_queue.c.             *)
(*                                                                         *)
(* A queue is a timeranger2 topic whose rows carry a user flag, PENDING,   *)
(* from the append to the unload of the message, and an in-memory list of  *)
(* the rows not yet unloaded.  The list is rebuilt from the topic when the *)
(* queue is opened; the search starts at `first_rowid', kept in the        *)
(* topic's variable file.  A settled topic (no message left) that grew     *)
(* past backup_queue_size is moved away and a new one is created.          *)
(*                                                                         *)
(* The in-memory list is the set q of its row numbers: every append gives  *)
(* the highest one and a load runs through the rows in order, so the list  *)
(* order is the order of the numbers.  A payload is the number of its      *)
(* message, in the order in which the queue accepted them.                 *)
(***************************************************************************)
EXTENDS Naturals, Sequences

CONSTANTS
    MaxMsgs,        \* bound: messages accepted in a behaviour
    BackupSize,     \* attribute backup_queue_size, 0 = never back up
    CrashInBackup,  \* the process may die inside tranger2_backup_topic()
    AdminMarks      \* commands queue_mark_pending / queue_mark_notpending

ASSUME TrqAssumption ==
    /\ MaxMsgs \in Nat \ {0}
    /\ BackupSize \in Nat
    /\ CrashInBackup \in BOOLEAN
    /\ AdminMarks \in BOOLEAN

VARIABLES
    topic,      \* disk: the rows of the topic, each [id, pending]
    topicVar,   \* disk: first_rowid in topic_var.json, 0 = absent
    backup,     \* progress of trq_check_backup(), "none" outside of it
    q,          \* memory: dl_q_msg, the rows not unloaded
    trqOpen,    \* memory: trq_msgs # NULL
    accepted,   \* history: how many messages trq_append() ever stored
    remarked,   \* history: rows that an operator turned PENDING, not loaded since
    givenUp     \* history: messages that an operator turned not PENDING

trqVars == <<topic, topicVar, backup, q, trqOpen, accepted, remarked, givenUp>>

Ids == 1..MaxMsgs

Row == [id : Ids, pending : BOOLEAN]

PendingRows == {r \in DOMAIN topic : topic[r].pending}

\* The messages the disk still owes to the peer.
Outstanding == {topic[r].id : r \in PendingRows}

TrqInit ==
    /\ topic = <<>>
    /\ topicVar = 0
    /\ backup = "none"
    /\ q = {}
    /\ trqOpen = FALSE
    /\ accepted = 0
    /\ remarked = {}
    /\ givenUp = {}

(***************************************************************************)
(* trq_load(): the search starts at the saved first_rowid unless it is     *)
(* absent or past the end of the topic.                                    *)
(***************************************************************************)
\* Mutant of LoadFrom: the saved row is taken as already settled.
LoadFromNext == IF topicVar \in 1..Len(topic) THEN topicVar + 1 ELSE 1

LoadFrom == IF topicVar \in 1..Len(topic) THEN topicVar ELSE 1

\* Mutant of LoadedRows: the condition user_flag_mask_set is lost.
LoadedAnyFlag == {r \in DOMAIN topic : r >= LoadFrom}

LoadedRows == {r \in PendingRows : r >= LoadFrom}

\* Mutant of FirstRowid: the last row counted from 0.
FirstRowidFromZero(rows) ==
    IF rows = {} THEN Len(topic) - 1
    ELSE CHOOSE r \in rows : \A x \in rows : r <= x

\* The first row loaded or, with none, the last row of the topic.
FirstRowid(rows) ==
    IF rows = {} THEN Len(topic)
    ELSE CHOOSE r \in rows : \A x \in rows : r <= x

\* open_queue() and trq_load(), as mt_start() calls them.
TrqStart ==
    /\ ~trqOpen
    /\ trqOpen' = TRUE
    /\ q' = LoadedRows
    /\ topicVar' = IF FirstRowid(LoadedRows) = 0 THEN topicVar
                   ELSE FirstRowid(LoadedRows)
    /\ remarked' = remarked \ LoadedRows
    /\ UNCHANGED <<topic, backup, accepted, givenUp>>

\* trq_close(): the list is flushed, the disk is not touched.
TrqStop ==
    /\ trqOpen
    /\ trqOpen' = FALSE
    /\ q' = {}
    /\ UNCHANGED <<topic, topicVar, backup, accepted, remarked, givenUp>>

\* trq_append2(): a new row with the flag PENDING, at the end of the list.
TrqAppend ==
    /\ trqOpen
    /\ backup = "none"
    /\ accepted < MaxMsgs
    /\ accepted' = accepted + 1
    /\ topic' = Append(topic, [id |-> accepted', pending |-> TRUE])
    /\ q' = q \cup {Len(topic')}
    /\ UNCHANGED <<topicVar, backup, trqOpen, remarked, givenUp>>

\* trq_unload_msg(): the flag is cleared in the row, the list forgets it.
TrqUnload(r) ==
    /\ trqOpen
    /\ backup = "none"
    /\ r \in q
    /\ topic' = [topic EXCEPT ![r] = [id |-> topic[r].id, pending |-> FALSE]]
    /\ q' = q \ {r}
    /\ UNCHANGED <<topicVar, backup, trqOpen, accepted, remarked, givenUp>>

(***************************************************************************)
(* trq_check_backup(), cut at each point where the disk changes.  The old  *)
(* variables are read before the topic is moved and written into the new   *)
(* one: from "moved" to "created" topicVar lives only in memory.           *)
(***************************************************************************)
BackupDue == BackupSize > 0 /\ Len(topic) >= BackupSize

BackupMarkEnd ==                \* trq_set_first_rowid(trq, sz)
    /\ trqOpen
    /\ backup = "none"
    /\ BackupDue
    /\ backup' = "marked"
    /\ topicVar' = Len(topic)
    /\ UNCHANGED <<topic, q, trqOpen, accepted, remarked, givenUp>>

BackupMove ==                   \* rename() of the topic's directory
    /\ backup = "marked"
    /\ backup' = "moved"
    /\ topic' = <<>>
    /\ remarked' = {}
    /\ UNCHANGED <<topicVar, q, trqOpen, accepted, givenUp>>

BackupCreate ==                 \* tranger2_create_topic(.., old variables)
    /\ backup = "moved"
    /\ backup' = "created"
    /\ UNCHANGED <<topic, topicVar, q, trqOpen, accepted, remarked, givenUp>>

BackupReset ==                  \* trq_set_first_rowid(trq, 0)
    /\ backup = "created"
    /\ backup' = "none"
    /\ topicVar' = 0
    /\ UNCHANGED <<topic, q, trqOpen, accepted, remarked, givenUp>>

TrqBackupStep == BackupMove \/ BackupCreate \/ BackupReset

\* The process dies: the memory is lost, with it a topicVar not yet written.
TrqCrash ==
    /\ trqOpen
    /\ backup = "none" \/ CrashInBackup
    /\ trqOpen' = FALSE
    /\ q' = {}
    /\ topicVar' = IF backup = "moved" THEN 0 ELSE topicVar
    /\ backup' = "none"
    /\ UNCHANGED <<topic, accepted, remarked, givenUp>>

(***************************************************************************)
(* The commands queue_mark_pending and queue_mark_notpending, accepted on  *)
(* a queue that is not in service: open_queue(), trq_load_all() of a range *)
(* of rows, the flag written in each, close_queue().                       *)
(***************************************************************************)
TrqMarkRows(from, to, flag) ==
    /\ AdminMarks
    /\ ~trqOpen
    /\ topic' = [r \in DOMAIN topic |->
                   [id |-> topic[r].id,
                    pending |-> IF r \in from..to THEN flag
                                ELSE topic[r].pending]]
    /\ remarked' = remarked \cup (PendingRows' \ PendingRows)
    /\ givenUp' = givenUp \cup (Outstanding \ Outstanding')
    /\ UNCHANGED <<topicVar, backup, q, trqOpen, accepted>>

TrqAdmin == \E from, to \in Ids, flag \in BOOLEAN : TrqMarkRows(from, to, flag)

\* The queue with an arbitrary user, who backs up only an empty queue as
\* ac_timeout() of C_QIOGATE does.
TrqNext ==
    \/ TrqStart
    \/ TrqStop /\ backup = "none"
    \/ TrqAppend
    \/ \E r \in q : TrqUnload(r)
    \/ q = {} /\ BackupMarkEnd
    \/ TrqBackupStep
    \/ TrqCrash
    \/ TrqAdmin

TrqSpec == TrqInit /\ [][TrqNext]_trqVars

-----------------------------------------------------------------------------

TrqTypeOK ==
    /\ topic \in Seq(Row)
    /\ topicVar \in Nat
    /\ backup \in {"none", "marked", "moved", "created"}
    /\ q \subseteq Nat
    /\ trqOpen \in BOOLEAN
    /\ accepted \in 0..MaxMsgs
    /\ remarked \subseteq Nat
    /\ givenUp \subseteq Ids

(***************************************************************************)
(* An open queue has every message the disk still owes: the start row that *)
(* trq_load() takes from topic_var.json never hides a PENDING row, through *)
(* appends, unloads in any order, crashes, backups and marks (tr_queue.c   *)
(* trq_load, trq_set_first_rowid, trq_check_backup).  Rows that a command  *)
(* turned PENDING since the last load are apart: nothing reloads them.     *)
(***************************************************************************)
NothingStranded == trqOpen => PendingRows \ remarked \subseteq q

(***************************************************************************)
(* The list holds only rows of the current topic that are PENDING on disk: *)
(* a message in memory whose flag is clear would be sent now and forgotten *)
(* after a restart; a row of a topic moved away would not exist any more   *)
(* (tr_queue.c trq_unload_msg, trq_check_backup).                          *)
(***************************************************************************)
QueueIsPending == q \subseteq PendingRows

(***************************************************************************)
(* The topic that a backup moves away owes nothing but rows marked by a    *)
(* command (tr_queue.c trq_check_backup: nobody reads the .bak directory   *)
(* again).                                                                 *)
(***************************************************************************)
BackupMovesSettled == [][BackupMove => PendingRows \subseteq remarked]_trqVars

=============================================================================
