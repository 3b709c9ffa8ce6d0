--------------------------- MODULE TrQueue_proofs ---------------------------
(***************************************************************************)
(* Proofs about the persistent queue of TrQueue, for every number of       *)
(* messages and every backup_queue_size.                                   *)
(*                                                                         *)
(* Typing and QueueIsPending hold whatever happens.  NothingStranded does  *)
(* not: a crash between the move of the topic and the reset of first_rowid *)
(* breaks it.  It is proved for the behaviours without, from an invariant  *)
(* that says what the saved first_rowid is worth at each moment of the     *)
(* life of a topic.                                                        *)
(***************************************************************************)
EXTENDS TrQueue, NaturalMin, FiniteSetTheorems, TLAPS

\* What FirstRowid() returns for the rows that a load has found.
LEMMA FirstRowidProperties ==
  ASSUME TrqTypeOK, NEW rows \in SUBSET DOMAIN topic
  PROVE  /\ FirstRowid(rows) \in 0..Len(topic)
         /\ rows # {} => FirstRowid(rows) \in rows
         /\ \A x \in rows : FirstRowid(rows) <= x
<1>1. Len(topic) \in Nat /\ DOMAIN topic = 1..Len(topic)
  BY DEF TrqTypeOK
<1>2. CASE rows = {}
  BY <1>1, <1>2 DEF FirstRowid
<1>3. CASE rows # {}
  <2>1. rows \in SUBSET Nat
    BY <1>1
  <2>2. \E m \in rows : \A x \in rows : m <= x
    BY <1>3, <2>1, MinExists
  <2> QED
    BY <1>1, <1>3, <2>2 DEF FirstRowid
<1> QED
  BY <1>2, <1>3

-----------------------------------------------------------------------------
(* How each change of the topic changes its PENDING rows. *)

LEMMA TopicShape ==
  ASSUME TrqTypeOK
  PROVE  /\ Len(topic) \in Nat
         /\ DOMAIN topic = 1..Len(topic)
         /\ \A r \in DOMAIN topic : topic[r] \in Row
         /\ PendingRows \subseteq 1..Len(topic)
BY DEF TrqTypeOK, PendingRows

LEMMA AppendedRow ==
  ASSUME TrqTypeOK, TrqAppend
  PROVE  /\ topic' \in Seq(Row)
         /\ Len(topic') = Len(topic) + 1
         /\ Len(topic) + 1 \in Nat
         /\ PendingRows' = PendingRows \cup {Len(topic) + 1}
         /\ q' = q \cup {Len(topic) + 1}
         /\ accepted' \in 0..MaxMsgs
<1>1. Len(topic) \in Nat /\ DOMAIN topic = 1..Len(topic)
  BY TopicShape
<1>2. accepted' \in Ids
  BY TrqAssumption DEF TrqAppend, TrqTypeOK, Ids
<1>3. [id |-> accepted', pending |-> TRUE] \in Row
  BY <1>2 DEF Row
<1>4. /\ topic' \in Seq(Row)
      /\ Len(topic') = Len(topic) + 1
      /\ \A r \in DOMAIN topic : topic'[r] = topic[r]
      /\ topic'[Len(topic) + 1] = [id |-> accepted', pending |-> TRUE]
  BY <1>1, <1>3 DEF TrqAppend, TrqTypeOK
<1>5. DOMAIN topic' = DOMAIN topic \cup {Len(topic) + 1}
  BY <1>1, <1>4
<1>6. PendingRows' = PendingRows \cup {Len(topic) + 1}
  BY <1>1, <1>4, <1>5 DEF PendingRows
<1> QED
  BY <1>1, <1>2, <1>4, <1>6 DEF TrqAppend, Ids

LEMMA UnloadedRow ==
  ASSUME TrqTypeOK, QueueIsPending, NEW r \in q, TrqUnload(r)
  PROVE  /\ topic' \in Seq(Row)
         /\ Len(topic') = Len(topic)
         /\ PendingRows' = PendingRows \ {r}
         /\ q' = q \ {r}
<1>1. Len(topic) \in Nat /\ DOMAIN topic = 1..Len(topic)
  BY TopicShape
<1>2. r \in DOMAIN topic
  BY DEF QueueIsPending, PendingRows
<1>3. \A x \in DOMAIN topic : topic[x] \in Row
  BY TopicShape
<1>6. topic' = [x \in 1..Len(topic) |->
                  IF x = r THEN [id |-> topic[r].id, pending |-> FALSE]
                  ELSE topic[x]]
  BY <1>1 DEF TrqUnload, TrqTypeOK
<1>7. topic' \in [1..Len(topic) -> Row]
  BY <1>1, <1>2, <1>3, <1>6 DEF Row
<1>8. topic' \in Seq(Row) /\ Len(topic') = Len(topic)
  BY <1>1, <1>7
<1>9. PendingRows' = PendingRows \ {r}
  BY <1>1, <1>2, <1>6, <1>7 DEF PendingRows
<1> QED
  BY <1>8, <1>9 DEF TrqUnload

LEMMA MovedTopic ==
  ASSUME TrqBackupStep, TrqTypeOK
  PROVE  /\ topic' \in Seq(Row)
         /\ topic' = <<>> => PendingRows' = {}
         /\ topic' # <<>> => UNCHANGED topic /\ PendingRows' = PendingRows
         /\ topicVar' \in Nat
         /\ remarked' \subseteq remarked
         /\ topic' # <<>> => UNCHANGED remarked
         /\ UNCHANGED <<q, trqOpen, accepted, givenUp>>
         /\ backup # "none"
<1>1. CASE BackupMove
  <2>1. topic' = <<>> /\ PendingRows' = {}
    BY <1>1 DEF BackupMove, PendingRows
  <2> QED
    BY <1>1, <2>1 DEF BackupMove, TrqTypeOK
<1>2. CASE BackupCreate \/ BackupReset
  <2>1. UNCHANGED topic /\ PendingRows' = PendingRows
    BY <1>2 DEF BackupCreate, BackupReset, PendingRows
  <2>2. topic = <<>> => PendingRows = {}
    BY DEF PendingRows
  <2> QED
    BY <1>2, <2>1, <2>2 DEF BackupCreate, BackupReset, TrqTypeOK
<1> QED
  BY <1>1, <1>2 DEF TrqBackupStep

LEMMA MarkedRows ==
  ASSUME TrqTypeOK, TrqAdmin
  PROVE  /\ topic' \in Seq(Row)
         /\ Len(topic') = Len(topic)
         /\ \A x \in 1..Len(topic) : topic'[x].id = topic[x].id
         /\ givenUp' = givenUp \cup (Outstanding \ Outstanding')
         /\ remarked' = remarked \cup (PendingRows' \ PendingRows)
         /\ PendingRows' \subseteq 1..Len(topic)
         /\ AdminMarks
         /\ ~trqOpen
         /\ UNCHANGED <<topicVar, backup, q, trqOpen, accepted>>
<1>1. Len(topic) \in Nat /\ DOMAIN topic = 1..Len(topic)
  BY TopicShape
<1>2. \A x \in DOMAIN topic : topic[x] \in Row
  BY TopicShape
<1>3. PICK from \in Ids, to \in Ids, flag \in BOOLEAN :
          TrqMarkRows(from, to, flag)
  BY DEF TrqAdmin
<1>4. topic' \in [1..Len(topic) -> Row]
  BY <1>1, <1>2, <1>3 DEF TrqMarkRows, Row
<1>5. topic' \in Seq(Row) /\ Len(topic') = Len(topic)
  BY <1>1, <1>4
<1>6. PendingRows' \subseteq 1..Len(topic)
  BY <1>5 DEF PendingRows
<1>7. \A x \in 1..Len(topic) : topic'[x].id = topic[x].id
  BY <1>1, <1>3 DEF TrqMarkRows
<1> QED
  BY <1>3, <1>5, <1>6, <1>7 DEF TrqMarkRows

-----------------------------------------------------------------------------
(* Typing, and the list against the disk, in every behaviour. *)

TrqInd ==
    /\ TrqTypeOK
    /\ QueueIsPending
    /\ backup # "none" => q = {}
    /\ ~trqOpen => q = {} /\ backup = "none"

LEMMA TrqIndInit == TrqInit => TrqInd
<1> SUFFICES ASSUME TrqInit PROVE TrqInd
  OBVIOUS
<1>1. topic \in Seq(Row)
  BY DEF TrqInit
<1>2. /\ topicVar \in Nat /\ q \subseteq Nat /\ accepted \in 0..MaxMsgs
      /\ remarked \subseteq Nat /\ givenUp \subseteq Ids
  BY TrqAssumption DEF TrqInit
<1>3. backup = "none" /\ q = {} /\ trqOpen \in BOOLEAN
  BY DEF TrqInit
<1> QED
  BY <1>1, <1>2, <1>3 DEF TrqInd, TrqTypeOK, QueueIsPending

LEMMA TrqIndNext == TrqInd /\ [TrqNext]_trqVars => TrqInd'
<1> SUFFICES ASSUME TrqInd, [TrqNext]_trqVars
             PROVE  TrqInd'
  OBVIOUS
<1>0. TrqTypeOK /\ QueueIsPending
  BY DEF TrqInd
<1>1. CASE TrqStart
  <2>1. LoadedRows \in SUBSET DOMAIN topic /\ LoadedRows \subseteq PendingRows
    BY DEF LoadedRows, PendingRows
  <2>2. FirstRowid(LoadedRows) \in Nat
    BY <1>0, <2>1, FirstRowidProperties, TopicShape
  <2>3. q' \subseteq Nat
    BY <1>0, <1>1, <2>1, TopicShape DEF TrqStart
  <2>4. topicVar' \in Nat
    BY <1>0, <1>1, <2>2 DEF TrqStart, TrqTypeOK
  <2>5. PendingRows' = PendingRows
    BY <1>1 DEF TrqStart, PendingRows
  <2> QED
    BY <1>1, <2>1, <2>3, <2>4, <2>5 DEF TrqStart, TrqInd, TrqTypeOK, QueueIsPending
<1>2. CASE TrqStop /\ backup = "none"
  BY <1>2 DEF TrqStop, TrqInd, TrqTypeOK, QueueIsPending
<1>3. CASE TrqAppend
  <2>1. q' \subseteq Nat
    <3>1. \A x \in q' : x \in q \/ x = Len(topic) + 1
      BY <1>0, <1>3, AppendedRow
    <3> QED
      BY <1>0, <1>3, <3>1, AppendedRow DEF TrqTypeOK
  <2>2. QueueIsPending'
    BY <1>0, <1>3, AppendedRow DEF QueueIsPending
  <2> QED
    BY <1>0, <1>3, <2>1, <2>2, AppendedRow DEF TrqAppend, TrqInd, TrqTypeOK
<1>4. ASSUME NEW r \in q, TrqUnload(r) PROVE TrqInd'
  <2>1. QueueIsPending' /\ q' \subseteq q /\ topic' \in Seq(Row)
    BY <1>0, <1>4, UnloadedRow DEF QueueIsPending
  <2> QED
    BY <1>4, <2>1 DEF TrqUnload, TrqInd, TrqTypeOK
<1>5. CASE q = {} /\ BackupMarkEnd
  BY <1>0, <1>5, TopicShape DEF BackupMarkEnd, TrqInd, TrqTypeOK, QueueIsPending
<1>6. CASE TrqBackupStep
  <2>1. q' = {} /\ UNCHANGED <<trqOpen, accepted>> /\ trqOpen
    BY <1>0, <1>6, MovedTopic DEF TrqInd
  <2>2. backup' \in {"none", "marked", "moved", "created"}
    BY <1>6 DEF TrqBackupStep, BackupMove, BackupCreate, BackupReset
  <2> QED
    BY <1>0, <1>6, <2>1, <2>2, MovedTopic DEF TrqInd, TrqTypeOK, QueueIsPending
<1>7. CASE TrqCrash
  BY <1>7 DEF TrqCrash, TrqInd, TrqTypeOK, QueueIsPending
<1>8. CASE TrqAdmin
  <2>1. remarked' \subseteq Nat
    <3>1. Len(topic) \in Nat
      BY <1>0, TopicShape
    <3>2. 1..Len(topic) \subseteq Nat
      BY <3>1
    <3>3. remarked' \subseteq remarked \cup 1..Len(topic)
      BY <1>0, <1>8, MarkedRows
    <3> QED
      BY <1>0, <3>2, <3>3 DEF TrqTypeOK
  <2>2. /\ topic' \in Seq(Row)
        /\ UNCHANGED <<topicVar, backup, q, trqOpen, accepted>>
    BY <1>0, <1>8, MarkedRows
  <2>3. ~trqOpen /\ q = {} /\ backup = "none"
    BY <1>0, <1>8, MarkedRows DEF TrqInd
  <2>4. givenUp' \subseteq Ids
    <3>1. Outstanding \subseteq Ids
      BY <1>0, TopicShape DEF Outstanding, PendingRows, Row
    <3> QED
      BY <1>0, <1>8, <3>1, MarkedRows DEF TrqTypeOK
  <2>5. TrqTypeOK'
    BY <1>0, <2>1, <2>2, <2>4 DEF TrqTypeOK
  <2> QED
    BY <2>2, <2>3, <2>5 DEF TrqInd, QueueIsPending
<1>9. CASE UNCHANGED trqVars
  BY <1>9 DEF trqVars, TrqInd, TrqTypeOK, QueueIsPending, PendingRows
<1> QED
  BY <1>1, <1>2, <1>3, <1>4, <1>5, <1>6, <1>7, <1>8, <1>9 DEF TrqNext

(***************************************************************************)
(* The type invariant of the queue, in every behaviour: crashes inside a   *)
(* backup and operators' marks included (tr_queue.c).                      *)
(***************************************************************************)
THEOREM TrqTyping == TrqSpec => []TrqTypeOK
<1>1. TrqInd => TrqTypeOK
  BY DEF TrqInd
<1> QED
  BY <1>1, TrqIndInit, TrqIndNext, PTL DEF TrqSpec

(***************************************************************************)
(* What the list holds is PENDING on disk and of the current topic, in     *)
(* every behaviour (tr_queue.c trq_unload_msg, trq_check_backup).          *)
(***************************************************************************)
THEOREM TrqListIsPending == TrqSpec => []QueueIsPending
<1>1. TrqInd => QueueIsPending
  BY DEF TrqInd
<1> QED
  BY <1>1, TrqIndInit, TrqIndNext, PTL DEF TrqSpec

-----------------------------------------------------------------------------
(***************************************************************************)
(* What the saved first_rowid is worth.  Between backups no PENDING row    *)
(* lies below it, marked ones apart, and it lies in the topic; during a    *)
(* backup nothing else is PENDING, so that the value copied to the new     *)
(* topic hides nothing.                                                    *)
(***************************************************************************)
SearchInd ==
    /\ NothingStranded
    /\ backup \in {"none", "marked"} =>
         topicVar <= Len(topic) /\ \A r \in PendingRows \ remarked : topicVar <= r
    /\ backup # "none" => PendingRows \subseteq remarked
    /\ BackupSize = 0 => backup = "none"

LEMMA SearchIndInit == TrqInit => SearchInd
BY DEF TrqInit, SearchInd, NothingStranded, PendingRows

\* With such a first_rowid a load finds every PENDING row that is not marked.
LEMMA LoadFindsAll ==
  ASSUME TrqTypeOK, SearchInd, backup = "none"
  PROVE  PendingRows \ remarked \subseteq LoadedRows
<1>1. Len(topic) \in Nat /\ topicVar \in Nat /\ PendingRows \subseteq 1..Len(topic)
  BY TopicShape DEF TrqTypeOK
<1>2. topicVar <= Len(topic) /\ \A r \in PendingRows \ remarked : topicVar <= r
  BY DEF SearchInd
<1>3. \A r \in PendingRows \ remarked : r >= LoadFrom
  BY <1>1, <1>2 DEF LoadFrom
<1> QED
  BY <1>3 DEF LoadedRows

LEMMA SearchIndNext ==
  ASSUME BackupSize = 0 \/ ~CrashInBackup
  PROVE  TrqInd /\ SearchInd /\ [TrqNext]_trqVars => SearchInd'
<1> SUFFICES ASSUME TrqInd, SearchInd, [TrqNext]_trqVars
             PROVE  SearchInd'
  OBVIOUS
<1>0. /\ TrqTypeOK /\ QueueIsPending
      /\ Len(topic) \in Nat /\ topicVar \in Nat
      /\ PendingRows \subseteq 1..Len(topic)
  BY TopicShape DEF TrqInd, TrqTypeOK
<1>1. CASE TrqStart
  <2>1. backup = "none" /\ backup' = "none" /\ UNCHANGED topic
    BY <1>1 DEF TrqStart, TrqInd
  <2>2. /\ PendingRows' = PendingRows
        /\ q' = LoadedRows
        /\ PendingRows' \ remarked' \subseteq LoadedRows
    BY <1>0, <1>1, <2>1, LoadFindsAll DEF TrqStart, PendingRows
  <2>3. LoadedRows \in SUBSET DOMAIN topic
    BY DEF LoadedRows, PendingRows
  <2>4. /\ FirstRowid(LoadedRows) \in 0..Len(topic)
        /\ \A x \in LoadedRows : FirstRowid(LoadedRows) <= x
    BY <1>0, <2>3, FirstRowidProperties
  <2>5. CASE FirstRowid(LoadedRows) = 0
    <3>1. topicVar' = topicVar /\ \A r \in PendingRows \ remarked : topicVar <= r
      BY <1>1, <2>1, <2>5 DEF TrqStart, SearchInd
    <3>2. LoadedRows = {}
      <4>1. DOMAIN topic = 1..Len(topic)
        BY <1>0, TopicShape
      <4>2. LoadedRows # {} => FirstRowid(LoadedRows) \in LoadedRows
        BY <1>0, <2>3, FirstRowidProperties
      <4> QED
        BY <1>0, <2>3, <2>5, <4>1, <4>2
    <3> QED
      BY <1>1, <2>1, <2>2, <3>1, <3>2 DEF TrqStart, SearchInd, NothingStranded
  <2>6. CASE FirstRowid(LoadedRows) # 0
    <3>1. topicVar' = FirstRowid(LoadedRows)
      BY <1>1, <2>6 DEF TrqStart
    <3> QED
      BY <1>1, <2>1, <2>2, <2>4, <3>1 DEF TrqStart, SearchInd, NothingStranded
  <2> QED
    BY <2>5, <2>6
<1>2. CASE TrqStop /\ backup = "none"
  BY <1>2 DEF TrqStop, SearchInd, NothingStranded, PendingRows
<1>3. CASE TrqAppend
  <2>1. remarked' = remarked
    BY <1>3 DEF TrqAppend
  <2>2. \A x \in PendingRows' \ remarked' :
           x \in PendingRows \ remarked \/ x = Len(topic) + 1
    BY <1>0, <1>3, <2>1, AppendedRow
  <2>3. \A x \in PendingRows' \ remarked' : topicVar <= x
    <3>1. topicVar <= Len(topic) /\ \A x \in PendingRows \ remarked : topicVar <= x
      BY <1>3 DEF TrqAppend, SearchInd
    <3>2. topicVar <= Len(topic) + 1
      BY <1>0, <3>1
    <3> QED
      BY <2>2, <3>1, <3>2
  <2>4. topicVar <= Len(topic')
    BY <1>0, <1>3, AppendedRow DEF TrqAppend, SearchInd
  <2>5. NothingStranded'
    BY <1>0, <1>3, <2>2, AppendedRow DEF TrqAppend, SearchInd, NothingStranded
  <2> QED
    BY <1>3, <2>3, <2>4, <2>5 DEF TrqAppend, SearchInd
<1>4. ASSUME NEW r \in q, TrqUnload(r) PROVE SearchInd'
  BY <1>0, <1>4, UnloadedRow DEF TrqUnload, SearchInd, NothingStranded
<1>5. CASE q = {} /\ BackupMarkEnd
  <2>1. PendingRows \subseteq remarked /\ PendingRows' \subseteq remarked'
    BY <1>5 DEF BackupMarkEnd, SearchInd, NothingStranded, PendingRows
  <2>2. BackupSize # 0
    BY <1>5 DEF BackupMarkEnd, BackupDue
  <2> QED
    BY <1>0, <1>5, <2>1, <2>2 DEF BackupMarkEnd, SearchInd, NothingStranded
<1>6. CASE TrqBackupStep
  <2>1. PendingRows' \subseteq remarked'
    BY <1>0, <1>6, MovedTopic DEF SearchInd
  <2>2. backup' \in {"none", "marked"} => topicVar' = 0 /\ Len(topic') \in Nat
    BY <1>0, <1>6 DEF TrqBackupStep, BackupMove, BackupCreate, BackupReset
  <2>3. BackupSize # 0
    BY <1>6 DEF TrqBackupStep, BackupMove, BackupCreate, BackupReset, SearchInd
  <2> QED
    BY <2>1, <2>2, <2>3 DEF SearchInd, NothingStranded
<1>7. CASE TrqCrash
  BY <1>7 DEF TrqCrash, SearchInd, NothingStranded, PendingRows
<1>8. CASE TrqAdmin
  <2>1. /\ PendingRows' \ remarked' \subseteq PendingRows \ remarked
        /\ UNCHANGED <<topicVar, backup, trqOpen>>
        /\ Len(topic') = Len(topic)
        /\ ~trqOpen /\ backup = "none"
    BY <1>0, <1>8, MarkedRows DEF TrqInd
  <2> QED
    BY <2>1 DEF SearchInd, NothingStranded
<1>9. CASE UNCHANGED trqVars
  BY <1>9 DEF trqVars, SearchInd, NothingStranded, PendingRows
<1> QED
  BY <1>1, <1>2, <1>3, <1>4, <1>5, <1>6, <1>7, <1>8, <1>9 DEF TrqNext

(***************************************************************************)
(* An open queue has every message the disk owes, for any number of        *)
(* messages, backups, marks and crashes outside of a backup (a queue never *)
(* backed up may crash at any moment); rows turned PENDING by a command    *)
(* apart (tr_queue.c trq_load, trq_check_backup).                          *)
(***************************************************************************)
THEOREM TrqNothingStranded ==
  ASSUME BackupSize = 0 \/ ~CrashInBackup
  PROVE  TrqSpec => []NothingStranded
<1>1. SearchInd => NothingStranded
  BY DEF SearchInd
<1> QED
  BY <1>1, TrqIndInit, TrqIndNext, SearchIndInit, SearchIndNext, PTL DEF TrqSpec

(***************************************************************************)
(* A backup moves only settled rows away, rows turned PENDING by a command *)
(* apart, in the same behaviours (tr_queue.c trq_check_backup).            *)
(***************************************************************************)
THEOREM TrqBackupMovesSettled ==
  ASSUME BackupSize = 0 \/ ~CrashInBackup
  PROVE  TrqSpec => BackupMovesSettled
<1>1. SearchInd => [BackupMove => PendingRows \subseteq remarked]_trqVars
  BY DEF SearchInd, BackupMove
<1> QED
  BY <1>1, TrqIndInit, TrqIndNext, SearchIndInit, SearchIndNext, PTL
  DEF TrqSpec, BackupMovesSettled
=============================================================================
