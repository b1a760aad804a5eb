-------------------------- MODULE LedgerCreateProofs -------------------------
(***************************************************************************)
(* Proofs about LedgerCreate: CreateInv is inductive, and the              *)
(* specification implements ExactlyOnce.                                   *)
(*                                                                         *)
(* One lemma per action says that it keeps CreateInv, with one step per    *)
(* conjunct.  The hard cases are BeginCreate (a new key for an old wish:   *)
(* nothing of that wish may stand), Retry (a new call of an old key) and   *)
(* Fail (the first call of a key was refused: nothing of it stands).       *)
(***************************************************************************)
EXTENDS LedgerCreate, TLAPS

USE LedgerCreateAssumption

(* At the start nothing was sent, stored or recorded.                      *)
LEMMA Start == Init => CreateInv
  <1> SUFFICES ASSUME Init PROVE CreateInv
    OBVIOUS
  <1>1. TypeOK
    <2>1. \A c \in Calls : ~(c <= 0)
      BY DEF Calls
    <2>2. made \in [Calls -> Intents \cup {None}] /\ \A c \in Calls : made[c] # None <=> c <= count
      BY <2>1 DEF Init
    <2>3. answers \in [Calls -> Answers \cup {None}] /\ record \in [Keys -> Records \cup {None}]
      BY DEF Init
    <2>4. told \in [Keys -> Calls \cup {None}] /\ count \in 0 .. MaxCalls
      BY DEF Init
    <2> QED BY <2>2, <2>3, <2>4 DEF Init, TypeOK
  <1>2. TxIsCurrent /\ RecordIsOfCall /\ AnswerIsRecord
    BY DEF Init, TxIsCurrent, RecordIsOfCall, AnswerIsRecord
  <1>3. NeverConflicts
    BY DEF Init, NeverConflicts, Answers
  <1>4. IntentsWereSent /\ MemoryIsStorage
    BY DEF Init, IntentsWereSent, MemoryIsStorage
  <1>5. IntentSurvives /\ OneStands
    BY DEF Init, IntentSurvives, OneStands, Rivals
  <1> QED BY <1>1, <1>2, <1>3, <1>4, <1>5 DEF CreateInv

(* The record answers: it has the payload of the call, so no conflict.     *)
LEMMA ReplayKeeps == ASSUME CreateInv, NEW c \in Calls, Replay(c) PROVE CreateInv'
  <1>1. TypeOK'
    BY DEF CreateInv, TypeOK, Replay, Answer, client, history, Answers, Records,
           Transactions, KeyOf, Intents, Calls
  <1>2. TxIsCurrent'
    BY DEF CreateInv, TypeOK, Replay, Answer, client, history, TxIsCurrent, KeyOf,
           Transactions
  <1>3. RecordIsOfCall'
    BY DEF CreateInv, TypeOK, Replay, Answer, client, history, TxIsCurrent,
           RecordIsOfCall, KeyOf, Records, Transactions, Intents
  <1>4. AnswerIsRecord'
    BY DEF CreateInv, TypeOK, Replay, Answer, client, history, TxIsCurrent,
           AnswerIsRecord, KeyOf, Records, Transactions, Done, Refused, Conflict
  <1>5. NeverConflicts'
    <2> DEFINE k == KeyOf(c)
    <2>1. made[c] \in Intents /\ k \in Keys
      BY DEF CreateInv, TypeOK, Replay, Intents, Calls, KeyOf
    <2>2. /\ record[k].row \in Calls /\ record[k].wish \in Wishes
          /\ made[record[k].row] = [key |-> k, wish |-> record[k].wish]
      BY <2>1 DEF CreateInv, TypeOK, Replay, RecordIsOfCall, Records
    <2>3. made[record[k].row] \in Intents /\ KeyOf(record[k].row) = k
      BY <2>1, <2>2 DEF Intents, KeyOf
    <2>4. made[record[k].row] = made[c]
      BY <2>1, <2>2, <2>3 DEF CreateInv, NeverConflicts
    <2>5. record[k].wish = made[c].wish
      BY <2>2, <2>4
    <2>6. answers' = [answers EXCEPT ![c] = Done(record[k].row)]
      BY <2>5 DEF Replay, Answer
    <2>7. Done(record[k].row) # Conflict
      BY DEF Done, Conflict
    <2> QED
      BY <2>6, <2>7 DEF CreateInv, TypeOK, Replay, history, NeverConflicts, KeyOf
  <1>6. IntentsWereSent'
    BY DEF CreateInv, TypeOK, Replay, Answer, client, history, IntentsWereSent, Intents
  <1>7. MemoryIsStorage'
    BY DEF CreateInv, TypeOK, Replay, Answer, client, history, MemoryIsStorage
  <1>8. IntentSurvives'
    BY DEF CreateInv, TypeOK, Replay, Answer, client, history, MemoryIsStorage,
           IntentSurvives, NeverConflicts, MayStand, KeyOf, Intents
  <1>9. OneStands'
    BY DEF CreateInv, TypeOK, Replay, Answer, client, history, MemoryIsStorage,
           IntentSurvives, OneStands, NeverConflicts, MayStand, KeyOf, Rivals, Intents
  <1> QED BY <1>1, <1>2, <1>3, <1>4, <1>5, <1>6, <1>7, <1>8, <1>9 DEF CreateInv

(* The transaction is of a request whose key has no record.                *)
LEMMA OpenKeeps == ASSUME CreateInv, NEW c \in Calls, Open(c) PROVE CreateInv'
  <1>1. TypeOK'
    BY DEF CreateInv, TypeOK, Open, client, history, Answers, Records, Transactions,
           KeyOf, Intents, Calls
  <1>2. TxIsCurrent'
    BY DEF CreateInv, TypeOK, Open, client, history, TxIsCurrent, KeyOf, Transactions
  <1>3. RecordIsOfCall'
    BY DEF CreateInv, TypeOK, Open, client, history, TxIsCurrent, RecordIsOfCall, KeyOf,
           Records, Transactions, Intents
  <1>4. AnswerIsRecord'
    BY DEF CreateInv, TypeOK, Open, client, history, TxIsCurrent, AnswerIsRecord, KeyOf,
           Records, Transactions, Done, Refused, Conflict
  <1>5. NeverConflicts'
    BY DEF CreateInv, TypeOK, Open, client, history, NeverConflicts, KeyOf, Intents,
           Done, Refused, Conflict
  <1>6. IntentsWereSent'
    BY DEF CreateInv, TypeOK, Open, client, history, IntentsWereSent, Intents
  <1>7. MemoryIsStorage'
    BY DEF CreateInv, TypeOK, Open, client, history, MemoryIsStorage
  <1>8. IntentSurvives'
    BY DEF CreateInv, TypeOK, Open, client, history, MemoryIsStorage, IntentSurvives,
           NeverConflicts, MayStand, KeyOf, Intents
  <1>9. OneStands'
    BY DEF CreateInv, TypeOK, Open, client, history, MemoryIsStorage, IntentSurvives,
           OneStands, NeverConflicts, MayStand, KeyOf, Rivals, Intents
  <1> QED BY <1>1, <1>2, <1>3, <1>4, <1>5, <1>6, <1>7, <1>8, <1>9 DEF CreateInv

(* A request less: less may stand.                                         *)
LEMMA RefuseKeeps == ASSUME CreateInv, NEW c \in Calls, Refuse(c) PROVE CreateInv'
  <1>1. TypeOK'
    BY DEF CreateInv, TypeOK, Refuse, Answer, client, history, Answers, Records,
           Transactions, KeyOf, Intents, Calls
  <1>2. TxIsCurrent'
    BY DEF CreateInv, TypeOK, Refuse, Answer, client, history, TxIsCurrent, KeyOf,
           Transactions
  <1>3. RecordIsOfCall'
    BY DEF CreateInv, TypeOK, Refuse, Answer, client, history, TxIsCurrent,
           RecordIsOfCall, KeyOf, Records, Transactions, Intents
  <1>4. AnswerIsRecord'
    BY DEF CreateInv, TypeOK, Refuse, Answer, client, history, TxIsCurrent,
           AnswerIsRecord, KeyOf, Records, Transactions, Done, Refused, Conflict
  <1>5. NeverConflicts'
    BY DEF CreateInv, TypeOK, Refuse, Answer, client, history, NeverConflicts, KeyOf,
           Intents, Done, Refused, Conflict
  <1>6. IntentsWereSent'
    BY DEF CreateInv, TypeOK, Refuse, Answer, client, history, IntentsWereSent, Intents
  <1>7. MemoryIsStorage'
    BY DEF CreateInv, TypeOK, Refuse, Answer, client, history, MemoryIsStorage
  <1>8. IntentSurvives'
    BY DEF CreateInv, TypeOK, Refuse, Answer, client, history, MemoryIsStorage,
           IntentSurvives, NeverConflicts, MayStand, KeyOf, Intents
  <1>9. OneStands'
    <2>1. made' = made /\ pending' = pending /\ blame' = blame /\ record' = record
      BY DEF Refuse, client, history
    <2>2. requests' \subseteq requests
      BY DEF Refuse, Answer
    <2>3. \A d \in Calls : MayStand(KeyOf(d))' => MayStand(KeyOf(d))
      BY <2>1, <2>2 DEF MayStand, KeyOf
    <2> QED
      BY <2>1, <2>3 DEF CreateInv, OneStands, KeyOf
  <1> QED BY <1>1, <1>2, <1>3, <1>4, <1>5, <1>6, <1>7, <1>8, <1>9 DEF CreateInv

(* Nothing is visible before the commit.                                   *)
LEMMA MutateKeeps == ASSUME CreateInv, Mutate PROVE CreateInv'
  <1>1. TypeOK'
    BY DEF CreateInv, TypeOK, Mutate, client, history, Answers, Records, Transactions,
           KeyOf, Intents, Calls
  <1>2. TxIsCurrent'
    BY DEF CreateInv, TypeOK, Mutate, client, history, TxIsCurrent, KeyOf, Transactions
  <1>3. RecordIsOfCall'
    BY DEF CreateInv, TypeOK, Mutate, client, history, TxIsCurrent, RecordIsOfCall,
           KeyOf, Records, Transactions, Intents
  <1>4. AnswerIsRecord'
    BY DEF CreateInv, TypeOK, Mutate, client, history, TxIsCurrent, AnswerIsRecord,
           KeyOf, Records, Transactions, Done, Refused, Conflict
  <1>5. NeverConflicts'
    BY DEF CreateInv, TypeOK, Mutate, client, history, NeverConflicts, KeyOf, Intents,
           Done, Refused, Conflict
  <1>6. IntentsWereSent'
    BY DEF CreateInv, TypeOK, Mutate, client, history, IntentsWereSent, Intents
  <1>7. MemoryIsStorage'
    BY DEF CreateInv, TypeOK, Mutate, client, history, MemoryIsStorage
  <1>8. IntentSurvives'
    BY DEF CreateInv, TypeOK, Mutate, client, history, MemoryIsStorage, IntentSurvives,
           NeverConflicts, MayStand, KeyOf, Intents
  <1>9. OneStands'
    BY DEF CreateInv, TypeOK, Mutate, client, history, MemoryIsStorage, IntentSurvives,
           OneStands, NeverConflicts, MayStand, KeyOf, Rivals, Intents
  <1> QED BY <1>1, <1>2, <1>3, <1>4, <1>5, <1>6, <1>7, <1>8, <1>9 DEF CreateInv

(* The request becomes a record: the same keys may stand.                  *)
LEMMA CommitKeeps == ASSUME CreateInv, Commit PROVE CreateInv'
  <1> DEFINE c == tx.call  k == KeyOf(c)
  <1>a. /\ c \in requests /\ c \in Calls /\ made[c] \in Intents /\ k \in Keys
        /\ made[c] = [key |-> k, wish |-> made[c].wish] /\ made[c].wish \in Wishes
        /\ record[k] = None /\ answers[c] = None
    BY DEF CreateInv, TypeOK, TxIsCurrent, AnswerIsRecord, Commit, Transactions, Intents,
           Calls, KeyOf
  <1>b. /\ record' = [record EXCEPT ![k] = [wish |-> made[c].wish, row |-> c]]
        /\ requests' = requests \ {c} /\ answers' = [answers EXCEPT ![c] = Done(c)]
        /\ tx' = None /\ rows' = rows \cup {c} /\ made' = made /\ count' = count
        /\ told' = told /\ blame' = blame /\ storage' = storage /\ pending' = pending
        /\ recovery' = recovery /\ submitting' = submitting /\ open' = open
    BY DEF Commit, Answer, client, history
  <1>c. \A d \in Calls : MayStand(KeyOf(d))' <=> MayStand(KeyOf(d))
    BY <1>a, <1>b DEF CreateInv, TypeOK, MayStand, KeyOf, Records
  <1>1. TypeOK'
    <2>1. record' \in [Keys -> Records \cup {None}]
      BY <1>a, <1>b DEF CreateInv, TypeOK, Records
    <2>2. answers' \in [Calls -> Answers \cup {None}]
      BY <1>a, <1>b DEF CreateInv, TypeOK, Answers
    <2> QED
      BY <1>a, <1>b, <2>1, <2>2 DEF CreateInv, TypeOK
  <1>2. TxIsCurrent'
    BY DEF CreateInv, TypeOK, Commit, Answer, client, history, TxIsCurrent, KeyOf,
           Transactions
  <1>3. RecordIsOfCall'
    BY DEF CreateInv, TypeOK, Commit, Answer, client, history, TxIsCurrent,
           RecordIsOfCall, KeyOf, Records, Transactions, Intents
  <1>4. AnswerIsRecord'
    <2> SUFFICES ASSUME NEW d \in Calls, answers'[d] # None
                 PROVE  /\ made[d] # None /\ d \notin requests'
                        /\ answers'[d].result = "done" =>
                             /\ record'[KeyOf(d)] # None
                             /\ record'[KeyOf(d)].row = answers'[d].row
      BY <1>b DEF AnswerIsRecord, KeyOf
    <2>1. CASE d = c
      BY <1>a, <1>b, <2>1 DEF CreateInv, TypeOK, Done, Records
    <2>2. CASE d # c
      <3>1. answers'[d] = answers[d] /\ made[d] # None /\ d \notin requests
        BY <1>b, <2>2 DEF CreateInv, TypeOK, AnswerIsRecord
      <3>2. KeyOf(d) = k => answers[d].result # "done"
        BY <1>a, <3>1 DEF CreateInv, AnswerIsRecord
      <3>3. KeyOf(d) # k => record'[KeyOf(d)] = record[KeyOf(d)]
        BY <1>b, <3>1 DEF CreateInv, TypeOK, KeyOf, Intents
      <3> QED
        BY <1>b, <3>1, <3>2, <3>3 DEF CreateInv, AnswerIsRecord
    <2> QED BY <2>1, <2>2
  <1>5. NeverConflicts'
    BY DEF CreateInv, TypeOK, Commit, Answer, client, history, NeverConflicts, KeyOf,
           Intents, Done, Refused, Conflict
  <1>6. IntentsWereSent'
    BY DEF CreateInv, TypeOK, Commit, Answer, client, history, IntentsWereSent, Intents
  <1>7. MemoryIsStorage'
    BY DEF CreateInv, TypeOK, Commit, Answer, client, history, MemoryIsStorage
  <1>8. IntentSurvives'
    BY <1>b, <1>c DEF CreateInv, IntentSurvives, KeyOf
  <1>9. OneStands'
    BY <1>b, <1>c DEF CreateInv, OneStands, KeyOf
  <1> QED BY <1>1, <1>2, <1>3, <1>4, <1>5, <1>6, <1>7, <1>8, <1>9 DEF CreateInv

(* A rollback takes the request away and nothing else.                     *)
LEMMA AbortKeeps == ASSUME CreateInv, Abort PROVE CreateInv'
  <1>1. TypeOK'
    BY DEF CreateInv, TypeOK, Abort, Answer, client, history, Answers, Records,
           Transactions, KeyOf, Intents, Calls
  <1>2. TxIsCurrent'
    BY DEF CreateInv, TypeOK, Abort, Answer, client, history, TxIsCurrent, KeyOf,
           Transactions
  <1>3. RecordIsOfCall'
    BY DEF CreateInv, TypeOK, Abort, Answer, client, history, TxIsCurrent,
           RecordIsOfCall, KeyOf, Records, Transactions, Intents
  <1>4. AnswerIsRecord'
    BY DEF CreateInv, TypeOK, Abort, Answer, client, history, TxIsCurrent,
           AnswerIsRecord, KeyOf, Records, Transactions, Done, Refused, Conflict
  <1>5. NeverConflicts'
    BY DEF CreateInv, TypeOK, Abort, Answer, client, history, NeverConflicts, KeyOf,
           Intents, Done, Refused, Conflict
  <1>6. IntentsWereSent'
    BY DEF CreateInv, TypeOK, Abort, Answer, client, history, IntentsWereSent, Intents
  <1>7. MemoryIsStorage'
    BY DEF CreateInv, TypeOK, Abort, Answer, client, history, MemoryIsStorage
  <1>8. IntentSurvives'
    BY DEF CreateInv, TypeOK, Abort, Answer, client, history, MemoryIsStorage,
           IntentSurvives, NeverConflicts, MayStand, KeyOf, Intents
  <1>9. OneStands'
    BY DEF CreateInv, TypeOK, Abort, Answer, client, history, MemoryIsStorage,
           IntentSurvives, OneStands, NeverConflicts, MayStand, KeyOf, Rivals, Intents
  <1> QED BY <1>1, <1>2, <1>3, <1>4, <1>5, <1>6, <1>7, <1>8, <1>9 DEF CreateInv

(* So does the death of the process, without an answer.                    *)
LEMMA CrashKeeps == ASSUME CreateInv, Crash PROVE CreateInv'
  <1>1. TypeOK'
    BY DEF CreateInv, TypeOK, Crash, client, history, Answers, Records, Transactions,
           KeyOf, Intents, Calls
  <1>2. TxIsCurrent'
    BY DEF CreateInv, TypeOK, Crash, client, history, TxIsCurrent, KeyOf, Transactions
  <1>3. RecordIsOfCall'
    BY DEF CreateInv, TypeOK, Crash, client, history, TxIsCurrent, RecordIsOfCall,
           KeyOf, Records, Transactions, Intents
  <1>4. AnswerIsRecord'
    BY DEF CreateInv, TypeOK, Crash, client, history, TxIsCurrent, AnswerIsRecord,
           KeyOf, Records, Transactions, Done, Refused, Conflict
  <1>5. NeverConflicts'
    BY DEF CreateInv, TypeOK, Crash, client, history, NeverConflicts, KeyOf, Intents,
           Done, Refused, Conflict
  <1>6. IntentsWereSent'
    BY DEF CreateInv, TypeOK, Crash, client, history, IntentsWereSent, Intents
  <1>7. MemoryIsStorage'
    BY DEF CreateInv, TypeOK, Crash, client, history, MemoryIsStorage
  <1>8. IntentSurvives'
    BY DEF CreateInv, TypeOK, Crash, client, history, MemoryIsStorage, IntentSurvives,
           NeverConflicts, MayStand, KeyOf, Intents
  <1>9. OneStands'
    BY DEF CreateInv, TypeOK, Crash, client, history, MemoryIsStorage, IntentSurvives,
           OneStands, NeverConflicts, MayStand, KeyOf, Rivals, Intents
  <1> QED BY <1>1, <1>2, <1>3, <1>4, <1>5, <1>6, <1>7, <1>8, <1>9 DEF CreateInv

(* The record stays when the row goes.                                     *)
LEMMA DeleteRowKeeps == ASSUME CreateInv, NEW r \in Calls, DeleteRow(r) PROVE CreateInv'
  <1>1. TypeOK'
    BY DEF CreateInv, TypeOK, DeleteRow, client, history, Answers, Records,
           Transactions, KeyOf, Intents, Calls
  <1>2. TxIsCurrent'
    BY DEF CreateInv, TypeOK, DeleteRow, client, history, TxIsCurrent, KeyOf,
           Transactions
  <1>3. RecordIsOfCall'
    BY DEF CreateInv, TypeOK, DeleteRow, client, history, TxIsCurrent, RecordIsOfCall,
           KeyOf, Records, Transactions, Intents
  <1>4. AnswerIsRecord'
    BY DEF CreateInv, TypeOK, DeleteRow, client, history, TxIsCurrent, AnswerIsRecord,
           KeyOf, Records, Transactions, Done, Refused, Conflict
  <1>5. NeverConflicts'
    BY DEF CreateInv, TypeOK, DeleteRow, client, history, NeverConflicts, KeyOf,
           Intents, Done, Refused, Conflict
  <1>6. IntentsWereSent'
    BY DEF CreateInv, TypeOK, DeleteRow, client, history, IntentsWereSent, Intents
  <1>7. MemoryIsStorage'
    BY DEF CreateInv, TypeOK, DeleteRow, client, history, MemoryIsStorage
  <1>8. IntentSurvives'
    BY DEF CreateInv, TypeOK, DeleteRow, client, history, MemoryIsStorage,
           IntentSurvives, NeverConflicts, MayStand, KeyOf, Intents
  <1>9. OneStands'
    BY DEF CreateInv, TypeOK, DeleteRow, client, history, MemoryIsStorage,
           IntentSurvives, OneStands, NeverConflicts, MayStand, KeyOf, Rivals, Intents
  <1> QED BY <1>1, <1>2, <1>3, <1>4, <1>5, <1>6, <1>7, <1>8, <1>9 DEF CreateInv

(* A new key: no entry of this wish may stand, for it would be pending.    *)
LEMMA BeginCreateKeeps == ASSUME CreateInv, NEW w \in Wishes, BeginCreate(w) PROVE CreateInv'
  <1> DEFINE n == count + 1
  <1>a. PICK k \in Keys : /\ Unused(k)
                          /\ storage' = [key |-> k, wish |-> w]
                          /\ pending' = [key |-> k, wish |-> w]
                          /\ Send([key |-> k, wish |-> w])
    BY DEF BeginCreate
  <1> DEFINE intent == [key |-> k, wish |-> w]
  <1>b. /\ n \in Calls /\ made[n] = None /\ intent \in Intents /\ intent # None
        /\ count' = n /\ made' = [made EXCEPT ![n] = intent]
        /\ requests' = requests \cup {n} /\ open' = open \cup {n}
        /\ storage' = intent /\ pending' = intent /\ pending = None
        /\ record' = record /\ told' = told /\ blame' = blame /\ answers' = answers
        /\ ~Confirmed(w)
    <2>1. intent \in Intents
      BY DEF Intents
    <2>2. count < MaxCalls /\ count' = n /\ made' = [made EXCEPT ![n] = intent]
          /\ requests' = requests \cup {n} /\ open' = open \cup {n}
      BY <1>a DEF Send
    <2>3. n \in Calls /\ made[n] = None
      BY <2>2 DEF CreateInv, TypeOK, Calls
    <2> QED BY <1>a, <2>1, <2>2, <2>3 DEF BeginCreate
  <1>c. made'[n] = intent /\ \A d \in Calls \ {n} : made'[d] = made[d]
    BY <1>b DEF CreateInv, TypeOK
  <1>d. \A d \in Calls \ {n} : made[d] # None => KeyOf(d) # k
    BY <1>a DEF Unused
  <1>e. \A d \in requests : d \in Calls \ {n} /\ made[d] # None
    <2> requests \subseteq 1 .. count /\ count \in Nat /\ n <= MaxCalls
      BY <1>b DEF CreateInv, TypeOK, Calls
    <2> QED BY DEF CreateInv, TypeOK, Calls
  <1>f. \A d \in Calls \ {n} : made[d] # None /\ MayStand(KeyOf(d))' => MayStand(KeyOf(d))
    BY <1>b, <1>c, <1>d, <1>e DEF MayStand, KeyOf
  <1>g. blame = {} => \A d \in Calls \ {n} :
          made[d] # None /\ told[KeyOf(d)] = None => ~MayStand(KeyOf(d))'
    BY <1>b, <1>f DEF CreateInv, MemoryIsStorage, IntentSurvives
  <1>1. TypeOK'
    <2>1. made' \in [Calls -> Intents \cup {None}]
      BY <1>b DEF CreateInv, TypeOK
    <2>2. \A c \in Calls : made'[c] # None <=> c <= count'
      BY <1>b, <1>c DEF CreateInv, TypeOK, Calls
    <2>3. /\ count' \in 0 .. MaxCalls
          /\ requests' \subseteq 1 .. count' /\ open' \subseteq 1 .. count'
      BY <1>b DEF CreateInv, TypeOK, Calls
    <2> QED
      BY <1>b, <2>1, <2>2, <2>3 DEF CreateInv, TypeOK, BeginCreate
  <1>2. TxIsCurrent'
    BY DEF CreateInv, TypeOK, BeginCreate, Send, Unused, Confirmed, TxIsCurrent, KeyOf,
           Transactions
  <1>3. RecordIsOfCall'
    BY DEF CreateInv, TypeOK, BeginCreate, Send, Unused, Confirmed, TxIsCurrent,
           RecordIsOfCall, KeyOf, Records, Transactions, Intents
  <1>4. AnswerIsRecord'
    BY DEF CreateInv, TypeOK, BeginCreate, Send, Unused, Confirmed, TxIsCurrent,
           AnswerIsRecord, KeyOf, Records, Transactions, Done, Refused, Conflict
  <1>5. NeverConflicts'
    BY DEF CreateInv, TypeOK, BeginCreate, Send, Unused, Confirmed, NeverConflicts,
           KeyOf, Intents, Done, Refused, Conflict
  <1>6. IntentsWereSent'
    BY <1>b, <1>c DEF IntentsWereSent
  <1>7. MemoryIsStorage'
    BY DEF CreateInv, TypeOK, BeginCreate, Send, Unused, Confirmed, MemoryIsStorage
  <1>8. IntentSurvives'
    <2> SUFFICES ASSUME blame = {}, NEW d \in Calls, d # n, made[d] # None,
                        told[KeyOf(d)] = None, MayStand(KeyOf(d))'
                 PROVE  FALSE
      BY <1>b, <1>c DEF IntentSurvives, KeyOf
    <2> QED BY <1>g
  <1>9. OneStands'
    <2>1. ASSUME blame = {}, NEW d \in Calls, Rivals(intent, made'[d])
          PROVE  ~MayStand(KeyOf(d))'
      <3>1. d # n /\ made[d] # None /\ made[d].wish = w
        BY <1>c, <2>1 DEF Rivals
      <3>2. told[KeyOf(d)] = None
        BY <1>b, <3>1 DEF Confirmed
      <3> QED BY <1>g, <2>1, <3>1, <3>2
    <2>2. ASSUME blame = {}, NEW c \in Calls, NEW d \in Calls, Rivals(made'[c], made'[d]),
                 MayStand(KeyOf(c))', MayStand(KeyOf(d))'
          PROVE  FALSE
      <3>1. c # n
        BY <1>c, <2>1, <2>2
      <3>2. d # n
        BY <1>c, <2>1, <2>2 DEF Rivals
      <3>3. Rivals(made[c], made[d])
        BY <1>c, <2>2, <3>1, <3>2
      <3>4. MayStand(KeyOf(c)) /\ MayStand(KeyOf(d))
        BY <1>f, <2>2, <3>1, <3>2, <3>3 DEF Rivals
      <3> QED BY <2>2, <3>3, <3>4 DEF CreateInv, OneStands
    <2> QED BY <1>b, <2>1, <2>2 DEF OneStands, Rivals
  <1> QED BY <1>1, <1>2, <1>3, <1>4, <1>5, <1>6, <1>7, <1>8, <1>9 DEF CreateInv

(* A new call of the pending intent, which was sent before.                *)
LEMMA RetryKeeps == ASSUME CreateInv, Retry PROVE CreateInv'
  <1> DEFINE n == count + 1
  <1>a. /\ n \in Calls /\ made[n] = None /\ pending \in Intents /\ pending # None
        /\ count' = n /\ made' = [made EXCEPT ![n] = pending]
        /\ requests' = requests \cup {n} /\ open' = open \cup {n}
        /\ storage' = storage /\ pending' = pending /\ record' = record /\ told' = told
        /\ blame' = blame /\ answers' = answers
    BY DEF Retry, Send, CreateInv, TypeOK, Calls
  <1>b. made'[n] = pending /\ \A d \in Calls \ {n} : made'[d] = made[d]
    BY <1>a DEF CreateInv, TypeOK
  <1>c. PICK e \in Calls : made[e] = pending
    BY <1>a DEF CreateInv, IntentsWereSent
  <1>d. \A d \in Calls : made'[d] # None /\ made'[d].key = pending.key => made'[d] = pending
    BY <1>a, <1>b, <1>c DEF CreateInv, NeverConflicts, KeyOf
  <1>e. \A d \in requests : d \in Calls \ {n} /\ made[d] # None
    BY <1>a DEF CreateInv, TypeOK, Calls
  <1>f. \A d \in Calls : made'[d] # None /\ made'[d].key # pending.key =>
          d # n /\ made'[d] = made[d] /\ (MayStand(KeyOf(d))' <=> MayStand(KeyOf(d)))
    BY <1>a, <1>b, <1>e DEF MayStand, KeyOf
  <1>1. TypeOK'
    <2>1. made' \in [Calls -> Intents \cup {None}]
      BY <1>a DEF CreateInv, TypeOK
    <2>2. \A c \in Calls : made'[c] # None <=> c <= count'
      BY <1>a, <1>a DEF CreateInv, TypeOK, Calls
    <2>3. /\ count' \in 0 .. MaxCalls
          /\ requests' \subseteq 1 .. count' /\ open' \subseteq 1 .. count'
      BY <1>a DEF CreateInv, TypeOK, Calls
    <2> QED
      BY <1>a, <2>1, <2>2, <2>3 DEF CreateInv, TypeOK, Retry
  <1>2. TxIsCurrent'
    BY DEF CreateInv, TypeOK, Retry, Send, TxIsCurrent, KeyOf, Transactions
  <1>3. RecordIsOfCall'
    BY DEF CreateInv, TypeOK, Retry, Send, TxIsCurrent, RecordIsOfCall, KeyOf, Records,
           Transactions, Intents
  <1>4. AnswerIsRecord'
    BY DEF CreateInv, TypeOK, Retry, Send, TxIsCurrent, AnswerIsRecord, KeyOf, Records,
           Transactions, Done, Refused, Conflict
  <1>5. NeverConflicts'
    <2>1. ASSUME NEW c \in Calls, NEW d \in Calls, made'[c] # None, made'[d] # None,
                 made'[c].key = made'[d].key
          PROVE  made'[c] = made'[d]
      <3>1. CASE made'[c].key = pending.key
        BY <1>d, <2>1, <3>1
      <3>2. CASE made'[c].key # pending.key
        BY <1>f, <2>1, <3>2 DEF CreateInv, NeverConflicts, KeyOf
      <3> QED BY <3>1, <3>2
    <2> QED BY <1>a, <2>1 DEF CreateInv, NeverConflicts, KeyOf
  <1>6. IntentsWereSent'
    BY DEF CreateInv, TypeOK, Retry, Send, IntentsWereSent, Intents
  <1>7. MemoryIsStorage'
    BY DEF CreateInv, TypeOK, Retry, Send, MemoryIsStorage
  <1>8. IntentSurvives'
    <2> SUFFICES ASSUME blame = {}, NEW d \in Calls, made'[d] # None,
                        told[made'[d].key] = None, MayStand(KeyOf(d))'
                 PROVE  storage = made'[d]
      BY <1>a DEF IntentSurvives, KeyOf
    <2>1. CASE made'[d].key = pending.key
      BY <1>d, <2>1 DEF CreateInv, MemoryIsStorage
    <2>2. CASE made'[d].key # pending.key
      BY <1>f, <2>2 DEF CreateInv, IntentSurvives, KeyOf
    <2> QED BY <2>1, <2>2
  <1>9. OneStands'
    <2>1. ASSUME blame = {}, NEW d \in Calls, Rivals(pending, made'[d])
          PROVE  ~MayStand(KeyOf(d))'
      BY <1>f, <2>1 DEF CreateInv, OneStands, Rivals
    <2>2. ASSUME blame = {}, NEW c \in Calls, NEW d \in Calls, Rivals(made'[c], made'[d]),
                 MayStand(KeyOf(c))', MayStand(KeyOf(d))'
          PROVE  FALSE
      <3>1. made'[c].key # pending.key
        BY <1>d, <2>1, <2>2 DEF Rivals
      <3>2. made'[d].key # pending.key
        BY <1>d, <2>1, <2>2 DEF Rivals
      <3> QED BY <1>f, <2>2, <3>1, <3>2 DEF CreateInv, OneStands, Rivals
    <2> QED BY <1>a, <2>1, <2>2 DEF OneStands
  <1> QED BY <1>1, <1>2, <1>3, <1>4, <1>5, <1>6, <1>7, <1>8, <1>9 DEF CreateInv

(* The answer is of the record: the key is told, the intent forgotten.     *)
LEMMA SucceedKeeps == ASSUME CreateInv, NEW c \in Calls, Succeed(c) PROVE CreateInv'
  <1>a. made[c] \in Intents /\ KeyOf(c) \in Keys
    BY DEF Succeed, CreateInv, TypeOK, AnswerIsRecord, Intents, KeyOf
  <1>b. answers[c].row \in Calls
    BY <1>a DEF Succeed, CreateInv, TypeOK, AnswerIsRecord, Records
  <1>1. TypeOK'
    BY <1>a, <1>b DEF Succeed, Forget, server, CreateInv, TypeOK
  <1>2. TxIsCurrent'
    BY DEF CreateInv, TypeOK, Succeed, Forget, server, TxIsCurrent, KeyOf, Transactions
  <1>3. RecordIsOfCall'
    BY DEF CreateInv, TypeOK, Succeed, Forget, server, TxIsCurrent, RecordIsOfCall,
           KeyOf, Records, Transactions, Intents
  <1>4. AnswerIsRecord'
    BY DEF CreateInv, TypeOK, Succeed, Forget, server, TxIsCurrent, AnswerIsRecord,
           KeyOf, Records, Transactions, Done, Refused, Conflict
  <1>5. NeverConflicts'
    BY DEF CreateInv, TypeOK, Succeed, Forget, server, NeverConflicts, KeyOf, Intents,
           Done, Refused, Conflict
  <1>6. IntentsWereSent'
    BY DEF CreateInv, TypeOK, Succeed, Forget, server, IntentsWereSent, Intents
  <1>7. MemoryIsStorage'
    BY DEF CreateInv, TypeOK, Succeed, Forget, server, MemoryIsStorage
  <1>8. IntentSurvives'
    <2> SUFFICES ASSUME blame' = {}, NEW d \in Calls, made[d] # None,
                        told'[KeyOf(d)] = None, MayStand(KeyOf(d))
                 PROVE  FALSE
      BY DEF Succeed, server, IntentSurvives, MayStand, KeyOf
    <2>1. blame = {} /\ pending \in {None, made[c]}
      BY DEF Succeed
    <2>2. KeyOf(d) # KeyOf(c) /\ told[KeyOf(d)] = None
      BY <1>a, <1>b DEF Succeed, CreateInv, TypeOK, Calls
    <2>3. pending = made[d]
      BY <2>1, <2>2 DEF CreateInv, IntentSurvives, MemoryIsStorage
    <2> QED BY <2>1, <2>2, <2>3 DEF KeyOf
  <1>9. OneStands'
    BY DEF CreateInv, TypeOK, Succeed, Forget, server, MemoryIsStorage, IntentSurvives,
           OneStands, NeverConflicts, MayStand, KeyOf, Rivals, Intents
  <1> QED BY <1>1, <1>2, <1>3, <1>4, <1>5, <1>6, <1>7, <1>8, <1>9 DEF CreateInv

(* The only call of its key was refused: nothing of the key may stand.     *)
LEMMA FailKeeps == ASSUME CreateInv, NEW c \in Calls, Fail(c) PROVE CreateInv'
  <1>1. TypeOK'
    BY DEF CreateInv, TypeOK, Fail, Forget, server, Answers, Records, Transactions,
           KeyOf, Intents, Calls
  <1>2. TxIsCurrent'
    BY DEF CreateInv, TypeOK, Fail, Forget, server, TxIsCurrent, KeyOf, Transactions
  <1>3. RecordIsOfCall'
    BY DEF CreateInv, TypeOK, Fail, Forget, server, TxIsCurrent, RecordIsOfCall, KeyOf,
           Records, Transactions, Intents
  <1>4. AnswerIsRecord'
    BY DEF CreateInv, TypeOK, Fail, Forget, server, TxIsCurrent, AnswerIsRecord, KeyOf,
           Records, Transactions, Done, Refused, Conflict
  <1>5. NeverConflicts'
    BY DEF CreateInv, TypeOK, Fail, Forget, server, NeverConflicts, KeyOf, Intents,
           Done, Refused, Conflict
  <1>6. IntentsWereSent'
    BY DEF CreateInv, TypeOK, Fail, Forget, server, IntentsWereSent, Intents
  <1>7. MemoryIsStorage'
    BY DEF CreateInv, TypeOK, Fail, Forget, server, MemoryIsStorage
  <1>8. IntentSurvives'
    <2> SUFFICES ASSUME blame' = {}, NEW d \in Calls, made[d] # None,
                        told[KeyOf(d)] = None, MayStand(KeyOf(d))
                 PROVE  FALSE
      BY DEF Fail, server, IntentSurvives, MayStand, KeyOf
    <2>1. blame = {} /\ pending \in {None, made[c]} /\ \A e \in Calls \ {c} : made[e] # made[c]
      BY DEF Fail
    <2>2. made[d] = made[c]
      BY <2>1 DEF CreateInv, IntentSurvives, MemoryIsStorage
    <2>3. d = c
      BY <2>1, <2>2
    <2>4. c \notin requests /\ answers[c].result # "done" /\ made[c] \in Intents
      BY <2>3 DEF Fail, CreateInv, TypeOK, AnswerIsRecord
    <2>5. \A e \in Calls : made[e] # None /\ KeyOf(e) = KeyOf(c) => e = c
      BY <2>1, <2>4 DEF CreateInv, NeverConflicts
    <2>6. record[KeyOf(c)] # None
      <3>1. \A e \in requests : e \in Calls /\ made[e] # None
        BY DEF CreateInv, TypeOK, Calls
      <3> QED BY <2>3, <2>4, <2>5, <3>1 DEF MayStand
    <2>7. record[KeyOf(c)].row = c
      <3>1. /\ record[KeyOf(c)].row \in Calls /\ record[KeyOf(c)].wish \in Wishes
            /\ KeyOf(c) \in Keys
        BY <2>4, <2>6 DEF CreateInv, TypeOK, Records, KeyOf, Intents
      <3>2. made[record[KeyOf(c)].row] = [key |-> KeyOf(c), wish |-> record[KeyOf(c)].wish]
        BY <2>6, <3>1 DEF CreateInv, RecordIsOfCall
      <3>3. made[record[KeyOf(c)].row] # None
        BY <3>1, <3>2 DEF Intents
      <3> QED BY <2>5, <3>1, <3>2, <3>3 DEF KeyOf
    <2>8. answers[c] = Done(c)
      BY <2>4, <2>6, <2>7 DEF CreateInv, RecordIsOfCall, KeyOf, Intents
    <2> QED BY <2>4, <2>8 DEF Done
  <1>9. OneStands'
    BY DEF CreateInv, TypeOK, Fail, Forget, server, MemoryIsStorage, IntentSurvives,
           OneStands, NeverConflicts, MayStand, KeyOf, Rivals, Intents
  <1> QED BY <1>1, <1>2, <1>3, <1>4, <1>5, <1>6, <1>7, <1>8, <1>9 DEF CreateInv

(* The intent stays in storage and in memory.                              *)
LEMMA LoseTrackKeeps == ASSUME CreateInv, NEW c \in Calls, LoseTrack(c) PROVE CreateInv'
  <1>1. TypeOK'
    BY DEF CreateInv, TypeOK, LoseTrack, server, history, Answers, Records,
           Transactions, KeyOf, Intents, Calls
  <1>2. TxIsCurrent'
    BY DEF CreateInv, TypeOK, LoseTrack, server, history, TxIsCurrent, KeyOf,
           Transactions
  <1>3. RecordIsOfCall'
    BY DEF CreateInv, TypeOK, LoseTrack, server, history, TxIsCurrent, RecordIsOfCall,
           KeyOf, Records, Transactions, Intents
  <1>4. AnswerIsRecord'
    BY DEF CreateInv, TypeOK, LoseTrack, server, history, TxIsCurrent, AnswerIsRecord,
           KeyOf, Records, Transactions, Done, Refused, Conflict
  <1>5. NeverConflicts'
    BY DEF CreateInv, TypeOK, LoseTrack, server, history, NeverConflicts, KeyOf,
           Intents, Done, Refused, Conflict
  <1>6. IntentsWereSent'
    BY DEF CreateInv, TypeOK, LoseTrack, server, history, IntentsWereSent, Intents
  <1>7. MemoryIsStorage'
    BY DEF CreateInv, TypeOK, LoseTrack, server, history, MemoryIsStorage
  <1>8. IntentSurvives'
    BY DEF CreateInv, TypeOK, LoseTrack, server, history, MemoryIsStorage,
           IntentSurvives, NeverConflicts, MayStand, KeyOf, Intents
  <1>9. OneStands'
    BY DEF CreateInv, LoseTrack, server, history, OneStands, MayStand, KeyOf
  <1> QED BY <1>1, <1>2, <1>3, <1>4, <1>5, <1>6, <1>7, <1>8, <1>9 DEF CreateInv

(* Memory is read back from storage.                                       *)
LEMMA BootstrapKeeps == ASSUME CreateInv, Bootstrap PROVE CreateInv'
  <1>1. TypeOK'
    BY DEF CreateInv, TypeOK, Bootstrap, ReadBack, server, history, Answers, Records,
           Transactions, KeyOf, Intents, Calls
  <1>2. TxIsCurrent'
    BY DEF CreateInv, TypeOK, Bootstrap, ReadBack, server, history, TxIsCurrent, KeyOf,
           Transactions
  <1>3. RecordIsOfCall'
    BY DEF CreateInv, TypeOK, Bootstrap, ReadBack, server, history, TxIsCurrent,
           RecordIsOfCall, KeyOf, Records, Transactions, Intents
  <1>4. AnswerIsRecord'
    BY DEF CreateInv, TypeOK, Bootstrap, ReadBack, server, history, TxIsCurrent,
           AnswerIsRecord, KeyOf, Records, Transactions, Done, Refused, Conflict
  <1>5. NeverConflicts'
    BY DEF CreateInv, TypeOK, Bootstrap, ReadBack, server, history, NeverConflicts,
           KeyOf, Intents, Done, Refused, Conflict
  <1>6. IntentsWereSent'
    BY DEF CreateInv, TypeOK, Bootstrap, ReadBack, server, history, IntentsWereSent,
           Intents
  <1>7. MemoryIsStorage'
    BY DEF CreateInv, TypeOK, Bootstrap, ReadBack, server, history, MemoryIsStorage
  <1>8. IntentSurvives'
    BY DEF CreateInv, TypeOK, Bootstrap, ReadBack, server, history, MemoryIsStorage,
           IntentSurvives, NeverConflicts, MayStand, KeyOf, Intents
  <1>9. OneStands'
    BY DEF CreateInv, TypeOK, Bootstrap, ReadBack, server, history, MemoryIsStorage,
           IntentSurvives, OneStands, NeverConflicts, MayStand, KeyOf, Rivals, Intents
  <1> QED BY <1>1, <1>2, <1>3, <1>4, <1>5, <1>6, <1>7, <1>8, <1>9 DEF CreateInv

(* So it is on a new page, where no call is open.                          *)
LEMMA ReloadKeeps == ASSUME CreateInv, Reload PROVE CreateInv'
  <1>1. TypeOK'
    BY DEF CreateInv, TypeOK, Reload, ReadBack, server, history, Answers, Records,
           Transactions, KeyOf, Intents, Calls
  <1>2. TxIsCurrent'
    BY DEF CreateInv, TypeOK, Reload, ReadBack, server, history, TxIsCurrent, KeyOf,
           Transactions
  <1>3. RecordIsOfCall'
    BY DEF CreateInv, TypeOK, Reload, ReadBack, server, history, TxIsCurrent,
           RecordIsOfCall, KeyOf, Records, Transactions, Intents
  <1>4. AnswerIsRecord'
    BY DEF CreateInv, TypeOK, Reload, ReadBack, server, history, TxIsCurrent,
           AnswerIsRecord, KeyOf, Records, Transactions, Done, Refused, Conflict
  <1>5. NeverConflicts'
    BY DEF CreateInv, TypeOK, Reload, ReadBack, server, history, NeverConflicts, KeyOf,
           Intents, Done, Refused, Conflict
  <1>6. IntentsWereSent'
    BY DEF CreateInv, TypeOK, Reload, ReadBack, server, history, IntentsWereSent,
           Intents
  <1>7. MemoryIsStorage'
    BY DEF CreateInv, TypeOK, Reload, ReadBack, server, history, MemoryIsStorage
  <1>8. IntentSurvives'
    BY DEF CreateInv, TypeOK, Reload, ReadBack, server, history, MemoryIsStorage,
           IntentSurvives, NeverConflicts, MayStand, KeyOf, Intents
  <1>9. OneStands'
    BY DEF CreateInv, TypeOK, Reload, ReadBack, server, history, MemoryIsStorage,
           IntentSurvives, OneStands, NeverConflicts, MayStand, KeyOf, Rivals, Intents
  <1> QED BY <1>1, <1>2, <1>3, <1>4, <1>5, <1>6, <1>7, <1>8, <1>9 DEF CreateInv

(* The blame is named.                                                     *)
LEMMA SpoilKeeps == ASSUME CreateInv, Spoil PROVE CreateInv'
  <1>1. TypeOK'
    BY DEF CreateInv, TypeOK, Spoil, server, Answers, Records, Transactions, KeyOf,
           Intents, Calls
  <1>2. TxIsCurrent'
    BY DEF CreateInv, TypeOK, Spoil, server, TxIsCurrent, KeyOf, Transactions
  <1>3. RecordIsOfCall'
    BY DEF CreateInv, TypeOK, Spoil, server, TxIsCurrent, RecordIsOfCall, KeyOf,
           Records, Transactions, Intents
  <1>4. AnswerIsRecord'
    BY DEF CreateInv, TypeOK, Spoil, server, TxIsCurrent, AnswerIsRecord, KeyOf,
           Records, Transactions, Done, Refused, Conflict
  <1>5. NeverConflicts'
    BY DEF CreateInv, TypeOK, Spoil, server, NeverConflicts, KeyOf, Intents, Done,
           Refused, Conflict
  <1>6. IntentsWereSent'
    BY DEF CreateInv, TypeOK, Spoil, server, IntentsWereSent, Intents
  <1>7. MemoryIsStorage'
    BY DEF CreateInv, TypeOK, Spoil, server, MemoryIsStorage
  <1>8. IntentSurvives'
    BY DEF CreateInv, TypeOK, Spoil, server, MemoryIsStorage, IntentSurvives,
           NeverConflicts, MayStand, KeyOf, Intents
  <1>9. OneStands'
    BY DEF CreateInv, TypeOK, Spoil, server, MemoryIsStorage, IntentSurvives, OneStands,
           NeverConflicts, MayStand, KeyOf, Rivals, Intents
  <1> QED BY <1>1, <1>2, <1>3, <1>4, <1>5, <1>6, <1>7, <1>8, <1>9 DEF CreateInv

(* CreateInv is inductive.                                                 *)
LEMMA StepKeeps == CreateInv /\ [Next]_vars => CreateInv'
  <1> SUFFICES ASSUME CreateInv, [Next]_vars PROVE CreateInv'
    OBVIOUS
  <1>1. CASE Server
    BY <1>1, ReplayKeeps, OpenKeeps, RefuseKeeps, MutateKeeps, CommitKeeps, AbortKeeps,
       CrashKeeps, DeleteRowKeeps DEF Server
  <1>2. CASE Finish
    BY <1>2, SucceedKeeps, FailKeeps, LoseTrackKeeps DEF Finish
  <1>3. CASE \E w \in Wishes : BeginCreate(w)
    BY <1>3, BeginCreateKeeps
  <1>4. CASE Retry \/ Bootstrap \/ Reload \/ Spoil
    BY <1>4, RetryKeeps, BootstrapKeeps, ReloadKeeps, SpoilKeeps
  <1>5. CASE UNCHANGED vars
    BY <1>5 DEF CreateInv, TypeOK, TxIsCurrent, RecordIsOfCall, AnswerIsRecord, NeverConflicts,
           IntentsWereSent, MemoryIsStorage, IntentSurvives, OneStands, MayStand, KeyOf,
           vars, server, client, history
  <1> QED BY <1>1, <1>2, <1>3, <1>4, <1>5 DEF Next

(* The browser, the network and the server agree in every state of every   *)
(* run, for any number of keys, entries and calls                          *)
(* (executeIdempotentLedgerCreate with beginCreate and retryPendingCreate).*)
THEOREM CreateInvariant == Spec => []CreateInv
  BY Start, StepKeeps, PTL DEF Spec

(* A key travels with one payload, and no request of this browser is       *)
(* answered with an idempotency conflict.                                  *)
THEOREM NoConflict == Spec => []NeverConflicts
  <1>1. CreateInv => NeverConflicts
    BY DEF CreateInv
  <1> QED BY <1>1, CreateInvariant, PTL

(* With nothing to blame, an entry that may stand and that the user was    *)
(* not told of is still in sessionStorage (writeLedgerPendingCreate).      *)
THEOREM IntentIsKept == Spec => []IntentSurvives
  <1>1. CreateInv => IntentSurvives
    BY DEF CreateInv
  <1> QED BY <1>1, CreateInvariant, PTL

(* Two records of one wish belong to two calls, rivals that both stand.    *)
LEMMA RecordsAreRivals == CreateInv => DoubleEntryHasCause
  <1> SUFFICES ASSUME CreateInv, blame = {}, NEW w \in Wishes, NEW j \in Keys, NEW k \in Keys,
                      j # k, record[j] # None, record[k] # None,
                      record[j].wish = w, record[k].wish = w
               PROVE  FALSE
    BY DEF DoubleEntryHasCause, DoubleEntry
  <1> DEFINE c == record[j].row  d == record[k].row
  <1>1. c \in Calls /\ d \in Calls
    BY DEF CreateInv, TypeOK, Records
  <1>2. made[c] = [key |-> j, wish |-> w] /\ made[d] = [key |-> k, wish |-> w]
    BY DEF CreateInv, RecordIsOfCall
  <1>3. made[c] # None /\ made[d] # None
    BY <1>2 DEF Intents
  <1>4. Rivals(made[c], made[d]) /\ KeyOf(c) = j /\ KeyOf(d) = k
    BY <1>2, <1>3 DEF Rivals, KeyOf
  <1>5. MayStand(j) /\ MayStand(k)
    BY DEF MayStand
  <1> QED BY <1>1, <1>4, <1>5 DEF CreateInv, OneStands

(* Nothing is entered twice unless storage was spoiled, a repeated call    *)
(* was refused or a late answer closed another intent.                     *)
THEOREM DoubleEntryIsExplained == Spec => []DoubleEntryHasCause
  BY RecordsAreRivals, CreateInvariant, PTL

-----------------------------------------------------------------------------
(* The refinement.  entered is the row of the record.                      *)
Entered == [k \in Keys |-> IF record[k] = None THEN None ELSE record[k].row]

(* The initial states are initial states of the promise.                   *)
LEMMA StartsEmpty == Init => Promise!Init
  BY DEF Init, Promise!Init

(* A commit enters, a deletion deletes, the rest stutters.                 *)
LEMMA ServerPromises == ASSUME CreateInv, Server PROVE [Promise!Next]_Promise!vars
  <1>1. ASSUME NEW c \in Calls, Replay(c) \/ Open(c) \/ Refuse(c)
        PROVE  UNCHANGED Promise!vars
    BY <1>1 DEF Replay, Open, Refuse, history, Promise!vars
  <1>2. CASE Mutate \/ Abort \/ Crash
    BY <1>2 DEF Mutate, Abort, Crash, history, Promise!vars
  <1>3. CASE Commit
    <2>c. PICK c \in Calls : c = tx.call /\ c \in requests /\ record[KeyOf(c)] = None
      BY <1>3 DEF CreateInv, TypeOK, TxIsCurrent, Commit, Transactions
    <2>k. PICK k \in Keys : k = KeyOf(c)
      BY <2>c DEF CreateInv, TypeOK, KeyOf, Intents, Calls
    <2>1. record[k] = None /\ made[c].wish \in Wishes
      BY <2>c, <2>k DEF CreateInv, TypeOK, Intents, Calls
    <2>2. /\ record' = [record EXCEPT ![k] = [wish |-> made[c].wish, row |-> c]]
          /\ rows' = rows \cup {c} /\ told' = told
      BY <1>3, <2>c, <2>k DEF Commit, history
    <2>3. [wish |-> made[c].wish, row |-> c] # None
      BY <2>1 DEF Records
    <2>4. Entered' = [Entered EXCEPT ![k] = c]
      <3>1. \A j \in Keys : Entered'[j] = IF j = k THEN c ELSE Entered[j]
        BY <2>1, <2>2, <2>3 DEF Entered, CreateInv, TypeOK
      <3> QED BY <2>1, <3>1 DEF Entered
    <2>5. Entered[k] = None /\ \A j \in Keys : Entered[j] # c
      BY <2>1, <2>c DEF Entered, CreateInv, RecordIsOfCall
    <2>6. Promise!Enter(k, c)
      BY <2>2, <2>4, <2>5 DEF Entered, Promise!Enter
    <2> QED BY <2>6 DEF Promise!Next
  <1>4. ASSUME NEW r \in Calls, DeleteRow(r)
        PROVE  Promise!Delete(r)
    BY <1>4 DEF DeleteRow, history, Promise!Delete
  <1> QED BY <1>1, <1>2, <1>3, <1>4 DEF Server, Promise!Next

(* A success confirms what was entered.                                    *)
LEMMA FinishPromises == ASSUME CreateInv, Finish PROVE [Promise!Next]_Promise!vars
  <1>1. ASSUME NEW c \in Calls, Succeed(c)
        PROVE  Promise!Next
    <2>1. /\ KeyOf(c) \in Keys /\ record[KeyOf(c)] # None
          /\ record[KeyOf(c)].row = answers[c].row /\ answers[c].row \in Calls
      BY <1>1 DEF Succeed, CreateInv, TypeOK, AnswerIsRecord, Records, Intents, KeyOf
    <2>2. told' = [told EXCEPT ![KeyOf(c)] = Entered[KeyOf(c)]] /\ Entered[KeyOf(c)] # None
      BY <1>1, <2>1 DEF Succeed, Entered
    <2>3. Promise!Confirm(KeyOf(c))
      BY <1>1, <2>2 DEF Succeed, server, Entered, Promise!Confirm
    <2> QED BY <2>1, <2>3 DEF Promise!Next
  <1>2. ASSUME NEW c \in Calls, Fail(c) \/ LoseTrack(c)
        PROVE  UNCHANGED Promise!vars
    BY <1>2 DEF Fail, LoseTrack, server, history, Promise!vars
  <1> QED BY <1>1, <1>2 DEF Finish

(* Every step is a step of the promise or a stutter.                       *)
LEMMA StepPromises == CreateInv /\ [Next]_vars => [Promise!Next]_Promise!vars
  <1> SUFFICES ASSUME CreateInv, [Next]_vars PROVE [Promise!Next]_Promise!vars
    OBVIOUS
  <1>1. CASE Server BY <1>1, ServerPromises
  <1>2. CASE Finish BY <1>2, FinishPromises
  <1>3. CASE \E w \in Wishes : BeginCreate(w)
    BY <1>3 DEF BeginCreate, Promise!vars
  <1>4. CASE Retry
    BY <1>4 DEF Retry, Promise!vars
  <1>5. CASE Bootstrap \/ Reload
    BY <1>5 DEF Bootstrap, Reload, ReadBack, server, history, Promise!vars
  <1>6. CASE Spoil
    BY <1>6 DEF Spoil, server, Promise!vars
  <1>7. CASE UNCHANGED vars
    BY <1>7 DEF vars, server, history, Promise!vars
  <1> QED BY <1>1, <1>2, <1>3, <1>4, <1>5, <1>6, <1>7 DEF Next

(* The browser, the network and the server together implement ExactlyOnce: *)
(* every step is one of Enter, Delete and Confirm, or changes nothing the  *)
(* promise speaks of (executeIdempotentLedgerCreate).                      *)
THEOREM ImplementsExactlyOnce == Spec => ExactlyOncePerKey
  BY StartsEmpty, StepPromises, CreateInvariant, PTL DEF Spec, ExactlyOncePerKey, Promise!Spec
=============================================================================
