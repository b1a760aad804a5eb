---------------------------- MODULE LedgerCreate -----------------------------
(***************************************************************************)
(* Creating a ledger entry: the browser's pending create                   *)
(* (src/features/ledger/ledgerStore.ts and recovery.ts), the network, and  *)
(* executeIdempotentLedgerCreate on the server                             *)
(* (server/ledger/idempotency.ts) with its transaction.                    *)
(*                                                                         *)
(* The user has wishes (entries to make).  A submission takes a fresh key, *)
(* keeps the intent (key and payload) in sessionStorage and sends it; when *)
(* the outcome is unknown the intent stays and is sent again under the     *)
(* same key.  A request may be executed at any time after it was sent, or  *)
(* never; a call of the browser may fail at any time; the page may be      *)
(* reloaded; the server may die in a transaction.                          *)
(*                                                                         *)
(* A call is numbered, and so is the row its transaction would create.     *)
(***************************************************************************)
EXTENDS Integers

CONSTANTS
  Keys,      \* the keys crypto.randomUUID may give
  Wishes,    \* the entries the user wants to make (their payloads)
  None,      \* no record, no intent, no transaction, no answer
  Garbage,   \* an item in sessionStorage that is no intent
  MaxCalls   \* bound: calls of the browser

Calls == 1 .. MaxCalls
Intents == [key : Keys, wish : Wishes]
Records == [wish : Wishes, row : Calls]
Transactions == [call : Calls, step : {"mutate", "record"}]
Done(row) == [result |-> "done", row |-> row]
Refused == [result |-> "refused", row |-> None]
Conflict == [result |-> "conflict", row |-> None]
Answers == {Done(c) : c \in Calls} \cup {Refused, Conflict}

ASSUME LedgerCreateAssumption ==
  /\ MaxCalls \in Nat
  /\ None \notin Calls \cup Intents \cup Records \cup Transactions \cup Answers
  /\ Garbage # None /\ Garbage \notin Intents

VARIABLES
  record,     \* ledger_idempotency: the wish and the row stored for a key
  rows,       \* the ledger's rows
  tx,         \* the open transaction: its call and how far it is
  requests,   \* calls whose request was not yet handled
  answers,    \* answers[c]: what the server answered to call c
  storage,    \* the intent in sessionStorage
  pending,    \* state.pendingCreate
  recovery,   \* state.recoveryState
  submitting, \* state.mutationState = 'SUBMITTING'
  open,       \* calls the page still waits for
  made,       \* history: made[c] is the intent call c sent
  count,      \* history: calls so far
  told,       \* history: told[k] is the row a confirmation of k named
  blame       \* history: how the browser lost track of an intent

server == <<record, rows, tx, requests, answers>>
client == <<storage, pending, recovery, submitting, open>>
history == <<made, count, told, blame>>
vars == <<server, client, history>>

Init ==
  /\ record = [k \in Keys |-> None] /\ rows = {} /\ tx = None
  /\ requests = {} /\ answers = [c \in Calls |-> None]
  /\ storage = None /\ pending = None /\ recovery = "NONE"
  /\ submitting = FALSE /\ open = {}
  /\ made = [c \in Calls |-> None] /\ count = 0
  /\ told = [k \in Keys |-> None] /\ blame = {}

-----------------------------------------------------------------------------
(* The server.  better-sqlite3 is synchronous: one transaction at a time,  *)
(* and nothing of it is seen before the commit.                            *)

KeyOf(c) == made[c].key

Answer(c, a) == requests' = requests \ {c} /\ answers' = [answers EXCEPT ![c] = a]

(* The transaction looks the key up.  The record answers for the mutation. *)
Replay(c) ==
  /\ tx = None /\ c \in requests
  /\ record[KeyOf(c)] # None
  /\ Answer(c, IF record[KeyOf(c)].wish = made[c].wish
                 THEN Done(record[KeyOf(c)].row) ELSE Conflict)
  /\ UNCHANGED <<record, rows, tx, client, history>>

Open(c) ==
  /\ tx = None /\ c \in requests
  /\ record[KeyOf(c)] = None
  /\ tx' = [call |-> c, step |-> "mutate"]
  /\ UNCHANGED <<record, rows, requests, answers, client, history>>

(* The mutation would commit in a transaction of its own.                  *)
MutateAlone ==
  /\ tx # None /\ tx.step = "mutate"
  /\ tx' = [tx EXCEPT !.step = "record"]
  /\ rows' = rows \cup {tx.call}
  /\ UNCHANGED <<record, requests, answers, client, history>>

Mutate ==
  /\ tx # None /\ tx.step = "mutate"
  /\ tx' = [tx EXCEPT !.step = "record"]
  /\ UNCHANGED <<record, rows, requests, answers, client, history>>

(* insertIdempotencyRecord, then the commit of both.                       *)
Commit ==
  /\ tx # None /\ tx.step = "record"
  /\ LET c == tx.call
     IN  /\ rows' = rows \cup {c}
         /\ record' = [record EXCEPT ![KeyOf(c)] = [wish |-> made[c].wish, row |-> c]]
         /\ Answer(c, Done(c))
  /\ tx' = None
  /\ UNCHANGED <<client, history>>

(* The mutation or the insert throws: the transaction is rolled back.      *)
Abort ==
  /\ tx # None
  /\ Answer(tx.call, Refused)
  /\ tx' = None
  /\ UNCHANGED <<record, rows, client, history>>

(* Refused before the lookup: no session (401), SQLITE_BUSY (503).         *)
Refuse(c) ==
  /\ tx = None /\ c \in requests
  /\ Answer(c, Refused)
  /\ UNCHANGED <<record, rows, tx, client, history>>

(* The process dies in the transaction: SQLite rolls it back.              *)
Crash ==
  /\ tx # None
  /\ requests' = requests \ {tx.call}
  /\ tx' = None
  /\ UNCHANGED <<record, rows, answers, client, history>>

(* The entry is deleted later; its replay record is not.                   *)
DeleteRow(r) ==
  /\ tx = None /\ r \in rows
  /\ rows' = rows \ {r}
  /\ UNCHANGED <<record, tx, requests, answers, client, history>>

Server ==
  \/ \E c \in Calls : Replay(c) \/ Open(c) \/ Refuse(c)
  \/ Mutate \/ Commit \/ Abort \/ Crash
  \/ \E r \in Calls : DeleteRow(r)

-----------------------------------------------------------------------------
(* The browser.                                                            *)

Send(intent) ==
  /\ count < MaxCalls
  /\ count' = count + 1
  /\ made' = [made EXCEPT ![count'] = intent]
  /\ requests' = requests \cup {count'}
  /\ open' = open \cup {count'}

Unused(k) == \A c \in Calls : made[c] # None => KeyOf(c) # k
Confirmed(w) == \E c \in Calls : made[c] # None /\ made[c].wish = w /\ told[KeyOf(c)] # None

(* beginCreate.  The user does not submit what was confirmed.              *)
BeginCreate(w) ==
  /\ recovery # "BLOCKED" /\ pending = None
  /\ ~Confirmed(w)
  /\ \E k \in Keys :
       LET intent == [key |-> k, wish |-> w]
       IN  /\ Unused(k)
           /\ storage' = intent /\ pending' = intent
           /\ Send(intent)
  /\ recovery' = "PENDING" /\ submitting' = TRUE
  /\ UNCHANGED <<record, rows, tx, answers, told, blame>>

(* retryPendingCreate, offered while nothing is being submitted.           *)
Retry ==
  /\ pending # None /\ ~submitting
  /\ Send(pending)
  /\ submitting' = TRUE
  /\ UNCHANGED <<record, rows, tx, answers, storage, pending, recovery, told, blame>>

Forget ==
  /\ storage' = None /\ pending' = None /\ recovery' = "NONE" /\ submitting' = FALSE

(* An answer closes the intent: success, or a definite failure.  The       *)
(* handler does not compare its own intent with the pending one.           *)
Succeed(c) ==
  /\ c \in open /\ answers[c] # None /\ answers[c].result = "done"
  /\ told' = [told EXCEPT ![KeyOf(c)] = answers[c].row]
  /\ blame' = blame \cup IF pending \in {None, made[c]} THEN {} ELSE {"crossed"}
  /\ Forget /\ open' = open \ {c}
  /\ UNCHANGED <<server, made, count>>

Fail(c) ==
  /\ c \in open /\ answers[c] # None /\ answers[c].result # "done"
  /\ blame' = blame
       \cup (IF pending \in {None, made[c]} THEN {} ELSE {"crossed"})
       \cup (IF \E d \in Calls \ {c} : made[d] = made[c] THEN {"refused"} ELSE {})
  /\ Forget /\ open' = open \ {c}
  /\ UNCHANGED <<server, made, count, told>>

(* shouldKeepPendingCreate: no answer, or one that cannot be read.         *)
LoseTrack(c) ==
  /\ c \in open
  /\ open' = open \ {c} /\ submitting' = FALSE
  /\ UNCHANGED <<server, storage, pending, recovery, history>>

(* The page would start without looking at sessionStorage.                 *)
ReadNothingBack(p) ==
  /\ submitting' = FALSE /\ pending' = p
  /\ recovery' = IF p = None THEN "NONE" ELSE "PENDING"
  /\ UNCHANGED <<server, storage, history>>

(* applyRecoveryReadResult(readLedgerPendingCreate()) on a page that has   *)
(* the intent p in memory.                                                 *)
ReadBack(p) ==
  /\ submitting' = FALSE
  /\ CASE storage \in Intents -> pending' = storage /\ recovery' = "PENDING"
       [] storage = Garbage -> pending' = None /\ recovery' = "BLOCKED"
       [] storage = None /\ p # None -> pending' = p /\ recovery' = "BLOCKED"
       [] OTHER -> pending' = None /\ recovery' = "NONE"
  /\ UNCHANGED <<server, storage, history>>

(* Every ledger view calls bootstrap when it is mounted, also while a call *)
(* is open.                                                                *)
Bootstrap == ReadBack(pending) /\ UNCHANGED open

Reload == ReadBack(None) /\ open' = {}

(* Somebody else clears or overwrites the item in sessionStorage.          *)
Spoil ==
  /\ storage \in Intents
  /\ storage' \in {None, Garbage}
  /\ blame' = blame \cup {"spoiled"}
  /\ UNCHANGED <<server, pending, recovery, submitting, open, made, count, told>>

Finish == \E c \in Calls : Succeed(c) \/ Fail(c) \/ LoseTrack(c)

Next ==
  \/ Server \/ Finish
  \/ \E w \in Wishes : BeginCreate(w)
  \/ Retry \/ Bootstrap \/ Reload \/ Spoil

Spec == Init /\ [][Next]_vars

-----------------------------------------------------------------------------
(* Properties.                                                             *)

(* Every variable holds a value of its kind.                               *)
TypeOK ==
  /\ record \in [Keys -> Records \cup {None}]
  /\ rows \subseteq Calls
  /\ tx \in Transactions \cup {None}
  /\ requests \subseteq 1 .. count /\ answers \in [Calls -> Answers \cup {None}]
  /\ storage \in Intents \cup {None, Garbage} /\ pending \in Intents \cup {None}
  /\ recovery \in {"NONE", "PENDING", "BLOCKED"} /\ submitting \in BOOLEAN
  /\ open \subseteq 1 .. count /\ count \in 0 .. MaxCalls
  /\ made \in [Calls -> Intents \cup {None}]
  /\ \A c \in Calls : made[c] # None <=> c <= count
  /\ told \in [Keys -> Calls \cup {None}]
  /\ blame \subseteq {"refused", "crossed", "spoiled"}

(* The browser and the server together implement ExactlyOnce: under a key  *)
(* at most one row is entered, it is not entered again after it was        *)
(* deleted, and all confirmations name it, through lost, late and repeated *)
(* calls, rollbacks and deaths (executeIdempotentLedgerCreate).            *)
Promise == INSTANCE ExactlyOnce WITH
  Rows <- Calls, live <- rows,
  entered <- [k \in Keys |-> IF record[k] = None THEN None ELSE record[k].row]

ExactlyOncePerKey == Promise!Spec

(* A key always travels with one payload: retries and reloads send the     *)
(* stored intent, so that no answer is ever an idempotency conflict.       *)
NeverConflicts ==
  /\ \A c, d \in Calls : made[c] # None /\ made[d] # None /\ KeyOf(c) = KeyOf(d)
       => made[c] = made[d]
  /\ \A c \in Calls : answers[c] # Conflict

(* The key could still be found executed: a request of it is on the way or *)
(* was committed.                                                          *)
MayStand(k) == record[k] # None \/ \E c \in requests : KeyOf(c) = k

(* As long as nobody spoiled the storage, no repeated call was refused and *)
(* no late answer closed another intent: an entry that may stand and that  *)
(* the user was not told of is in sessionStorage, whatever page is open or *)
(* was reloaded (writeLedgerPendingCreate before the request is sent).     *)
IntentSurvives ==
  blame = {} =>
    \A c \in Calls : made[c] # None /\ told[KeyOf(c)] = None /\ MayStand(KeyOf(c))
      => storage = made[c]

DoubleEntry(w) ==
  \E j, k \in Keys : /\ j # k /\ record[j] # None /\ record[k] # None
                     /\ record[j].wish = w /\ record[k].wish = w

(* Those are the only ways to enter something twice.                       *)
DoubleEntryHasCause == blame = {} => \A w \in Wishes : ~DoubleEntry(w)

(* The inductive invariant.  A transaction is for a request whose key has  *)
(* no record; a record is of the call that committed it, and an answer is  *)
(* what the record says; an intent in storage or memory was sent.          *)
TxIsCurrent == tx # None => tx.call \in requests /\ record[KeyOf(tx.call)] = None

RecordIsOfCall ==
  \A k \in Keys : record[k] # None =>
    LET r == record[k].row
    IN  /\ made[r] = [key |-> k, wish |-> record[k].wish]
        /\ r \notin requests /\ answers[r] = Done(r)

AnswerIsRecord ==
  \A c \in Calls : answers[c] # None =>
    /\ made[c] # None /\ c \notin requests
    /\ answers[c].result = "done" =>
         record[KeyOf(c)] # None /\ record[KeyOf(c)].row = answers[c].row

IntentsWereSent ==
  /\ storage \in Intents => \E c \in Calls : made[c] = storage
  /\ pending # None => \E c \in Calls : made[c] = pending

(* While there is nothing to blame, memory and storage agree, and of two   *)
(* keys of one wish at most one may stand, the pending one if any.         *)
MemoryIsStorage == blame = {} => storage = pending

Rivals(a, b) == a # None /\ b # None /\ a.wish = b.wish /\ a.key # b.key

OneStands ==
  blame = {} =>
    /\ \A c, d \in Calls : Rivals(made[c], made[d]) /\ MayStand(KeyOf(c)) => ~MayStand(KeyOf(d))
    /\ \A d \in Calls : Rivals(pending, made[d]) => ~MayStand(KeyOf(d))

(* All of it: the state of the browser, the network and the server agree.  *)
CreateInv ==
  /\ TypeOK /\ TxIsCurrent /\ RecordIsOfCall /\ AnswerIsRecord /\ NeverConflicts
  /\ IntentsWereSent /\ MemoryIsStorage /\ IntentSurvives /\ OneStands

(* The user interface plan: a new payload and key are only allowed once    *)
(* the original intent is known to have succeeded or not to have been      *)
(* created.  So without a spoiled storage nothing is entered twice.        *)
NothingEnteredTwice == "spoiled" \notin blame => \A w \in Wishes : ~DoubleEntry(w)
=============================================================================
