---------------------------- MODULE LedgerService ----------------------------
(***************************************************************************)
(* The operations of the ledger (server/ledger/service.ts) on its tables.  *)
(* Each one is a SQLite transaction (runLedgerWrite), so each is one step; *)
(* an operation that throws changes nothing and is no step.                *)
(*                                                                         *)
(* Left out: names, notes, places and icons; row versions (a request of a  *)
(* stale version is refused, so what changes a row was made for the row as *)
(* it is); checked arithmetic beyond Number.MAX_SAFE_INTEGER.  A field     *)
(* that a patch does not give and one that it gives unchanged differ only  *)
(* for the amount, the fee and the fee mode of a transfer, where Keep is a *)
(* field that is not given.                                                *)
(***************************************************************************)
EXTENDS Integers, Sequences, FiniteSetsExt

CONSTANTS
  Accounts,    \* ids of accounts
  Own,         \* ids of categories the user made
  Bases,       \* a base currency with a time zone
  Days,        \* dates of transactions
  Picks,       \* the categories the user picks from
  Amounts,     \* amounts the user may ask for
  Fees,        \* fees the user may ask for, 0 is no fee
  Openings,    \* opening positions of accounts: [balance, day]
  Targets,     \* balances the user may adjust an account to
  None, Keep,  \* nothing; not in the patch
  MaxRows      \* bound: rows of ledger_transactions

Natures == {"asset", "liability"}
CategoryKinds == {"income", "expense"}
TransferKinds == {"general", "repayment", "withdrawal"}
Modes == {"extra", "deducted"}

(* The default categories: system ones for companions, and one to earn.    *)
Defaults == [salary |-> "income", interest |-> "expense", fee |-> "expense"]
AllCategories == Own \cup DOMAIN Defaults

SettingsRecords == [base : Bases, locked : BOOLEAN]
AccountRecords == [nature : Natures, opening : Openings, base : Bases, archived : BOOLEAN]
CategoryRecords == [kind : CategoryKinds, archived : BOOLEAN]

(* Ids the user makes are new ones; None is no id, row number or record.   *)
ASSUME LedgerAssumption ==
  /\ Days \subseteq Nat /\ Amounts \subseteq Nat \ {0} /\ Fees \subseteq Nat
  /\ Openings \subseteq [balance : Int, day : Nat] /\ Targets \subseteq Int /\ MaxRows \in Nat
  /\ IsFiniteSet(Accounts)
  /\ Own \cap DOMAIN Defaults = {} /\ Picks \subseteq AllCategories
  /\ None \notin Accounts \cup AllCategories \cup Nat
  /\ None \notin SettingsRecords \cup AccountRecords \cup CategoryRecords
  /\ Keep \notin Amounts \cup Fees

VARIABLES
  settings,    \* ledger_settings: [base, locked], or None
  accounts,    \* ledger_accounts: [nature, opening, base, archived]
  categories,  \* the user's rows of ledger_categories: [kind, archived]
  rows,        \* ledger_transactions, in the order they were inserted
  excluded,    \* rows excluded from statistics
  asked        \* history: asked[i] is the amount last asked for in row i

vars == <<settings, accounts, categories, rows, excluded, asked>>
tables == <<settings, accounts, categories>>

Init ==
  /\ settings = None
  /\ accounts = [a \in Accounts |-> None]
  /\ categories = [c \in Own |-> None]
  /\ rows = <<>> /\ excluded = {} /\ asked = <<>>

-----------------------------------------------------------------------------
(* Reading the tables.                                                     *)

Touched(t) == {t.from, t.to} \ {None}
HasAccountHistory(a) == \E i \in DOMAIN rows : a \in Touched(rows[i])
HasCategoryHistory(c) == \E i \in DOMAIN rows : rows[i].category = c

Active(a) == accounts[a] # None /\ ~accounts[a].archived

CategoryKind(c) == IF c \in Own THEN categories[c].kind ELSE Defaults[c]
Candidate(c, type) ==
  /\ c \in Own => categories[c] # None /\ ~categories[c].archived
  /\ CategoryKind(c) = type

(* A sign for assets only: a debt would shrink when it is spent from.      *)
SignedAsAsset(nature, role, amount) ==
  IF role \in {"income", "incoming"} THEN amount ELSE -amount

(* signedAmountForRole: what a role adds to the natural balance.           *)
Signed(nature, role, amount) ==
  IF (nature = "asset") = (role \in {"income", "incoming"}) THEN amount ELSE -amount

EffectOn(t, a) ==
  LET nature == accounts[a].nature
  IN  IF t.deleted \/ a \notin Touched(t) THEN 0
      ELSE CASE t.type \in CategoryKinds -> Signed(nature, t.type, t.amount)
             [] t.type = "transfer" ->
                  Signed(nature, IF t.from = a THEN "outgoing" ELSE "incoming", t.amount)
             [] t.type = "adjustment" -> t.amount

(* deriveCurrentBalance *)
Effects(a) == [i \in DOMAIN rows |-> EffectOn(rows[i], a)]
Balance(a) == accounts[a].opening.balance + SumFunction(Effects(a))

Contributes(t) == t.type \in CategoryKinds \/ t.kind = "repayment"

NotBefore(day, as) == \A a \in as : accounts[a].opening.day <= day

KindFits(kind, from, to) ==
  LET natures == <<accounts[from].nature, accounts[to].nature>>
  IN  CASE kind = "general" -> TRUE
        [] kind = "repayment" -> natures = <<"asset", "liability">>
        [] kind = "withdrawal" -> natures = <<"asset", "asset">>

-----------------------------------------------------------------------------
(* Settings and accounts.                                                  *)

CreateSettings(b) ==
  /\ settings = None
  /\ settings' = [base |-> b, locked |-> FALSE]
  /\ UNCHANGED <<accounts, categories, rows, excluded, asked>>

PatchSettings(b) ==
  /\ settings # None
  /\ settings.locked => b = settings.base
  /\ settings' = [settings EXCEPT !.base = b]
  /\ UNCHANGED <<accounts, categories, rows, excluded, asked>>

CreateAccount(a, nature, opening) ==
  /\ settings # None /\ accounts[a] = None
  /\ accounts' = [accounts EXCEPT ![a] =
       [nature |-> nature, opening |-> opening, base |-> settings.base, archived |-> FALSE]]
  /\ settings' = [settings EXCEPT !.locked = TRUE]
  /\ UNCHANGED <<categories, rows, excluded, asked>>

(* Only the rows that are not deleted would count as history.              *)
PatchAccountOfDeletedRows(a, nature, opening) ==
  /\ Active(a)
  /\ \A i \in DOMAIN rows : a \in Touched(rows[i]) => rows[i].deleted
  /\ accounts' = [accounts EXCEPT ![a].nature = nature, ![a].opening = opening]
  /\ UNCHANGED <<settings, categories, rows, excluded, asked>>

(* The financial fields: never of an archived account, nor with history.   *)
PatchAccount(a, nature, opening) ==
  /\ Active(a) /\ ~HasAccountHistory(a)
  /\ accounts' = [accounts EXCEPT ![a].nature = nature, ![a].opening = opening]
  /\ UNCHANGED <<settings, categories, rows, excluded, asked>>

DeleteAccount(a) ==
  /\ accounts[a] # None /\ ~HasAccountHistory(a)
  /\ accounts' = [accounts EXCEPT ![a] = None]
  /\ UNCHANGED <<settings, categories, rows, excluded, asked>>

ArchiveAccount(a) ==
  /\ Active(a) /\ Balance(a) = 0
  /\ accounts' = [accounts EXCEPT ![a].archived = TRUE]
  /\ UNCHANGED <<settings, categories, rows, excluded, asked>>

RestoreAccount(a) ==
  /\ accounts[a] # None /\ accounts[a].archived
  /\ accounts' = [accounts EXCEPT ![a].archived = FALSE]
  /\ UNCHANGED <<settings, categories, rows, excluded, asked>>

AccountOps ==
  \/ \E b \in Bases : CreateSettings(b) \/ PatchSettings(b)
  \/ \E a \in Accounts : DeleteAccount(a) \/ ArchiveAccount(a) \/ RestoreAccount(a)
  \/ \E a \in Accounts, n \in Natures, o \in Openings :
       CreateAccount(a, n, o) \/ PatchAccount(a, n, o)

-----------------------------------------------------------------------------
(* Categories.  Default ones are protected.                                *)

SetCategory(c, value) ==
  /\ categories' = [categories EXCEPT ![c] = value]
  /\ UNCHANGED <<settings, accounts, rows, excluded, asked>>

CreateCategory(c, kind) ==
  /\ settings # None /\ categories[c] = None
  /\ SetCategory(c, [kind |-> kind, archived |-> FALSE])

PatchCategory(c, kind) ==
  /\ categories[c] # None /\ ~categories[c].archived /\ ~HasCategoryHistory(c)
  /\ SetCategory(c, [categories[c] EXCEPT !.kind = kind])

ArchiveCategory(c) ==
  /\ categories[c] # None /\ ~categories[c].archived /\ ~HasCategoryHistory(c)
  /\ SetCategory(c, [categories[c] EXCEPT !.archived = TRUE])

RestoreCategory(c) ==
  /\ categories[c] # None /\ categories[c].archived
  /\ SetCategory(c, [categories[c] EXCEPT !.archived = FALSE])

DeleteCategory(c) ==
  /\ categories[c] # None /\ ~HasCategoryHistory(c)
  /\ SetCategory(c, None)

CategoryOps ==
  \E c \in Own :
    \/ ArchiveCategory(c) \/ RestoreCategory(c) \/ DeleteCategory(c)
    \/ \E k \in CategoryKinds : CreateCategory(c, k) \/ PatchCategory(c, k)

-----------------------------------------------------------------------------
(* Transactions.  A group id is made together with its companion expense;  *)
(* the model names the group after the companion's row.                    *)

Entry(type, a, c, amount, day) ==
  [type |-> type, kind |-> None, group |-> None, mode |-> None, amount |-> amount,
   from |-> a, to |-> None, category |-> c, day |-> day, deleted |-> FALSE]

Transfer(kind, group, mode, amount, from, to, day) ==
  [type |-> "transfer", kind |-> kind, group |-> group, mode |-> mode, amount |-> amount,
   from |-> from, to |-> to, category |-> None, day |-> day, deleted |-> FALSE]

CompanionOf(t, i, fee) ==
  [Entry("expense", t.from, IF t.kind = "repayment" THEN "interest" ELSE "fee", fee, t.day)
     EXCEPT !.group = i]

Insert(ts, amount) ==
  /\ Len(rows) + Len(ts) <= MaxRows
  /\ rows' = rows \o ts
  /\ asked' = asked \o [i \in DOMAIN ts |-> IF i = 1 THEN amount ELSE ts[i].amount]

(* Income and expense.                                                     *)
CreateEntry(type, a, c, amount, day) ==
  /\ Active(a) /\ Candidate(c, type) /\ NotBefore(day, {a})
  /\ Insert(<<Entry(type, a, c, amount, day)>>, amount)
  /\ UNCHANGED <<tables, excluded>>

(* The mode that is stored, and the amount that arrives.                   *)
FeeAllowed(kind, fee, mode) ==
  /\ fee = 0 => mode = Keep
  /\ fee > 0 => kind # "general"
  /\ fee > 0 /\ kind = "repayment" => mode = Keep

StoredMode(kind, fee, mode, before) ==
  IF fee = 0 \/ kind # "withdrawal" THEN None
  ELSE IF mode # Keep THEN mode
  ELSE IF before # None THEN before ELSE "extra"

Arriving(amount, fee, mode) == IF mode = "deducted" THEN amount - fee ELSE amount

CreateTransfer(from, to, kind, day) ==
  /\ from # to /\ Active(from) /\ Active(to)
  /\ KindFits(kind, from, to) /\ NotBefore(day, {from, to})
  /\ \E amount \in Amounts, fee \in Fees, mode \in Modes \cup {Keep} :
       LET stored == StoredMode(kind, fee, mode, None)
           t == Transfer(kind, IF fee > 0 THEN Len(rows) + 2 ELSE None, stored,
                         Arriving(amount, fee, stored), from, to, day)
       IN  /\ FeeAllowed(kind, fee, mode) /\ t.amount > 0
           /\ Insert(IF fee > 0 THEN <<t, CompanionOf(t, t.group, fee)>> ELSE <<t>>, amount)
  /\ UNCHANGED <<tables, excluded>>

(* An archived account would not stop a patch of its transactions.         *)
MayPatchArchived(i) ==
  /\ ~rows[i].deleted
  /\ ~(rows[i].type = "expense" /\ rows[i].group # None)

(* requireUserTransaction, neither deleted nor on an archived account.     *)
MayPatch(i) ==
  /\ ~rows[i].deleted
  /\ ~(rows[i].type = "expense" /\ rows[i].group # None)
  /\ \A a \in Touched(rows[i]) : Active(a)

PatchEntry(i, a, c, amount, day) ==
  /\ rows[i].type \in CategoryKinds /\ MayPatch(i)
  /\ Active(a) /\ NotBefore(day, {a})
  /\ IF c = rows[i].category THEN CategoryKind(c) = rows[i].type ELSE Candidate(c, rows[i].type)
  /\ rows' = [rows EXCEPT ![i].from = a, ![i].category = c, ![i].amount = amount, ![i].day = day]
  /\ asked' = [asked EXCEPT ![i] = amount]
  /\ UNCHANGED <<tables, excluded>>

GroupExpenses(i) ==
  {j \in DOMAIN rows : rows[i].group # None /\ rows[j].group = rows[i].group /\ rows[j].type = "expense"}

FeeOf(i) == IF rows[i].group = None THEN 0 ELSE rows[CHOOSE j \in GroupExpenses(i) : TRUE].amount

(* The stored amount would be taken for the amount that was asked for.     *)
AskedForStored(i) == rows[i].amount

(* The amount the transfer was asked for, when the patch gives none: a     *)
(* deducted fee is added again.                                            *)
AskedFor(i) == rows[i].amount + IF rows[i].mode = "deducted" THEN FeeOf(i) ELSE 0

(* A companion would keep the account it was entered on.                   *)
WithCompanionInPlace(i, t, fee) ==
  LET old == GroupExpenses(i)
      updated == [j \in DOMAIN rows |->
                    IF j = i THEN t
                    ELSE IF j \notin old THEN rows[j]
                    ELSE IF fee > 0 THEN [rows[j] EXCEPT !.amount = fee, !.day = t.day]
                    ELSE [rows[j] EXCEPT !.deleted = TRUE]]
  IN  IF fee > 0 /\ old = {} THEN Append(updated, CompanionOf(t, t.group, fee)) ELSE updated

(* The rows after transfer i became t: its companion is updated, inserted  *)
(* or deleted.                                                             *)
WithCompanion(i, t, fee) ==
  LET old == GroupExpenses(i)
      updated == [j \in DOMAIN rows |->
                    IF j = i THEN t
                    ELSE IF j \notin old THEN rows[j]
                    ELSE IF fee > 0 THEN CompanionOf(t, t.group, fee)
                    ELSE [rows[j] EXCEPT !.deleted = TRUE]]
  IN  IF fee > 0 /\ old = {} THEN Append(updated, CompanionOf(t, t.group, fee)) ELSE updated

(* Exactly one companion, and it is active; or the patch is refused.       *)
GroupIntact(i) ==
  rows[i].group # None =>
    \E j \in GroupExpenses(i) : GroupExpenses(i) = {j} /\ ~rows[j].deleted

(* restoreTransactionToStatistics *)
StillExcluded(i, kind) ==
  IF rows[i].kind = "repayment" /\ kind # "repayment" THEN excluded \ {i} ELSE excluded

PatchTo(i, kind, from, to, amount, givenFee, mode, day) ==
  LET old == rows[i]
      fee == IF givenFee = Keep THEN FeeOf(i) ELSE givenFee
      wanted == IF amount = Keep THEN AskedFor(i) ELSE amount
      stored == StoredMode(kind, fee, mode, old.mode)
      group == IF fee = 0 THEN None ELSE IF old.group # None THEN old.group ELSE Len(rows) + 1
      t == Transfer(kind, group, stored, Arriving(wanted, fee, stored), from, to, day)
  IN  /\ mode # Keep /\ givenFee = Keep => old.group # None
      /\ FeeAllowed(kind, fee, mode) /\ t.amount > 0
      /\ rows' = WithCompanion(i, t, fee) /\ Len(rows') <= MaxRows
      /\ excluded' = StillExcluded(i, kind)
      /\ LET kept == IF amount = Keep THEN asked ELSE [asked EXCEPT ![i] = amount]
         IN  asked' = IF Len(rows') > Len(rows) THEN Append(kept, fee) ELSE kept
      /\ UNCHANGED tables

PatchTransfer(i) ==
  /\ rows[i].type = "transfer" /\ MayPatch(i) /\ GroupIntact(i)
  /\ \E from, to \in Accounts, kind \in TransferKinds, day \in Days :
       /\ from # to /\ Active(from) /\ Active(to)
       /\ KindFits(kind, from, to) /\ NotBefore(day, {from, to})
       /\ \E amount \in Amounts \cup {Keep}, fee \in Fees \cup {Keep}, mode \in Modes \cup {Keep} :
            PatchTo(i, kind, from, to, amount, fee, mode, day)

(* The transaction with its whole group.                                   *)
Group(i) ==
  {j \in DOMAIN rows : j = i \/ (rows[i].group # None /\ rows[j].group = rows[i].group)}

DeleteTransaction(i) ==
  /\ MayPatch(i)
  /\ \A j \in Group(i) : rows[j].deleted \/ \A a \in Touched(rows[j]) : Active(a)
  /\ rows' = [j \in DOMAIN rows |-> [rows[j] EXCEPT !.deleted = @ \/ j \in Group(i)]]
  /\ UNCHANGED <<tables, excluded, asked>>

(* adjustAccount: the client's calculated balance is the current one.      *)
AdjustAccount(a, target, day) ==
  /\ Active(a) /\ NotBefore(day, {a}) /\ target # Balance(a)
  /\ Insert(<<Entry("adjustment", a, None, target - Balance(a), day)>>, target)
  /\ UNCHANGED <<tables, excluded>>

Eligible(i) == ~rows[i].deleted /\ Contributes(rows[i])

ExcludeFromStatistics(i) ==
  /\ Eligible(i)
  /\ excluded' = excluded \cup {i}
  /\ UNCHANGED <<tables, rows, asked>>

RestoreToStatistics(i) ==
  /\ Eligible(i)
  /\ excluded' = excluded \ {i}
  /\ UNCHANGED <<tables, rows, asked>>

Create ==
  \E a \in Accounts, d \in Days :
    \/ \E m \in Amounts, type \in CategoryKinds, c \in Picks : CreateEntry(type, a, c, m, d)
    \/ \E b \in Accounts, k \in TransferKinds : CreateTransfer(a, b, k, d)
    \/ \E x \in Targets : AdjustAccount(a, x, d)

Change(i) ==
  \/ \E a \in Accounts, c \in Picks, m \in Amounts, d \in Days : PatchEntry(i, a, c, m, d)
  \/ PatchTransfer(i) \/ DeleteTransaction(i)
  \/ ExcludeFromStatistics(i) \/ RestoreToStatistics(i)

Next == AccountOps \/ CategoryOps \/ Create \/ \E i \in DOMAIN rows : Change(i)

Spec == Init /\ [][Next]_vars

-----------------------------------------------------------------------------
(* Properties.                                                             *)

Transactions ==
  [type : CategoryKinds \cup {"transfer", "adjustment"}, kind : TransferKinds \cup {None},
   group : (1 .. MaxRows) \cup {None}, mode : Modes \cup {None}, amount : Int,
   from : Accounts, to : Accounts \cup {None}, category : AllCategories \cup {None},
   day : Days, deleted : BOOLEAN]

(* Every variable holds a value of its kind; amounts are positive, and no  *)
(* adjustment is of nothing (assertAdjustmentEffect would fail on it).     *)
TypeOK ==
  /\ settings \in SettingsRecords \cup {None}
  /\ accounts \in [Accounts -> AccountRecords \cup {None}]
  /\ categories \in [Own -> CategoryRecords \cup {None}]
  /\ rows \in Seq(Transactions) /\ asked \in Seq(Int)
  /\ \A i \in DOMAIN rows :
       rows[i].amount # 0 /\ (rows[i].type # "adjustment" => rows[i].amount > 0)
  /\ Len(rows) <= MaxRows /\ excluded \subseteq DOMAIN rows /\ Len(asked) = Len(rows)

(* An archived account has a zero balance and keeps it: no entry, patch,   *)
(* companion or deletion reaches it (archivedAccount()).                   *)
ArchivedIsZero ==
  \A a \in Accounts : accounts[a] # None /\ accounts[a].archived => Balance(a) = 0

(* A transfer with a group has exactly one companion expense, on the       *)
(* account it comes from, of its day and of the category of its kind; an   *)
(* active companion has its transfer; both are deleted together.           *)
GroupComplete ==
  /\ \A i \in DOMAIN rows : rows[i].type = "transfer" /\ rows[i].group # None =>
       \E j \in GroupExpenses(i) :
         /\ GroupExpenses(i) = {j}
         /\ rows[j] = [CompanionOf(rows[i], rows[i].group, rows[j].amount)
                         EXCEPT !.deleted = rows[i].deleted]
  /\ \A j \in DOMAIN rows : rows[j].type = "expense" /\ rows[j].group # None /\ ~rows[j].deleted =>
       \E i \in DOMAIN rows : rows[i].type = "transfer" /\ rows[i].group = rows[j].group

(* What a row was checked against when it was entered stays true, also for *)
(* deleted rows: its accounts and category are there, it is not before     *)
(* their opening, the kinds and natures fit (hasAccountHistory and         *)
(* hasCategoryHistory guard every change of them).                         *)
RowHolds(t) ==
  /\ \A a \in Touched(t) : accounts[a] # None /\ accounts[a].opening.day <= t.day
  /\ t.type = "transfer" <=> t.to # None
  /\ t.type = "transfer" => t.from # t.to /\ KindFits(t.kind, t.from, t.to)
  /\ t.category # None => Candidate(t.category, t.type)

HistoryHolds == \A i \in DOMAIN rows : RowHolds(rows[i])

(* All accounts are kept in the base currency and were opened in the time  *)
(* zone of the settings, also when all earlier accounts were deleted       *)
(* (checkSettingsLock).                                                    *)
BaseIsFixed == \A a \in Accounts : accounts[a] # None => accounts[a].base = settings.base

(* The settings are locked as soon as there is an account.                 *)
LockedByAccount == \A a \in Accounts : accounts[a] # None => settings # None /\ settings.locked

(* Only what contributes to statistics is excluded from them: a transfer   *)
(* that stops being a repayment is included again.                         *)
ExcludedContributes == \A i \in excluded : Contributes(rows[i])

(* A group belongs to one companion, the row it is named after, and to one *)
(* transfer at a time; a companion is left alone by its transfer when the  *)
(* fee is patched away, and a later fee makes a new group.                 *)
GroupsAreOwn ==
  /\ \A j \in DOMAIN rows : rows[j].type # "transfer" /\ rows[j].group # None =>
       rows[j].type = "expense" /\ rows[j].group = j
  /\ \A i, k \in DOMAIN rows :
       /\ rows[i].type = "transfer" /\ rows[k].type = "transfer"
       /\ rows[i].group # None /\ rows[i].group = rows[k].group
       => i = k

(* What was checked when it was stored holds as long as it is stored, for  *)
(* rows, accounts and exclusions, whatever is patched and deleted later.   *)
LedgerInv ==
  /\ TypeOK /\ HistoryHolds /\ BaseIsFixed /\ LockedByAccount
  /\ ExcludedContributes /\ GroupsAreOwn

(* A transfer moves what was last asked for, less a deducted fee, however  *)
(* often its kind, mode and fee were patched since.                        *)
AskedIsMoved ==
  \A i \in DOMAIN rows : rows[i].type = "transfer" /\ ~rows[i].deleted =>
    Arriving(asked[i], FeeOf(i), rows[i].mode) = rows[i].amount

(* Net worth is what the accounts opened with, plus income, less expenses, *)
(* plus adjustments: transfers between accounts of any nature move nothing *)
(* in or out (signedAmountForRole).                                        *)
Worth(a, x) == IF accounts[a].nature = "asset" THEN x ELSE -x
Present == {a \in Accounts : accounts[a] # None}

FromOutside(t) ==
  IF t.deleted THEN 0
  ELSE CASE t.type = "income" -> t.amount
         [] t.type = "expense" -> -t.amount
         [] t.type = "adjustment" -> Worth(t.from, t.amount)
         [] t.type = "transfer" -> 0

NetWorthIsEarned ==
  SumFunction([a \in Present |-> Worth(a, Balance(a))])
    = SumFunction([a \in Present |-> Worth(a, accounts[a].opening.balance)])
      + SumFunction([i \in DOMAIN rows |-> FromOutside(rows[i])])
=============================================================================
