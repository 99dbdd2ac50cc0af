----------------------------- MODULE BankConfig -----------------------------
(***************************************************************************)
(* The bank accounts of the shop (setting bank.api_config): one document   *)
(* that holds all of them and the one in use.  A change reads it, computes *)
(* a new value and writes the whole of it back, under a lease of fifteen   *)
(* seconds in the database (runtime_leases).                               *)
(***************************************************************************)
EXTENDS Integers, FiniteSets

CONSTANTS
    Banks,      \* accounts that may be configured
    NoBank,     \* no account, no editor
    Edits,      \* changes that administrators make, each once
    MayOverrun  \* whether a change may take longer than its lease

VARIABLES
    accounts,   \* accounts[b]: absent, usable or archived
    inUse,      \* activeBankId as it is stored
    included,   \* the changes that the stored value builds on
    lease,      \* the change that holds the lease
    edit,       \* edit[e]: how far, and the value it read
    confirmed   \* changes an administrator got an answer for

bankVars == <<accounts, inUse, included, lease, edit, confirmed>>

ASSUME BankConstants ==
    NoBank \notin Banks \cup Edits /\ MayOverrun \in BOOLEAN

Value == [accounts: [Banks -> {"absent", "usable", "archived"}],
          inUse: Banks \cup {NoBank}, included: SUBSET Edits]
Stored == [accounts |-> accounts, inUse |-> inUse, included |-> included]
Empty == [accounts |-> [b \in Banks |-> "absent"], inUse |-> NoBank,
          included |-> {}]

BankTypeOK ==
    /\ Stored \in Value /\ lease \in Edits \cup {NoBank}
    /\ confirmed \subseteq Edits
    /\ edit \in [Edits -> [step: {"idle", "holds", "read", "wrote", "over"},
                           seen: Value]]

(* Nothing yet, or the account of the older releases or the environment.   *)
BankInit ==
    /\ \E B \in {{}} \cup {{b} : b \in Banks} :
          /\ accounts = [b \in Banks |->
                            IF b \in B THEN "usable" ELSE "absent"]
          /\ inUse = IF B = {} THEN NoBank ELSE CHOOSE b \in B : TRUE
    /\ included = {} /\ lease = NoBank /\ confirmed = {}
    /\ edit = [e \in Edits |-> [step |-> "idle", seen |-> Empty]]

UsableIn(v) == {b \in Banks : v.accounts[b] = "usable"}

(* storedBankCollection(): an active account that is not usable is         *)
(* replaced by one that is.                                                *)
ActiveIn(v) == IF v.inUse \in UsableIn(v) \/ UsableIn(v) = {} THEN v.inUse
               ELSE CHOOSE b \in UsableIn(v) : TRUE

Advances(e, step) == edit' = [edit EXCEPT ![e].step = step]
SameBanks == UNCHANGED <<accounts, inUse, included, confirmed>>

(* Mutated: the lease is not looked at.                                    *)
LeaseFreeAlways == TRUE

LeaseFree == lease = NoBank

(* withBankConfigUpdateLock().                                             *)
TakeBankLease(e) ==
    /\ edit[e].step = "idle" /\ LeaseFree
    /\ lease' = e /\ Advances(e, "holds")
    /\ SameBanks

ReadBanks(e) ==
    /\ edit[e].step = "holds"
    /\ edit' = [edit EXCEPT ![e] = [step |-> "read", seen |-> Stored]]
    /\ UNCHANGED lease /\ SameBanks

(* updateBankConfig(): also an archived account becomes usable again.      *)
SavedBank(v, b, activate) ==
    [v EXCEPT !.accounts[b] = "usable",
              !.inUse = IF activate \/ ActiveIn(v) = NoBank THEN b
                        ELSE ActiveIn(v)]

Archivable(v, b) == b \in UsableIn(v) /\ ActiveIn(v) # b

(* What the three operations make of the value they read.                  *)
BankSaved(v) == {SavedBank(v, b, a) : b \in Banks, a \in BOOLEAN}
BankActivated(v) == {[v EXCEPT !.inUse = b] : b \in UsableIn(v)}
BankArchived(v) ==
    {[v EXCEPT !.accounts[b] = "archived", !.inUse = ActiveIn(v)] :
        b \in {c \in Banks : Archivable(v, c)}}

Outcomes(v) == BankSaved(v) \cup BankActivated(v) \cup BankArchived(v)

WriteBanks(e) ==
    /\ edit[e].step = "read"
    /\ \E v \in Outcomes(edit[e].seen) :
          accounts' = v.accounts /\ inUse' = v.inUse
    /\ included' = edit[e].seen.included \cup {e}
    /\ Advances(e, "wrote")
    /\ UNCHANGED <<lease, confirmed>>

(* The lease is given back by whom it is of, and the answer is sent.       *)
ReturnBankLease(e) ==
    /\ edit[e].step = "wrote" /\ Advances(e, "over")
    /\ lease' = IF lease = e THEN NoBank ELSE lease
    /\ confirmed' = confirmed \cup {e}
    /\ UNCHANGED <<accounts, inUse, included>>

(* The change is refused or fails: the lease is given back.  Or the        *)
(* process dies: the lease runs out.                                       *)
EditFails(e) ==
    /\ edit[e].step \in {"holds", "read", "wrote"} /\ Advances(e, "over")
    /\ \/ UNCHANGED lease
       \/ lease' = IF lease = e THEN NoBank ELSE lease
    /\ SameBanks

BankLeaseEnds ==
    /\ lease # NoBank /\ (edit[lease].step = "over" \/ MayOverrun)
    /\ lease' = NoBank
    /\ UNCHANGED edit /\ SameBanks

BankNext == \/ BankLeaseEnds
            \/ \E e \in Edits : \/ TakeBankLease(e) \/ ReadBanks(e)
                                \/ WriteBanks(e) \/ ReturnBankLease(e)
                                \/ EditFails(e)

BankSpec == BankInit /\ [][BankNext]_bankVars

(* A change of the accounts that was confirmed is not undone by another    *)
(* one that read the value before: the stored value builds on all of them. *)
BankEditsAreKept == confirmed \subseteq included
=============================================================================
