----------------------------- MODULE ReportCache -----------------------------
(***************************************************************************)
(* The cache of reports in one process (ReportCache), as the list of       *)
(* conversations uses it: a read that is under way is shared, a result is  *)
(* kept for a few seconds, and after every message that this process       *)
(* stores the whole cache is replaced.  One page of the list is modelled.  *)
(***************************************************************************)
EXTENDS Integers

CONSTANTS
    Readers,     \* requests for the list
    Writers,     \* requests that store a message
    Loads        \* reads of the database, a set of numbers

VARIABLES
    stored,      \* the messages in the database
    replaced,    \* messages that were stored, with the cache replaced since
    entry,       \* the load that the cache holds, 0 for none
    keeps,       \* the entry is kept: it is pending or young
    load,        \* load[l]: idle, running, read, done; and what it saw
    reader       \* reader[r]: the load r waits for, what r may rely on, and
                 \* what it was shown

cacheVars == <<stored, replaced, entry, keeps, load, reader>>

ASSUME CacheConstants == Loads \subseteq Nat \ {0}

Unread == [step |-> "idle", saw |-> {}]
Away == [on |-> 0, sure |-> {}, shown |-> {}]

CacheInit ==
    /\ stored = {} /\ replaced = {} /\ entry = 0 /\ keeps = FALSE
    /\ load = [l \in Loads |-> Unread]
    /\ reader = [r \in Readers |-> Away]

(* Every variable has its type: a load saw, and a reader relies on, what   *)
(* is stored (report-cache.ts:1-26).                                      *)
CacheTypeOK ==
    /\ load \in [Loads -> [step: {"idle", "running", "read", "done",
                                  "failed"}, saw: SUBSET stored]]
    /\ reader \in [Readers -> [on: {0} \cup Loads, sure: SUBSET stored,
                               shown: SUBSET SUBSET stored]]
    /\ replaced \subseteq stored /\ entry \in {0} \cup Loads

Same == UNCHANGED <<load, reader>>

(* createMessageOnce(), the write ...                                      *)
StoreMessage(w) ==
    /\ w \notin stored /\ stored' = stored \cup {w}
    /\ UNCHANGED <<replaced, entry, keeps>> /\ Same

(* Mutated: a read that is under way stays in the cache.                   *)
EmptiedOfResults == IF entry # 0 /\ load[entry].step = "done" THEN 0 ELSE entry

Emptied == 0

(* ... and invalidateConversations(), in its finally block.                *)
Invalidate(w) ==
    /\ w \in stored \ replaced
    /\ replaced' = replaced \cup {w} /\ entry' = Emptied
    /\ UNCHANGED <<stored, keeps>> /\ Same

(* get(): join the entry, or begin a load; refresh asks for a new one.     *)
AskForList(r) ==
    /\ reader[r] = Away
    /\ \/ /\ entry # 0 /\ keeps
          /\ reader' = [reader EXCEPT ![r].on = entry, ![r].sure = replaced]
          /\ UNCHANGED <<entry, keeps, load>>
       \/ \E l \in Loads :
             /\ load[l] = Unread
             /\ load' = [load EXCEPT ![l].step = "running"]
             /\ entry' = l /\ keeps' = TRUE
             /\ reader' = [reader EXCEPT ![r].on = l, ![r].sure = replaced]
    /\ UNCHANGED <<stored, replaced>>

(* The aggregation reads a snapshot.                                       *)
ReadList(l) ==
    /\ load[l].step = "running"
    /\ load' = [load EXCEPT ![l] = [step |-> "read", saw |-> stored]]
    /\ UNCHANGED <<stored, replaced, entry, keeps, reader>>

FinishLoad(l) ==
    /\ load[l].step = "read"
    /\ load' = [load EXCEPT ![l].step = "done"]
    /\ UNCHANGED <<stored, replaced, entry, keeps, reader>>

(* A load that fails leaves the cache, unless it was replaced before.      *)
FailLoad(l) ==
    /\ load[l].step = "running"
    /\ load' = [load EXCEPT ![l].step = "failed"]
    /\ entry' = IF entry = l THEN 0 ELSE entry
    /\ UNCHANGED <<stored, replaced, keeps, reader>>

(* The promise is settled for everybody who waits on it.                   *)
Show(r) ==
    /\ reader[r].on # 0 /\ reader[r].shown = {}
    /\ load[reader[r].on].step = "done"
    /\ reader' = [reader EXCEPT ![r].shown = {load[reader[r].on].saw}]
    /\ UNCHANGED <<stored, replaced, entry, keeps, load>>

(* The result grows old, or 32 other pages push it out.                    *)
Outlived ==
    /\ entry # 0
    /\ \/ load[entry].step = "done" /\ keeps /\ keeps' = FALSE
          /\ UNCHANGED entry
       \/ entry' = 0 /\ UNCHANGED keeps
    /\ UNCHANGED <<stored, replaced>> /\ Same

CacheNext ==
    \/ \E w \in Writers : StoreMessage(w) \/ Invalidate(w)
    \/ \E r \in Readers : AskForList(r) \/ Show(r)
    \/ \E l \in Loads : ReadList(l) \/ FinishLoad(l) \/ FailLoad(l)
    \/ Outlived

CacheSpec == CacheInit /\ [][CacheNext]_cacheVars

(* "Replacing the cache also keeps any older in-flight read from           *)
(* repopulating fresh entries" (messaging.service.ts:191): who asks for    *)
(* the list after this process answered for a message is shown it.         *)
ListShowsOwnWrites ==
    \A r \in Readers :
        \A seen \in reader[r].shown : reader[r].sure \subseteq seen
=============================================================================
