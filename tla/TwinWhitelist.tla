--------------------------- MODULE TwinWhitelist ---------------------------
(***************************************************************************)
(* The digital-twin whitelist of internal/app, one row of tb_app_settings  *)
(* that does not exist until it is first saved.  Administrators load it,   *)
(* edit it and save it under the version they loaded; the version is a     *)
(* digest of the content, or a mark for the missing row.  A save is one    *)
(* transaction: lock, compare, insert or update, audit, commit.  While the *)
(* row is missing there is no record to lock, only the gap of the key,     *)
(* which several transactions may hold at once.                            *)
(***************************************************************************)
EXTENDS Naturals, Sequences

CONSTANTS
    Stores,     \* institutions
    DefaultIds, \* what a missing row stands for
    Admins,
    None,
    Missing,    \* the version of the missing row, "missing:10001" in the code
    MaxEvents

Lists == SUBSET Stores
Version == Lists \cup {Missing}

ASSUME TwinAssumption ==
    /\ DefaultIds \in Lists
    /\ \A l \in Lists : l # Missing /\ l # None
    /\ None \notin Admins
    /\ MaxEvents \in Nat

VARIABLES
    row,       \* the committed row: Missing, or the list of its JSON value
    lock,      \* holder of the record lock (of an uncommitted insert, too)
    gap,       \* transactions that hold the gap lock of the missing key
    resources, \* stores that ListStores of nvrmonitor finds, None while it fails
    pc, version, ids,  \* per tab: the step, the version loaded, the list to save
    fresh,     \* whether the tab's transaction found the row missing
    applied,   \* history: whether the tab's save took effect
    audit,     \* system.digital_twin_whitelist.update events: previous and next
    gapLocks   \* TRUE under REPEATABLE READ, FALSE under READ COMMITTED: the
               \* code leaves the isolation level to the server's default

vars == <<gapLocks, row, lock, gap, resources, pc, version, ids, fresh, applied, audit>>

Steps == {"idle", "editing", "checked", "write", "commit",
          "saved", "refused", "conflict", "failed"}

TypeOK ==
    /\ row \in Version
    /\ lock \in Admins \cup {None}
    /\ gap \subseteq Admins
    /\ resources \in Lists \cup {None}
    /\ pc \in [Admins -> Steps]
    /\ version \in [Admins -> Version]
    /\ ids \in [Admins -> Lists]
    /\ fresh \in [Admins -> BOOLEAN]
    /\ applied \in [Admins -> BOOLEAN]
    /\ audit \in Seq([previous : Version, next : Lists])
    /\ gapLocks \in BOOLEAN

Goto(a, step) == pc' = [pc EXCEPT ![a] = step]

\* The rollback or the commit of a's transaction releases its locks.
Release(a) ==
    /\ lock' = IF lock = a THEN None ELSE lock
    /\ gap' = gap \ {a}

Init ==
    /\ row = Missing
    /\ lock = None
    /\ gap = {}
    /\ resources \in Lists \cup {None}
    /\ pc = [a \in Admins |-> "idle"]
    /\ version = [a \in Admins |-> Missing]
    /\ ids = [a \in Admins |-> {}]
    /\ fresh = [a \in Admins |-> FALSE]
    /\ applied = [a \in Admins |-> FALSE]
    /\ audit = <<>>
    /\ gapLocks \in BOOLEAN

-----------------------------------------------------------------------------
\* The monitor's directory changes, fails or recovers.
ResourcesChange ==
    /\ resources' \in (Lists \cup {None}) \ {resources}
    /\ UNCHANGED <<row, lock, gap, pc, version, ids, fresh, applied, audit>>

\* GetDigitalTwinSettings, outside any transaction.
Load(a) ==
    /\ pc[a] = "idle"
    /\ Goto(a, "editing")
    /\ version' = [version EXCEPT ![a] = row]
    /\ UNCHANGED <<row, lock, gap, resources, ids, fresh, applied, audit>>

\* updateDigitalTwinSettingsHandler up to the store: every store of the list
\* must be known, but the empty list is saved without asking (emergency stop).
Submit(a, list) ==
    /\ pc[a] = "editing"
    /\ Len(audit) < MaxEvents
    /\ IF list # {} /\ (resources = None \/ ~(list \subseteq resources))
       THEN Goto(a, "refused")
       ELSE Goto(a, "checked")
    /\ ids' = [ids EXCEPT ![a] = list]
    /\ UNCHANGED <<row, lock, gap, resources, version, fresh, applied, audit>>

\* Mutant: the default list and a saved list of the same content are one version.
LockRow_DefaultVersion(a) ==
    /\ pc[a] = "checked"
    /\ lock = None
    /\ IF row = version[a] \/ {row, version[a]} \subseteq {Missing, DefaultIds}
       THEN /\ Goto(a, "write")
            /\ lock' = IF row = Missing THEN None ELSE a
            /\ gap' = IF row = Missing /\ gapLocks THEN gap \cup {a} ELSE gap
       ELSE Goto(a, "conflict") /\ UNCHANGED <<lock, gap>>
    /\ fresh' = [fresh EXCEPT ![a] = row = Missing]
    /\ UNCHANGED <<row, resources, version, ids, applied, audit>>

\* "select ... for update" and the comparison of the versions.  It waits for the
\* record lock; a missing row gives a gap lock, which does not exclude another.
LockRow(a) ==
    /\ pc[a] = "checked"
    /\ lock = None
    /\ IF row = version[a]
       THEN /\ Goto(a, "write")
            /\ lock' = IF row = Missing THEN None ELSE a
            /\ gap' = IF row = Missing /\ gapLocks THEN gap \cup {a} ELSE gap
       ELSE Goto(a, "conflict") /\ UNCHANGED <<lock, gap>>
    /\ fresh' = [fresh EXCEPT ![a] = row = Missing]
    /\ UNCHANGED <<row, resources, version, ids, applied, audit>>

\* The update of the locked row, or the insert, which waits until nobody else
\* holds the gap or an uncommitted insert of the key.
WriteRow(a) ==
    /\ pc[a] = "write"
    /\ fresh[a] => gap \subseteq {a} /\ lock = None /\ row = Missing
    /\ Goto(a, "commit")
    /\ lock' = a
    /\ UNCHANGED <<row, gap, resources, version, ids, fresh, applied, audit>>

\* Mutant: the insert replaces a row that has appeared ("on duplicate key update").
DuplicateKey_Replaces(a) ==
    /\ pc[a] = "write" /\ fresh[a]
    /\ lock = None /\ row # Missing
    /\ Goto(a, "commit")
    /\ lock' = a
    /\ UNCHANGED <<row, gap, resources, version, ids, fresh, applied, audit>>

\* Error 1062: another transaction inserted the row since it was found missing.
DuplicateKey(a) ==
    /\ pc[a] = "write" /\ fresh[a]
    /\ lock = None /\ row # Missing
    /\ Goto(a, "conflict")
    /\ Release(a)
    /\ UNCHANGED <<row, resources, version, ids, fresh, applied, audit>>

\* Mutant: the transaction is tried again for as long as it meets the deadlock.
GapDeadlock_Retries(a) ==
    /\ pc[a] = "write" /\ fresh[a]
    /\ \E b \in gap \ {a} : a \in gap /\ pc[b] = "write"
    /\ Goto(a, "checked")
    /\ Release(a)
    /\ UNCHANGED <<row, resources, version, ids, fresh, applied, audit>>

\* Error 1213: two inserts wait for each other's gap lock, one is rolled back.
GapDeadlock(a) ==
    /\ pc[a] = "write" /\ fresh[a]
    /\ \E b \in gap \ {a} : a \in gap /\ pc[b] = "write"
    /\ Goto(a, "conflict")
    /\ Release(a)
    /\ UNCHANGED <<row, resources, version, ids, fresh, applied, audit>>

\* The row and its event become durable together.
Committed(a) ==
    /\ row' = ids[a]
    /\ applied' = [applied EXCEPT ![a] = TRUE]
    /\ audit' = Append(audit, [previous |-> IF fresh[a] THEN Missing ELSE row,
                               next |-> ids[a]])

\* Mutant: the commit's error is dropped.
Commit_ErrorDropped(a) ==
    /\ pc[a] = "commit"
    /\ Committed(a) \/ UNCHANGED <<row, applied, audit>>
    /\ Goto(a, "saved")
    /\ Release(a)
    /\ UNCHANGED <<resources, version, ids, fresh>>

\* Audit event and commit: durable or not, and whichever it is the answer of the
\* commit may be lost; any error is answered as a failure.
Commit(a) ==
    /\ pc[a] = "commit"
    /\ \/ Committed(a) /\ (Goto(a, "saved") \/ Goto(a, "failed"))
       \/ UNCHANGED <<row, applied, audit>> /\ Goto(a, "failed")
    /\ Release(a)
    /\ UNCHANGED <<resources, version, ids, fresh>>

\* A statement before the commit fails or waits too long.
TxFails(a) ==
    /\ pc[a] \in {"checked", "write"}
    /\ Goto(a, "failed")
    /\ Release(a)
    /\ UNCHANGED <<row, resources, version, ids, fresh, applied, audit>>

\* The administrator has read the answer.
Done(a) ==
    /\ pc[a] \in {"saved", "refused", "conflict", "failed"}
    /\ Goto(a, "idle")
    /\ version' = [version EXCEPT ![a] = Missing]
    /\ ids' = [ids EXCEPT ![a] = {}]
    /\ fresh' = [fresh EXCEPT ![a] = FALSE]
    /\ applied' = [applied EXCEPT ![a] = FALSE]
    /\ UNCHANGED <<row, lock, gap, resources, audit>>

\* What the server does with a save, errors of its own making apart.
Handle(a) ==
    \/ LockRow(a) \/ WriteRow(a) \/ DuplicateKey(a) \/ GapDeadlock(a) \/ Commit(a)

Step ==
    \/ ResourcesChange
    \/ \E a \in Admins, list \in Lists : Submit(a, list)
    \/ \E a \in Admins : Load(a) \/ Handle(a) \/ TxFails(a) \/ Done(a)

Next == Step /\ UNCHANGED gapLocks

Spec == Init /\ [][Next]_vars

\* The server runs on, and InnoDB grants a lock to a waiter sooner or later.
FairSpec == Spec /\ \A a \in Admins : SF_vars(Handle(a) /\ UNCHANGED gapLocks)

-----------------------------------------------------------------------------
(* Properties. *)

\* No administrator's list is replaced by one who has not seen it: a save takes
\* effect only on the version that was loaded, the missing row included, which
\* "for update" cannot lock.
NoUnseenOverwrite ==
    [][\A a \in Admins : ~applied[a] /\ applied'[a] => row = version[a]]_vars

\* The audit log is the history of the list: it starts from the missing row,
\* each event continues the one before, and the last one is the row.
AuditIsHistory ==
    /\ \A k \in 1 .. Len(audit) :
         audit[k].previous = IF k = 1 THEN Missing ELSE audit[k - 1].next
    /\ row = IF audit = <<>> THEN Missing ELSE audit[Len(audit)].next

\* Locks never outlive their transaction, and the record lock excludes a second
\* writer: at most one administrator is between the write and the commit.
LocksBelongToWriters ==
    /\ lock # None => pc[lock] \in {"write", "commit"}
    /\ \A a \in gap : pc[a] \in {"write", "commit"}
    /\ \A a, b \in Admins : pc[a] = "commit" /\ pc[b] = "commit" => a = b

\* Every save that passed the checks is answered, also when both administrators
\* found the row missing and wait for each other.
EverySaveIsAnswered ==
    \A a \in Admins : (pc[a] = "checked") ~> (pc[a] \in {"saved", "conflict", "failed"})

\* What a tab of the abstract register shows for the steps of a save.
TabOf(step) ==
    CASE step \in {"editing", "checked", "write", "commit"} -> "loaded"
      [] step \in {"refused", "conflict"} -> "rejected"
      [] step = "failed" -> "unclear"
      [] OTHER -> step

Register == INSTANCE AuditedRegister WITH
    Clients <- Admins, Values <- Lists, Initial <- Missing,
    value <- row, log <- audit, seen <- version,
    tab <- [a \in Admins |-> TabOf(pc[a])]

\* The transaction of UpdateDigitalTwinSettings, with its gap locks, its insert
\* or update and its lost answers, is the single step of an audited register:
\* "saved" and "conflict" are the truth, a save replaces only the list that was
\* loaded, and its event tells the list that it really replaced.
ImplementsRegister == Register!Spec
=============================================================================
