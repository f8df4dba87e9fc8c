----------------------------- MODULE UserAdmin -----------------------------
(***************************************************************************)
(* User management of internal/app: accounts, roles and monitor scopes,    *)
(* edited by several administrators at once.  A form is filled from the    *)
(* user list (two statements), carries a revision of what it showed, and   *)
(* is saved by one transaction that locks the account, compares the        *)
(* revision, replaces the scopes and writes the audit event.  The memory   *)
(* store of local development does the same under one mutex.               *)
(***************************************************************************)
EXTENDS Naturals, Sequences

CONSTANTS
    Accounts,   \* accounts, by e-mail address
    Insts,      \* CRM institutions (tb_crm_admin_tenant)
    Admins,     \* administrators' browser tabs
    Nobody,
    Backends,   \* the stores that a process may be started with
    Forms,      \* the mutations that administrators submit
    CRMStates,  \* the states the CRM puts an institution in
    MaxEvents   \* bound of the audit log

VARIABLES
    acct,    \* tb_users and tb_user_roles
    scopes,  \* tb_user_resource_scopes with scope monitor:view, by user
    inst,    \* CRM side: "off", "on" (enabled, no edge host) or "ready" (a candidate)
    rowLock, \* holder of the InnoDB lock on each account
    tab, target, creating, form, input, snap, \* per tab
    applied, \* history: whether the tab's last save took effect
    audit,   \* tb_audit_logs, the user.create and user.update events
    store    \* the process's store, "mysql" or "memory"

userVars == <<store, acct, scopes, inst, rowLock, tab, target, creating, form, input, snap, applied, audit>>

Roles == {"admin", "editor", "viewer"}
Scope == [kind : {"store", "crm"}, inst : Insts]
Revision == [role : Roles, enabled : BOOLEAN, rows : SUBSET Scope]
Mutation == [role : Roles, enabled : BOOLEAN, ids : SUBSET Insts, preserve : BOOLEAN]

ASSUME UserAssumption ==
    /\ Accounts # {} /\ Nobody \notin Accounts \cup Admins
    /\ Backends \subseteq {"mysql", "memory"}
    /\ Forms \subseteq Mutation
    /\ CRMStates \subseteq {"off", "on", "ready"}
    /\ MaxEvents \in Nat

Event == [user : Accounts, result : {"success", "failed"}, role : Roles, enabled : BOOLEAN,
          before : SUBSET Insts, after : SUBSET Insts]
TabSteps == {"idle", "listing", "editing", "begin", "write", "fail", "memaudit",
          "saved", "conflict", "error", "unknown"}

UsersTypeOK ==
    /\ acct \in [Accounts -> [exists : BOOLEAN, role : Roles, enabled : BOOLEAN]]
    /\ scopes \in [Accounts -> SUBSET Scope]
    /\ inst \in [Insts -> CRMStates]
    /\ rowLock \in [Accounts -> Admins \cup {Nobody}]
    /\ tab \in [Admins -> TabSteps]
    /\ target \in [Admins -> Accounts]
    /\ creating \in [Admins -> BOOLEAN]
    /\ form \in [Admins -> Revision]
    /\ input \in [Admins -> Mutation]
    /\ snap \in [Admins -> SUBSET Insts]
    /\ applied \in [Admins -> BOOLEAN]
    /\ audit \in Seq(Event)
    /\ store \in Backends

-----------------------------------------------------------------------------
(* The store's decisions. *)

\* The institutions a set of scope rows names, whatever kind saved them.
Named(rows) == {s.inst : s \in rows}

\* readCRMMonitorScopes refuses a user whose rows are of both kinds.
Mixed(rows) == \E s, t \in rows : s.kind # t.kind

\* userMonitorScopeRevision: a digest of the scope rows, the role and the flag.
RevisionOf(u) ==
    [role |-> acct[u].role, enabled |-> acct[u].enabled, rows |-> scopes[u]]

\* listCRMMonitorInstitutions with candidatesOnly.
Candidates == {i \in Insts : inst[i] = "ready"}

\* Mutant: the query without its "not exists" clause.
CanView_Mixed(u, role, i) ==
    inst[i] # "off" /\ (role # "viewer" \/ \E s \in scopes[u] : s.inst = i)

\* CanUserViewMonitorStore for the role read with the request.
CanView(u, role, i) ==
    /\ inst[i] # "off"
    /\ \/ role # "viewer"
       \/ \E s \in scopes[u] : s.inst = i /\ \A o \in scopes[u] : o.kind = s.kind

\* What the user list shows as available, listCRMMonitorInstitutions' status test.
ListedAvailable(u) == {i \in Named(scopes[u]) : inst[i] # "off"}

\* The scope rows and the audit event that a save writes.
NewRows(a) ==
    IF input[a].preserve THEN (IF creating[a] THEN {} ELSE scopes[target[a]])
    ELSE {[kind |-> "crm", inst |-> i] : i \in input[a].ids}

\* annotateMonitorScopeAudit, with the identities of the transaction.
EventOf(a) ==
    [user |-> target[a], result |-> "success", role |-> input[a].role,
     enabled |-> input[a].enabled,
     before |-> IF creating[a] THEN {} ELSE Named(scopes[target[a]]),
     after |-> Named(NewRows(a))]

\* newUserMutationAuditEvent alone, for failures and for the memory store: the
\* request's institutions, none for the roles that see everything.
RequestEvent(a, result) ==
    [user |-> target[a], result |-> result, role |-> input[a].role,
     enabled |-> input[a].enabled, before |-> {},
     after |-> IF input[a].role = "viewer" THEN input[a].ids ELSE {}]

AnyUser == CHOOSE u \in Accounts : TRUE
BlankForm == [role |-> "viewer", enabled |-> FALSE, rows |-> {}]
BlankInput == [role |-> "viewer", enabled |-> FALSE, ids |-> {}, preserve |-> TRUE]

TabTo(a, step) == tab' = [tab EXCEPT ![a] = step]

UsersInit ==
    /\ store \in Backends
    /\ acct \in [Accounts -> [exists : BOOLEAN, role : {"viewer"}, enabled : {TRUE}]]
    /\ scopes \in [Accounts -> SUBSET Scope]
    /\ \A u \in Accounts : /\ acct[u].exists \/ scopes[u] = {}
                           /\ store = "mysql" \/ \A s \in scopes[u] : s.kind = "crm"
    /\ inst \in [Insts -> CRMStates]
    /\ rowLock = [u \in Accounts |-> Nobody]
    /\ tab = [a \in Admins |-> "idle"]
    /\ target = [a \in Admins |-> AnyUser]
    /\ creating = [a \in Admins |-> FALSE]
    /\ form = [a \in Admins |-> BlankForm]
    /\ input = [a \in Admins |-> BlankInput]
    /\ snap = [a \in Admins |-> {}]
    /\ applied = [a \in Admins |-> FALSE]
    /\ audit = <<>>

-----------------------------------------------------------------------------
\* The CRM enables, disables or equips an institution.
CRMChange(i) ==
    /\ inst' \in {[inst EXCEPT ![i] = s] : s \in CRMStates \ {inst[i]}}
    /\ UNCHANGED <<acct, scopes, rowLock, tab, target, creating, form, input, snap, applied, audit>>

\* ListAuthUsers, first statement: accounts and roles.
ListUsers(a, u) ==
    /\ tab[a] = "idle"
    /\ acct[u].exists
    /\ TabTo(a, "listing")
    /\ target' = [target EXCEPT ![a] = u]
    /\ creating' = [creating EXCEPT ![a] = FALSE]
    /\ form' = [form EXCEPT ![a] = [role |-> acct[u].role, enabled |-> acct[u].enabled,
                                    rows |-> {}]]
    /\ UNCHANGED <<acct, scopes, inst, rowLock, input, snap, applied, audit>>

\* Second statement, attachMonitorScopes: one user with mixed rows fails the
\* list.  (MemoryStore lists under one read lock, one of the interleavings here.)
ListScopes(a) ==
    /\ tab[a] = "listing"
    /\ IF \E u \in Accounts : Mixed(scopes[u])
       THEN TabTo(a, "idle") /\ form' = [form EXCEPT ![a] = BlankForm]
       ELSE /\ TabTo(a, "editing")
            /\ form' = [form EXCEPT ![a] = [role |-> form[a].role, enabled |-> form[a].enabled,
                                            rows |-> scopes[target[a]]]]
    /\ UNCHANGED <<acct, scopes, inst, rowLock, target, creating, input, snap, applied, audit>>

\* updateUserHandler receives the form, possibly long after it was filled.
SubmitUpdate(a, m) ==
    /\ tab[a] = "editing"
    /\ Len(audit) < MaxEvents
    /\ TabTo(a, "begin")
    /\ input' = [input EXCEPT ![a] = m]
    /\ UNCHANGED <<acct, scopes, inst, rowLock, target, creating, form, snap, applied, audit>>

\* createUserHandler.
SubmitCreate(a, u, m) ==
    /\ tab[a] = "idle"
    /\ Len(audit) < MaxEvents
    /\ TabTo(a, "begin")
    /\ target' = [target EXCEPT ![a] = u]
    /\ creating' = [creating EXCEPT ![a] = TRUE]
    /\ input' = [input EXCEPT ![a] = m]
    /\ UNCHANGED <<acct, scopes, inst, rowLock, form, snap, applied, audit>>

\* Mutant: the account is read without "for update".
Begin_NoLock(a) ==
    LET u == target[a]
    IN  /\ store = "mysql" /\ tab[a] = "begin"
        /\ IF creating[a] = acct[u].exists \/ Mixed(scopes[u]) THEN TabTo(a, "fail")
           ELSE IF ~creating[a] /\ form[a] # RevisionOf(u) THEN TabTo(a, "conflict")
           ELSE TabTo(a, "write")
        /\ snap' = [snap EXCEPT ![a] = Candidates]
        /\ UNCHANGED <<acct, scopes, inst, rowLock, target, creating, form, input, applied, audit>>

\* Mutant: the account is locked, but the revision is not compared.
Begin_NoRevision(a) ==
    LET u == target[a]
    IN  /\ store = "mysql" /\ tab[a] = "begin"
        /\ rowLock[u] = Nobody
        /\ IF creating[a] = acct[u].exists \/ Mixed(scopes[u])
           THEN TabTo(a, "fail") /\ UNCHANGED <<rowLock, snap>>
           ELSE /\ TabTo(a, "write")
                /\ rowLock' = [rowLock EXCEPT ![u] = a]
                /\ snap' = [snap EXCEPT ![a] = Candidates]
        /\ UNCHANGED <<acct, scopes, inst, target, creating, form, input, applied, audit>>

\* The transaction's first locking statement: the insert of a new account, or
\* the "for update" read and the comparison of the revision.  Its read view
\* also fixes the candidates that a later statement of the transaction sees.
Begin(a) ==
    LET u == target[a]
    IN  /\ store = "mysql" /\ tab[a] = "begin"
        /\ rowLock[u] = Nobody
        /\ IF creating[a] = acct[u].exists \/ Mixed(scopes[u])
           THEN TabTo(a, "fail") /\ UNCHANGED <<rowLock, snap>>
           ELSE IF ~creating[a] /\ form[a] # RevisionOf(u)
           THEN TabTo(a, "conflict") /\ UNCHANGED <<rowLock, snap>>
           ELSE /\ TabTo(a, "write")
                /\ rowLock' = [rowLock EXCEPT ![u] = a]
                /\ snap' = [snap EXCEPT ![a] = Candidates]
        /\ UNCHANGED <<acct, scopes, inst, target, creating, form, input, applied, audit>>

Allowed(a) == input[a].ids \subseteq (snap[a] \cup Named(scopes[target[a]]))

Apply(a) ==
    LET u == target[a]
    IN  /\ acct' = [acct EXCEPT ![u] = [exists |-> TRUE, role |-> input[a].role,
                                        enabled |-> input[a].enabled]]
        /\ scopes' = [scopes EXCEPT ![u] = NewRows(a)]
        /\ applied' = [applied EXCEPT ![a] = TRUE]

\* Mutant: a failed commit is reported like any other error.
Write_UnknownFails(a) ==
    /\ tab[a] = "write" /\ (input[a].preserve \/ Allowed(a))
    /\ rowLock' = [rowLock EXCEPT ![target[a]] = Nobody]
    /\ Apply(a) /\ (TabTo(a, "saved") \/ TabTo(a, "fail"))
    /\ audit' = Append(audit, EventOf(a))
    /\ UNCHANGED <<inst, target, creating, form, input, snap>>

\* The rest of the transaction: scopes, account, role, audit event, commit.  A
\* commit whose answer is lost is errAuthUserCommitUnknown.
Write(a) ==
    /\ tab[a] = "write"
    /\ rowLock' = [rowLock EXCEPT ![target[a]] = Nobody]
    /\ \/ /\ ~input[a].preserve /\ ~Allowed(a)
          /\ TabTo(a, "fail")
          /\ UNCHANGED <<acct, scopes, applied, audit>>
       \/ /\ input[a].preserve \/ Allowed(a)
          /\ Apply(a)
          /\ audit' = Append(audit, EventOf(a))
          /\ TabTo(a, "saved") \/ TabTo(a, "unknown")
       \/ /\ input[a].preserve \/ Allowed(a)
          /\ TabTo(a, "unknown")
          /\ UNCHANGED <<acct, scopes, applied, audit>>
    /\ UNCHANGED <<inst, target, creating, form, input, snap>>

\* A statement fails or waits too long: the transaction is rolled back.
TxFails(a) ==
    /\ store = "mysql"
    /\ tab[a] \in {"begin", "write"}
    /\ rowLock' = [u \in Accounts |-> IF rowLock[u] = a THEN Nobody ELSE rowLock[u]]
    /\ TabTo(a, "fail")
    /\ UNCHANGED <<acct, scopes, inst, target, creating, form, input, snap, applied, audit>>

\* recordUserMutationFailure: outside the transaction, its own error dropped.
RecordFailure(a) ==
    /\ tab[a] = "fail"
    /\ audit' \in {audit, Append(audit, RequestEvent(a, "failed"))}
    /\ TabTo(a, "error")
    /\ UNCHANGED <<acct, scopes, inst, rowLock, target, creating, form, input, snap, applied>>

\* MemoryStore.CreateAuthUser and UpdateAuthUser: one critical section.
MemSave(a) ==
    LET u == target[a]
    IN  /\ store = "memory" /\ tab[a] = "begin"
        /\ IF ~creating[a] /\ acct[u].exists /\ form[a] # RevisionOf(u)
           THEN TabTo(a, "conflict") /\ UNCHANGED <<acct, scopes, applied>>
           ELSE IF creating[a] = acct[u].exists
                   \/ (~input[a].preserve
                       /\ ~(input[a].ids \subseteq (Candidates \cup Named(scopes[u]))))
           THEN TabTo(a, "fail") /\ UNCHANGED <<acct, scopes, applied>>
           ELSE Apply(a) /\ TabTo(a, "memaudit")
        /\ UNCHANGED <<inst, rowLock, target, creating, form, input, snap, audit>>

\* MemoryStore's RecordAudit afterwards fails when the request was cancelled;
\* the handler then takes the change for one that did not happen.
MemAudit(a) ==
    /\ tab[a] = "memaudit"
    /\ \/ /\ audit' = Append(audit, RequestEvent(a, "success"))
          /\ TabTo(a, "saved")
       \/ UNCHANGED audit /\ TabTo(a, "error")
    /\ UNCHANGED <<acct, scopes, inst, rowLock, target, creating, form, input, snap, applied>>

\* The administrator has seen the answer and drops the form.
Return(a) ==
    /\ tab[a] \in {"saved", "conflict", "error", "unknown"}
    /\ TabTo(a, "idle")
    /\ target' = [target EXCEPT ![a] = AnyUser]
    /\ creating' = [creating EXCEPT ![a] = FALSE]
    /\ form' = [form EXCEPT ![a] = BlankForm]
    /\ input' = [input EXCEPT ![a] = BlankInput]
    /\ snap' = [snap EXCEPT ![a] = {}]
    /\ applied' = [applied EXCEPT ![a] = FALSE]
    /\ UNCHANGED <<acct, scopes, inst, rowLock, audit>>

Step ==
    \/ \E i \in Insts : CRMChange(i)
    \/ \E a \in Admins, u \in Accounts : ListUsers(a, u)
    \/ \E a \in Admins, m \in Forms : SubmitUpdate(a, m)
    \/ \E a \in Admins, u \in Accounts, m \in Forms : SubmitCreate(a, u, m)
    \/ \E a \in Admins : \/ ListScopes(a) \/ Begin(a) \/ Write(a) \/ TxFails(a)
                         \/ RecordFailure(a) \/ MemSave(a) \/ MemAudit(a) \/ Return(a)

UsersNext == Step /\ UNCHANGED store

UsersSpec == UsersInit /\ [][UsersNext]_userVars

-----------------------------------------------------------------------------
(* Properties. *)

\* Nobody's change is overwritten unseen: an update takes effect only while the
\* account still is what the form showed, although the form was read by two
\* statements, outside any transaction and arbitrarily long ago.
NoLostUpdate ==
    [][\A a \in Admins :
         ~applied[a] /\ applied'[a] /\ ~creating[a] => form[a] = RevisionOf(target[a])]_userVars

\* Event k records a successful change of u.
Changed(u, k) == audit[k].user = u /\ audit[k].result = "success"

\* Nothing between events j and k records a change of u.
NoChangeWithin(u, j, k) == \A m \in 1 .. Len(audit) : j < m /\ m < k => ~Changed(u, m)

\* The audit log tells the whole story of an account: each event starts from the
\* scopes the previous one left, and the last one describes the table
\* (AuthUserMutationAuditStore: "commits a user/role/scope mutation and its
\* audit event in one storage transaction").
AuditReplaysTable ==
    store = "mysql" => \A u \in Accounts : \A j \in 1 .. Len(audit) :
        Changed(u, j) =>
          /\ \A k \in 1 .. Len(audit) :
               j < k /\ Changed(u, k) /\ NoChangeWithin(u, j, k)
               => audit[k].before = audit[j].after
          /\ NoChangeWithin(u, j, Len(audit) + 1) =>
               /\ audit[j].after = Named(scopes[u])
               /\ audit[j].role = acct[u].role
               /\ audit[j].enabled = acct[u].enabled

\* With MySQL an error, a conflict or a recorded failure means that nothing was
\* changed, and "saved" that everything was; only "unknown" leaves it open.
AnswersTellOutcome ==
    store = "mysql" => \A a \in Admins :
        /\ tab[a] \in {"fail", "conflict", "error"} => ~applied[a]
        /\ tab[a] = "saved" => applied[a]

\* What the user list shows a viewer to have is exactly what the monitor
\* endpoints let the viewer see, and mixed identities open nothing.
ListedScopesAreViewable ==
    \A u \in Accounts :
        LET viewable == {i \in Insts : CanView(u, "viewer", i)}
        IN  viewable = IF Mixed(scopes[u]) THEN {} ELSE ListedAvailable(u)
=============================================================================
