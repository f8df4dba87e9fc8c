------------------------ MODULE TwinWhitelistProofs ------------------------
(***************************************************************************)
(* Safety of the whitelist for any number of administrators and stores and *)
(* for both isolation levels.  The inductive invariant says what a         *)
(* transaction may rely on between its statements: a locked record, or, if *)
(* it found the row missing, nothing until its insert has succeeded.       *)
(*                                                                         *)
(* The second half is about SystemSettings: the watermark setting, which   *)
(* is audited too but without a transaction, and the pages of the audit    *)
(* log, for any requests, filters and width of int.                        *)
(***************************************************************************)
EXTENDS TwinWhitelist, SystemSettings, AlgorithmProofs, TLAPS

\* What holds between the statements of a's transaction.
TxInv(a) ==
    /\ pc[a] = "commit" => lock = a /\ row = version[a] /\ (fresh[a] => row = Missing)
    /\ pc[a] = "write" /\ ~fresh[a] => lock = a /\ row = version[a]
    /\ pc[a] = "write" /\ fresh[a] => version[a] = Missing

IInv ==
    /\ TypeOK
    /\ AuditIsHistory
    /\ LocksBelongToWriters
    /\ \A a \in Admins : TxInv(a)

\* The actions of one administrator.
Act(a) ==
    \/ \E list \in Lists : Submit(a, list)
    \/ Load(a) \/ LockRow(a) \/ WriteRow(a) \/ DuplicateKey(a) \/ GapDeadlock(a)
    \/ Commit(a) \/ TxFails(a) \/ Done(a)

\* Next is the environment or one administrator's action.
LEMMA NextSplit == Next => ResourcesChange \/ \E a \in Admins : Act(a)
BY DEF Next, Step, Act, Handle

\* The initial states satisfy the invariant.
LEMMA InitInv == Init => IInv
BY TwinAssumption DEF Init, IInv, TypeOK, AuditIsHistory, LocksBelongToWriters, TxInv,
   Version, Lists, Steps

\* Each action keeps the types.
LEMMA TypeStep == ASSUME TypeOK, [Next]_vars PROVE TypeOK'
<1>0. gapLocks' \in BOOLEAN
  BY DEF TypeOK, Next, vars
<1>1. CASE UNCHANGED vars
  BY <1>1 DEF TypeOK, vars
<1>2. CASE ResourcesChange
  BY <1>0, <1>2 DEF ResourcesChange, TypeOK
<1>3. ASSUME NEW a \in Admins, Act(a) PROVE TypeOK'
  <2>1. CASE \E list \in Lists : Submit(a, list)
    BY <1>0, <2>1 DEF Submit, Goto, TypeOK, Steps
  <2>2. CASE Load(a)
    BY <1>0, <2>2 DEF Load, Goto, TypeOK, Steps
  <2>3. CASE LockRow(a)
    BY <1>0, <2>3 DEF LockRow, Goto, TypeOK, Steps
  <2>4. CASE WriteRow(a)
    BY <1>0, <2>4 DEF WriteRow, Goto, TypeOK, Steps
  <2>5. CASE DuplicateKey(a) \/ GapDeadlock(a) \/ TxFails(a)
    BY <1>0, <2>5 DEF DuplicateKey, GapDeadlock, TxFails, Release, Goto, TypeOK, Steps
  <2>6. CASE Commit(a)
    <3>1. lock' \in Admins \cup {None} /\ gap' \subseteq Admins
      BY <2>6 DEF Commit, Release, TypeOK
    <3>2. pc' \in [Admins -> Steps]
      BY <2>6 DEF Commit, Goto, TypeOK, Steps
    <3>3. CASE Committed(a)
      <4>1. [previous |-> IF fresh[a] THEN Missing ELSE row, next |-> ids[a]]
              \in [previous : Version, next : Lists]
        BY DEF TypeOK, Version
      <4>2. audit' \in Seq([previous : Version, next : Lists])
        BY <3>3, <4>1 DEF Committed, TypeOK
      <4>3. row' \in Version /\ applied' \in [Admins -> BOOLEAN]
        BY <3>3 DEF Committed, TypeOK, Version
      <4> QED BY <1>0, <2>6, <3>1, <3>2, <4>2, <4>3 DEF Commit, TypeOK
    <3>4. CASE UNCHANGED <<row, applied, audit>>
      BY <1>0, <2>6, <3>1, <3>2, <3>4 DEF Commit, TypeOK
    <3> QED BY <2>6, <3>3, <3>4 DEF Commit
  <2>7. CASE Done(a)
    BY <1>0, <2>7 DEF Done, Goto, TypeOK, Steps, Version, Lists
  <2> QED BY <1>3, <2>1, <2>2, <2>3, <2>4, <2>5, <2>6, <2>7 DEF Act
<1> QED BY <1>1, <1>2, <1>3, NextSplit

\* The lock discipline, and what a transaction relies on, survive every step of
\* every administrator.
LEMMA LockStep ==
    ASSUME IInv, [Next]_vars
    PROVE  LocksBelongToWriters' /\ \A a \in Admins : TxInv(a)'
<1> USE TwinAssumption DEF IInv, LocksBelongToWriters, TxInv, TypeOK
<1>1. CASE UNCHANGED vars
  BY <1>1 DEF vars
<1>2. CASE ResourcesChange
  BY <1>2 DEF ResourcesChange
<1>3. ASSUME NEW b \in Admins, Act(b)
      PROVE  LocksBelongToWriters' /\ \A a \in Admins : TxInv(a)'
  <2>1. CASE \E list \in Lists : Submit(b, list)
    BY <2>1 DEF Submit, Goto
  <2>2. CASE Load(b)
    BY <2>2 DEF Load, Goto
  <2>3. CASE LockRow(b)
    <3>1. CASE row = version[b]
      <4>1. LocksBelongToWriters'
        BY <2>3, <3>1 DEF LockRow, Goto
      <4>2. ASSUME NEW a \in Admins PROVE TxInv(a)'
        <5>1. pc'[b] = "write" /\ version' = version /\ row' = row
          BY <2>3, <3>1 DEF LockRow, Goto
        <5>2. fresh'[b] <=> row = Missing
          BY <2>3 DEF LockRow
        <5>3. row # Missing => lock' = b
          BY <2>3, <3>1 DEF LockRow
        <5>4. CASE a = b
          BY <3>1, <5>1, <5>2, <5>3, <5>4
        <5>5. CASE a # b
          BY <2>3, <5>5 DEF LockRow, Goto
        <5> QED BY <5>4, <5>5
      <4> QED BY <4>1, <4>2
    <3>2. CASE row # version[b]
      BY <2>3, <3>2 DEF LockRow, Goto
    <3> QED BY <3>1, <3>2
  <2>4. CASE WriteRow(b)
    BY <2>4 DEF WriteRow, Goto
  <2>5. CASE DuplicateKey(b) \/ GapDeadlock(b) \/ TxFails(b)
    BY <2>5 DEF DuplicateKey, GapDeadlock, TxFails, Release, Goto
  <2>6. CASE Commit(b)
    BY <2>6 DEF Commit, Committed, Release, Goto
  <2>7. CASE Done(b)
    BY <2>7 DEF Done, Goto
  <2> QED BY <1>3, <2>1, <2>2, <2>3, <2>4, <2>5, <2>6, <2>7 DEF Act
<1> QED BY <1>1, <1>2, <1>3, NextSplit

\* Only Commit touches the row and the log, and it extends the log by the event
\* that leads from the old row to the new one.
LEMMA HistoryStep == ASSUME IInv, [Next]_vars PROVE AuditIsHistory'
<1>1. CASE UNCHANGED <<row, audit>>
  BY <1>1 DEF IInv, AuditIsHistory
<1>2. ASSUME NEW a \in Admins, Commit(a), Committed(a) PROVE AuditIsHistory'
  <2> DEFINE e == [previous |-> row, next |-> ids[a]]
  <2>1. (IF fresh[a] THEN Missing ELSE row) = row
    BY <1>2 DEF Commit, IInv, TxInv
  <2>2. audit' = Append(audit, e) /\ row' = ids[a]
    BY <1>2, <2>1 DEF Committed
  <2>3. audit \in Seq([previous : Version, next : Lists])
    BY DEF IInv, TypeOK
  <2>4. e \in [previous : Version, next : Lists]
    BY DEF IInv, TypeOK
  <2>5. /\ Len(audit') = Len(audit) + 1
        /\ audit'[Len(audit) + 1] = e
        /\ \A k \in 1 .. Len(audit) : audit'[k] = audit[k]
    BY <2>2, <2>3, <2>4
  <2>6. ASSUME NEW k \in 1 .. Len(audit')
        PROVE  audit'[k].previous = IF k = 1 THEN Missing ELSE audit'[k - 1].next
    <3>1. CASE k \in 1 .. Len(audit)
      BY <2>3, <2>5, <3>1 DEF IInv, AuditIsHistory
    <3>2. CASE k = Len(audit) + 1
      <4>1. CASE Len(audit) = 0
        BY <2>3, <2>5, <3>2, <4>1 DEF IInv, AuditIsHistory
      <4>2. CASE Len(audit) # 0
        <5>1. audit # <<>> /\ Len(audit) \in 1 .. Len(audit) /\ k # 1 /\ k - 1 = Len(audit)
          BY <2>3, <3>2, <4>2
        <5>2. row = audit[Len(audit)].next
          BY <5>1 DEF IInv, AuditIsHistory
        <5> QED BY <2>5, <3>2, <5>1, <5>2
      <4> QED BY <4>1, <4>2
    <3> QED BY <2>3, <2>5, <2>6, <3>1, <3>2
  <2>7. audit' # <<>> /\ row' = audit'[Len(audit')].next
    BY <2>2, <2>3, <2>4, <2>5
  <2> QED BY <2>6, <2>7 DEF AuditIsHistory
<1>3. UNCHANGED <<row, audit>> \/ \E a \in Admins : Commit(a) /\ Committed(a)
  <2>1. CASE UNCHANGED vars
    BY <2>1 DEF vars
  <2>2. CASE ResourcesChange
    BY <2>2 DEF ResourcesChange
  <2>3. ASSUME NEW a \in Admins, Act(a)
        PROVE  UNCHANGED <<row, audit>> \/ (Commit(a) /\ Committed(a))
    <3>1. CASE Commit(a)
      BY <3>1 DEF Commit
    <3> QED BY <2>3, <3>1 DEF Act, Submit, Load, LockRow, WriteRow, DuplicateKey,
               GapDeadlock, TxFails, Done
  <2> QED BY <2>1, <2>2, <2>3, NextSplit
<1> QED BY <1>1, <1>2, <1>3

\* The invariant is inductive.
THEOREM Inductive == Spec => []IInv
<1>1. IInv /\ [Next]_vars => IInv'
  BY TypeStep, LockStep, HistoryStep DEF IInv
<1> QED BY InitInv, <1>1, PTL DEF Spec

\* For every set of administrators, the audit log is the history of the whitelist
\* (UpdateDigitalTwinSettings writes the row and the event in one transaction).
THEOREM WhitelistAudited == Spec => []AuditIsHistory
<1>1. IInv => AuditIsHistory
  BY DEF IInv
<1> QED BY Inductive, <1>1, PTL

\* Locks belong to open transactions and there is one writer at a time.
THEOREM WhitelistLocks == Spec => []LocksBelongToWriters
<1>1. IInv => LocksBelongToWriters
  BY DEF IInv
<1> QED BY Inductive, <1>1, PTL

\* No save takes effect over a version that its administrator did not load, even
\* when the row was missing and "for update" locked nothing.
THEOREM WhitelistNotOverwritten == Spec => NoUnseenOverwrite
<1> DEFINE Seen == \A a \in Admins : ~applied[a] /\ applied'[a] => row = version[a]
<1>1. IInv /\ [Next]_vars => [Seen]_vars
  <2> SUFFICES ASSUME IInv, [Next]_vars, NEW a \in Admins, ~applied[a], applied'[a],
                      vars' # vars
               PROVE  row = version[a]
    OBVIOUS
  <2>1. CASE ResourcesChange
    BY <2>1 DEF ResourcesChange
  <2>2. ASSUME NEW b \in Admins, Act(b) PROVE row = version[a]
    <3>1. CASE Commit(b)
      <4>1. row = version[b]
        BY <3>1 DEF Commit, IInv, TxInv
      <4>2. a = b
        BY <3>1 DEF Commit, Committed, IInv, TypeOK
      <4> QED BY <4>1, <4>2
    <3>2. CASE ~Commit(b)
      BY <2>2, <3>2 DEF Act, Submit, Load, LockRow, WriteRow, DuplicateKey,
         GapDeadlock, TxFails, Done, IInv, TypeOK
    <3> QED BY <3>1, <3>2
  <2> QED BY <2>1, <2>2, NextSplit
<1> QED BY Inductive, <1>1, PTL DEF Spec, NoUnseenOverwrite

-----------------------------------------------------------------------------
(* The transaction implements the register of AuditedRegister. *)

Tabs == [a \in Admins |-> TabOf(pc[a])]

\* Moving one administrator to a step moves the same tab of the register.
LEMMA TabMoves ==
    ASSUME pc \in [Admins -> Steps], NEW a \in Admins, NEW step \in Steps, Goto(a, step)
    PROVE  Tabs' = [Tabs EXCEPT ![a] = TabOf(step)]
<1>1. pc' = [pc EXCEPT ![a] = step]
  BY DEF Goto
<1>2. \A b \in Admins : pc'[b] = IF b = a THEN step ELSE pc[b]
  BY <1>1
<1>3. \A b \in Admins : TabOf(pc'[b]) = IF b = a THEN TabOf(step) ELSE TabOf(pc[b])
  BY <1>2
<1>4. Tabs' = [b \in Admins |-> TabOf(pc'[b])]
  BY DEF Tabs
<1>5. [Tabs EXCEPT ![a] = TabOf(step)]
        = [b \in Admins |-> IF b = a THEN TabOf(step) ELSE TabOf(pc[b])]
  BY DEF Tabs
<1> QED BY <1>3, <1>4, <1>5

\* What a tab of the register shows for each step of a save.
LEMMA TabValues ==
    /\ TabOf("idle") = "idle"
    /\ TabOf("editing") = "loaded"
    /\ TabOf("checked") = "loaded"
    /\ TabOf("write") = "loaded"
    /\ TabOf("commit") = "loaded"
    /\ TabOf("saved") = "saved"
    /\ TabOf("refused") = "rejected"
    /\ TabOf("conflict") = "rejected"
    /\ TabOf("failed") = "unclear"
BY DEF TabOf

\* A step inside a save, which the register does not show.
LEMMA HiddenStep ==
    ASSUME pc \in [Admins -> Steps], NEW a \in Admins, NEW step \in Steps, Goto(a, step),
           TabOf(step) = TabOf(pc[a]), UNCHANGED <<row, audit, version>>
    PROVE  UNCHANGED Register!vars
<1>1. Tabs' = [Tabs EXCEPT ![a] = TabOf(step)]
  BY TabMoves
<1>2. Tabs' = Tabs
  BY <1>1 DEF Tabs
<1> QED BY <1>2 DEF Register!vars, Tabs

\* A save that ends without effect is the register's NoSave.
LEMMA EndWithoutEffect ==
    ASSUME pc \in [Admins -> Steps], NEW a \in Admins,
           NEW step \in {"refused", "conflict", "failed"}, Goto(a, step),
           TabOf(pc[a]) = "loaded", UNCHANGED <<row, audit, version>>
    PROVE  Register!Next
<1>1. Tabs' = [Tabs EXCEPT ![a] = TabOf(step)]
  BY TabMoves DEF Steps
<1>2. TabOf(step) \in {"rejected", "unclear"}
  BY TabValues
<1>3. Tabs[a] = "loaded"
  BY DEF Tabs
<1>4. Register!NoSave(a)
  BY <1>1, <1>2, <1>3 DEF Register!NoSave, Tabs
<1> QED BY <1>4 DEF Register!Next

\* The register starts as the whitelist does.
LEMMA InitMaps == Init => Register!Init
<1> SUFFICES ASSUME Init PROVE Register!Init
  OBVIOUS
<1>1. Tabs = [a \in Admins |-> "idle"]
  BY TabValues DEF Init, Tabs
<1> QED BY <1>1 DEF Init, Register!Init, Tabs

\* The commit is the register's Save when it is durable, whether or not its answer
\* arrives, and its NoSave when it is not.
LEMMA CommitMaps == ASSUME IInv, NEW a \in Admins, Commit(a) PROVE Register!Next
<1>0. pc \in [Admins -> Steps] /\ pc[a] = "commit" /\ version' = version
  BY DEF IInv, TypeOK, Commit
<1>1. Tabs[a] = "loaded" /\ TabOf(pc[a]) = "loaded"
  BY <1>0, TabValues DEF Tabs
<1>2. CASE Committed(a) /\ (Goto(a, "saved") \/ Goto(a, "failed"))
  <2>1. row = version[a] /\ (IF fresh[a] THEN Missing ELSE row) = row
    BY <1>0 DEF IInv, TxInv
  <2>2. row' = ids[a] /\ ids[a] \in Lists
    BY <1>2 DEF Committed, IInv, TypeOK
  <2>3. audit' = Append(audit, [previous |-> row, next |-> ids[a]])
    BY <1>2, <2>1 DEF Committed
  <2>4. \E t \in {"saved", "unclear"} : Tabs' = [Tabs EXCEPT ![a] = t]
    <3>1. CASE Goto(a, "saved")
      <4>1. Tabs' = [Tabs EXCEPT ![a] = TabOf("saved")]
        BY <1>0, <3>1, TabMoves DEF Steps
      <4> QED BY <4>1, TabValues
    <3>2. CASE Goto(a, "failed")
      <4>1. Tabs' = [Tabs EXCEPT ![a] = TabOf("failed")]
        BY <1>0, <3>2, TabMoves DEF Steps
      <4> QED BY <4>1, TabValues
    <3> QED BY <1>2, <3>1, <3>2
  <2>5. Register!Save(a, ids[a])
    BY <1>0, <1>1, <2>1, <2>2, <2>3, <2>4 DEF Register!Save, Tabs
  <2> QED BY <2>2, <2>5 DEF Register!Next
<1>3. CASE UNCHANGED <<row, applied, audit>> /\ Goto(a, "failed")
  BY <1>0, <1>1, <1>3, EndWithoutEffect
<1> QED BY <1>2, <1>3 DEF Commit

\* Every step of the whitelist is one step of the register, or none.
LEMMA StepMaps == ASSUME IInv, [Next]_vars PROVE [Register!Next]_(Register!vars)
<1>0. pc \in [Admins -> Steps]
  BY DEF IInv, TypeOK
<1>1. CASE UNCHANGED vars
  BY <1>1 DEF vars, Register!vars
<1>2. CASE ResourcesChange
  BY <1>2 DEF ResourcesChange, Register!vars
<1>3. ASSUME NEW a \in Admins, Act(a) PROVE [Register!Next]_(Register!vars)
  <2>1. ASSUME NEW list \in Lists, Submit(a, list) PROVE [Register!Next]_(Register!vars)
    <3>1. TabOf(pc[a]) = "loaded" /\ UNCHANGED <<row, audit, version>>
      BY <2>1, TabValues DEF Submit
    <3>2. CASE Goto(a, "refused")
      BY <1>0, <3>1, <3>2, EndWithoutEffect
    <3>3. CASE Goto(a, "checked")
      BY <1>0, <3>1, <3>3, HiddenStep, TabValues DEF Steps
    <3> QED BY <2>1, <3>2, <3>3 DEF Submit
  <2>2. CASE Load(a)
    <3>1. Tabs' = [Tabs EXCEPT ![a] = "loaded"] /\ Tabs[a] = "idle"
      <4>1. Tabs' = [Tabs EXCEPT ![a] = TabOf("editing")]
        BY <1>0, <2>2, TabMoves DEF Load, Steps
      <4>2. Tabs[a] = TabOf("idle")
        BY <2>2 DEF Load, Tabs
      <4> QED BY <4>1, <4>2, TabValues
    <3>2. Register!Load(a)
      BY <2>2, <3>1 DEF Load, Register!Load, Tabs
    <3> QED BY <3>2 DEF Register!Next
  <2>3. CASE LockRow(a)
    <3>1. TabOf(pc[a]) = "loaded" /\ UNCHANGED <<row, audit, version>>
      BY <2>3, TabValues DEF LockRow
    <3>2. CASE Goto(a, "write")
      BY <1>0, <3>1, <3>2, HiddenStep, TabValues DEF Steps
    <3>3. CASE Goto(a, "conflict")
      BY <1>0, <3>1, <3>3, EndWithoutEffect
    <3> QED BY <2>3, <3>2, <3>3 DEF LockRow
  <2>4. CASE WriteRow(a)
    <3>1. Goto(a, "commit") /\ TabOf(pc[a]) = "loaded" /\ UNCHANGED <<row, audit, version>>
      BY <2>4, TabValues DEF WriteRow
    <3> QED BY <1>0, <3>1, HiddenStep, TabValues DEF Steps
  <2>5. CASE DuplicateKey(a) \/ GapDeadlock(a)
    <3>1. Goto(a, "conflict") /\ TabOf(pc[a]) = "loaded" /\ UNCHANGED <<row, audit, version>>
      BY <2>5, TabValues DEF DuplicateKey, GapDeadlock
    <3> QED BY <1>0, <3>1, EndWithoutEffect
  <2>6. CASE TxFails(a)
    <3>1. Goto(a, "failed") /\ TabOf(pc[a]) = "loaded" /\ UNCHANGED <<row, audit, version>>
      BY <2>6, TabValues DEF TxFails
    <3> QED BY <1>0, <3>1, EndWithoutEffect
  <2>7. CASE Done(a)
    <3>1. Tabs' = [Tabs EXCEPT ![a] = "idle"]
      <4>1. Tabs' = [Tabs EXCEPT ![a] = TabOf("idle")]
        BY <1>0, <2>7, TabMoves DEF Done, Steps
      <4> QED BY <4>1, TabValues
    <3>2. Tabs[a] \in {"saved", "rejected", "unclear"}
      BY <2>7, TabValues DEF Done, Tabs
    <3>3. Register!Close(a)
      BY <2>7, <3>1, <3>2 DEF Done, Register!Close, Register!Told, Tabs
    <3> QED BY <3>3 DEF Register!Next
  <2> QED BY <1>3, <2>1, <2>2, <2>3, <2>4, <2>5, <2>6, <2>7, CommitMaps DEF Act
<1> QED BY <1>1, <1>2, <1>3, NextSplit

\* UpdateDigitalTwinSettings with its locks, inserts, rollbacks and lost answers
\* implements the audited register: the refinement that TLC checks for two
\* administrators holds for any number of them.
THEOREM WhitelistRefines == Spec => ImplementsRegister
<1>1. IInv /\ [Next]_vars => [Register!Next]_(Register!vars)
  BY StepMaps
<1> QED BY Inductive, InitMaps, <1>1, PTL DEF Spec, ImplementsRegister, Register!Spec

---------------------------------------------------------------------------
(* System settings and the audit log. *)

\* The multiplication of the page number: no offset wraps around.
LEMMA Quotient ==
    ASSUME NEW m \in Nat, NEW z \in Nat \ {0}, NEW k \in Nat
    PROVE  /\ k > m \div z => k * z > m
           /\ k <= m \div z => k * z <= m
<1>1. PICK q \in Nat, r \in Nat : q = m \div z /\ r < z /\ m = z * q + r
  <2>1. m \div z \in Nat /\ m % z \in Nat /\ m % z < z /\ m = z * (m \div z) + (m % z)
    OBVIOUS
  <2> QED BY <2>1
<1>2. ASSUME k > q PROVE k * z > m
  <2>1. PICK d \in Nat : k = q + 1 + d
    <3>1. k - q - 1 \in Nat /\ k = q + 1 + (k - q - 1)
      BY <1>2
    <3> QED BY <3>1
  <2>2. k * z = z * q + z + d * z
    <3>1. (q + 1 + d) * z = z * q + z + d * z
      OBVIOUS
    <3> QED BY <2>1, <3>1, Zenon
  <2>3. r < z
    BY <1>1
  <2>4. \A K, A, B \in Nat : K = A + z + B /\ m = A + r => K > m
    BY <2>3
  <2>5. z * q \in Nat /\ d * z \in Nat /\ k * z \in Nat
    OBVIOUS
  <2> QED BY <2>2, <2>4, <2>5, <1>1, Zenon
<1>3. ASSUME k <= q PROVE k * z <= m
  <2>1. PICK d \in Nat : q = k + d
    <3>1. q - k \in Nat /\ q = k + (q - k)
      BY <1>3
    <3> QED BY <3>1
  <2>2. m = k * z + d * z + r
    BY <1>1, <2>1
  <2>3. d * z \in Nat /\ k * z \in Nat
    OBVIOUS
  <2> QED BY <2>2, <2>3
<1> QED BY <1>1, <1>2, <1>3

LEMMA WrapWithin ==
    ASSUME NEW n \in 0..MaxInt, MaxInt \in Nat
    PROVE  Wrap(n) = n
<1>1. PICK M \in Nat : M = MaxInt + 1
  OBVIOUS
<1>2. \A a \in Nat, b \in Nat : a < b => a % b = a
  OBVIOUS
<1>3. (n + M) % (2 * M) = n + M
  <2>1. n + M \in Nat /\ 2 * M \in Nat /\ n + M < 2 * M
    BY <1>1
  <2> QED BY <1>2, <2>1
<1>4. n + MaxInt + 1 = n + M /\ 2 * (MaxInt + 1) = 2 * M
  BY <1>1
<1> QED BY <1>1, <1>3, <1>4 DEF Wrap

Fields == {"op", "step", "user", "on", "prev", "filter", "next", "total", "items",
           "calm", "answer"}
Actions == {"watermark", "view", "export", "screenshot", "login", "logout", "timeout", "prepare"}
Events == [action : Actions, result : Results, user : Users \cup {0}, prev : BOOLEAN,
           on : BOOLEAN, day : Nat]

\* What is true of a request by its step.
RequestOK(r) ==
    /\ DOMAIN r = Fields
    /\ r.op \in DOMAIN Permission \cup {"idle"}
    /\ r.step \in RequestSteps /\ r.answer \in Answers
    /\ r.user \in Users \cup {0}
    /\ r.on \in BOOLEAN /\ r.prev \in BOOLEAN
    /\ r.next \in {"", "openai", "minimax"}
    /\ r.op = "logs" => r.filter \in Filters
    /\ r.op = "idle" => r.step \in {"idle", "done"}
    /\ r.step = "audit" => r.op \in {"watermark", "view", "export", "screenshot"}
    /\ r.step # "done" => r.answer = "none"

RequestsOK == DOMAIN reqs = Procs /\ \A p \in Procs : RequestOK(reqs[p])

SettingsTypes ==
    /\ SettingsTypeOK /\ RequestsOK /\ auditLog \in Seq(Events)

LEMMA IdleOK ==
    /\ DOMAIN Idle = Fields /\ Idle.op = "idle" /\ Idle.step = "idle" /\ Idle.user = 0
    /\ Idle.on = FALSE /\ Idle.prev = FALSE /\ Idle.next = "" /\ Idle.answer = "none"
    /\ RequestOK(Idle)
<1>1. DOMAIN Idle = Fields
  BY DEF Idle, Fields
<1>2. /\ Idle.op = "idle" /\ Idle.step = "idle" /\ Idle.user = 0 /\ Idle.on = FALSE
      /\ Idle.prev = FALSE /\ Idle.next = "" /\ Idle.answer = "none"
  BY DEF Idle
<1> QED BY <1>1, <1>2 DEF RequestOK, RequestSteps, Answers

LEMMA AtFields ==
    ASSUME NEW r, DOMAIN r = Fields, NEW step
    PROVE  /\ DOMAIN At(r, step) = Fields /\ At(r, step).step = step
           /\ At(r, step).op = r.op /\ At(r, step).user = r.user /\ At(r, step).on = r.on
           /\ At(r, step).prev = r.prev /\ At(r, step).filter = r.filter
           /\ At(r, step).next = r.next /\ At(r, step).total = r.total
           /\ At(r, step).items = r.items /\ At(r, step).calm = r.calm
           /\ At(r, step).answer = r.answer
BY DEF At, Fields

LEMMA AnsweredLogs ==
    ASSUME NEW r, DOMAIN r = Fields, r.op = "logs"
    PROVE  /\ DOMAIN Answered(r, "ok") = Fields
           /\ Answered(r, "ok").step = "done" /\ Answered(r, "ok").answer = "ok"
           /\ Answered(r, "ok").user = 0 /\ Answered(r, "ok").prev = FALSE
           /\ Answered(r, "ok").op = r.op /\ Answered(r, "ok").on = r.on
           /\ Answered(r, "ok").filter = r.filter /\ Answered(r, "ok").next = r.next
           /\ Answered(r, "ok").total = r.total /\ Answered(r, "ok").items = r.items
           /\ Answered(r, "ok").calm = r.calm
<1> DEFINE y == [r EXCEPT !.step = "done", !.answer = "ok", !.user = 0, !.prev = FALSE]
<1>1. /\ DOMAIN y = Fields /\ y.step = "done" /\ y.answer = "ok"
      /\ y.user = 0 /\ y.prev = FALSE
      /\ y.op = r.op /\ y.on = r.on /\ y.filter = r.filter /\ y.next = r.next
      /\ y.total = r.total /\ y.items = r.items /\ y.calm = r.calm
  BY DEF Fields
<1>2. Answered(r, "ok") = y
  BY DEF Answered
<1> QED BY <1>1, <1>2

\* An answer that keeps nothing of the request.
BlankAnswer(y, answer) ==
    /\ DOMAIN y = Fields /\ y.step = "done" /\ y.answer = answer
    /\ y.op = "idle" /\ y.user = 0 /\ y.on = FALSE /\ y.prev = FALSE /\ y.next = ""
LEMMA AnsweredBlank ==
    ASSUME NEW r, NEW answer, answer # "ok" \/ r.op # "logs"
    PROVE  BlankAnswer(Answered(r, answer), answer)
<1> DEFINE y == [Idle EXCEPT !.step = "done", !.answer = answer]
<1>1. /\ DOMAIN y = Fields /\ y.step = "done" /\ y.answer = answer
      /\ y.op = Idle.op /\ y.user = Idle.user /\ y.on = Idle.on /\ y.prev = Idle.prev
      /\ y.next = Idle.next
  BY IdleOK DEF Fields
<1>2. BlankAnswer(y, answer)
  BY <1>1, IdleOK DEF BlankAnswer
<1>3. Answered(r, answer) = y
  BY DEF Answered
<1> HIDE DEF y
<1> QED BY <1>2, <1>3

LEMMA AnsweredOK ==
    ASSUME NEW r, RequestOK(r), NEW answer \in Answers
    PROVE  /\ RequestOK(Answered(r, answer)) /\ Answered(r, answer).step = "done"
           /\ Answered(r, answer).answer = answer
           /\ answer # "ok" \/ r.op # "logs" => Answered(r, answer).op = "idle"
<1>1. DOMAIN r = Fields
  BY DEF RequestOK
<1>2. CASE answer = "ok" /\ r.op = "logs"
  <2> DEFINE y == Answered(r, "ok")
  <2>1. /\ DOMAIN y = Fields /\ y.step = "done" /\ y.answer = "ok"
        /\ y.user = 0 /\ y.prev = FALSE
        /\ y.op = r.op /\ y.on = r.on /\ y.filter = r.filter /\ y.next = r.next
    BY <1>1, <1>2, AnsweredLogs
  <2> HIDE DEF y
  <2>2. RequestOK(y)
    BY <1>2, <2>1 DEF RequestOK, RequestSteps
  <2> QED BY <1>2, <2>1, <2>2 DEF y
<1>3. CASE answer # "ok" \/ r.op # "logs"
  <2> DEFINE y == Answered(r, answer)
  <2>0. BlankAnswer(y, answer)
    BY <1>3, AnsweredBlank
  <2> HIDE DEF y
  <2>1. /\ DOMAIN y = Fields /\ y.step = "done" /\ y.answer = answer
        /\ y.op = "idle" /\ y.user = 0 /\ y.on = FALSE /\ y.prev = FALSE /\ y.next = ""
    BY <2>0 DEF BlankAnswer
  <2>2. RequestOK(y)
    BY <2>1 DEF RequestOK, RequestSteps
  <2> QED BY <2>1, <2>2 DEF y
<1> QED BY <1>2, <1>3

LEMMA SetKeeps ==
    ASSUME RequestsOK, NEW p \in Procs, NEW r, RequestOK(r), Set(p, r)
    PROVE  /\ RequestsOK' /\ reqs'[p] = r
           /\ \A q \in Procs \ {p} : reqs'[q] = reqs[q]
<1>1. reqs' = [reqs EXCEPT ![p] = r] /\ DOMAIN reqs = Procs
  BY DEF Set, RequestsOK
<1>2. DOMAIN reqs' = Procs /\ reqs'[p] = r /\ \A q \in Procs \ {p} : reqs'[q] = reqs[q]
  BY <1>1
<1>3. \A q \in Procs : RequestOK(reqs'[q])
  BY <1>2 DEF RequestsOK
<1> QED BY <1>2, <1>3 DEF RequestsOK

\* Only calm may differ.
SameBut(y, r) ==
    /\ y.op = r.op /\ y.step = r.step /\ y.user = r.user /\ y.on = r.on /\ y.prev = r.prev
    /\ y.filter = r.filter /\ y.next = r.next /\ y.total = r.total /\ y.items = r.items
    /\ y.answer = r.answer

LEMMA DisturbedFields ==
    ASSUME RequestsOK, NEW p \in Procs
    PROVE  /\ DOMAIN Disturbed(reqs) = Procs /\ RequestOK(Disturbed(reqs)[p])
           /\ Disturbed(reqs)[p].calm = FALSE
           /\ SameBut(Disturbed(reqs)[p], reqs[p])
<1>1. PICK r : r = reqs[p]
  OBVIOUS
<1>2. RequestOK(r) /\ DOMAIN r = Fields
  BY <1>1 DEF RequestsOK, RequestOK
<1> DEFINE y == [r EXCEPT !.calm = FALSE]
<1>3. /\ DOMAIN y = Fields /\ y.calm = FALSE
      /\ SameBut(y, r)
  BY <1>2 DEF Fields, SameBut
<1>4. Disturbed(reqs)[p] = y /\ DOMAIN Disturbed(reqs) = Procs
  BY <1>1 DEF Disturbed
<1> HIDE DEF y
<1>5. RequestOK(y)
  <2>1. /\ y.op = r.op /\ y.step = r.step /\ y.answer = r.answer /\ y.user = r.user
        /\ y.on = r.on /\ y.prev = r.prev /\ y.next = r.next /\ y.filter = r.filter
    BY <1>3 DEF SameBut
  <2> QED BY <1>2, <1>3, <2>1 DEF RequestOK
<1> QED BY <1>1, <1>3, <1>4, <1>5

LEMMA RecordKeeps ==
    ASSUME RequestsOK, NEW p \in Procs, NEW r, RequestOK(r), NEW e, Record(p, r, e)
    PROVE  /\ RequestsOK' /\ reqs'[p] = r /\ auditLog' = Append(auditLog, e)
           /\ \A q \in Procs \ {p} :
                 reqs'[q].calm = FALSE /\ SameBut(reqs'[q], reqs[q])
<1>1. reqs' = [Disturbed(reqs) EXCEPT ![p] = r] /\ auditLog' = Append(auditLog, e)
  BY DEF Record
<1>2. DOMAIN Disturbed(reqs) = Procs
  BY DisturbedFields
<1>3. DOMAIN reqs' = Procs /\ reqs'[p] = r /\ \A q \in Procs \ {p} : reqs'[q] = Disturbed(reqs)[q]
  BY <1>1, <1>2
<1>4. \A q \in Procs : RequestOK(reqs'[q])
  BY <1>3, DisturbedFields
<1> QED BY <1>1, <1>3, <1>4, DisturbedFields DEF RequestsOK

LEMMA EventOK ==
    ASSUME SettingsTypes, NEW r, RequestOK(r), NEW action \in Actions, NEW result \in Results,
           NEW u \in Users \cup {0}
    PROVE  /\ Event(r, action, result, u) \in Events
           /\ Event(r, action, result, u).action = action
           /\ Event(r, action, result, u).result = result
           /\ Event(r, action, result, u).user = u
           /\ Event(r, action, result, u).prev = r.prev
           /\ Event(r, action, result, u).on = r.on
           /\ Event(r, action, result, u).day = day
<1>1. day \in Nat /\ r.prev \in BOOLEAN /\ r.on \in BOOLEAN
  <2>1. MaxDays \in Nat
    BY SettingsAssumption
  <2>2. day \in 1..MaxDays
    BY Zenon DEF SettingsTypes, SettingsTypeOK
  <2>3. day \in Nat
    BY <2>1, <2>2
  <2> QED BY <2>3, Zenon DEF RequestOK
<1> QED BY <1>1 DEF Event, Events

LEMMA SettingsInitTypes == SettingsInit => SettingsTypes
<1> SUFFICES ASSUME SettingsInit PROVE SettingsTypes
  OBVIOUS
<1>1. RequestsOK
  BY IdleOK DEF SettingsInit, RequestsOK
<1>2. auditLog \in Seq(Events) /\ auditLog = << >>
  BY DEF SettingsInit
<1>3. SettingsTypeOK
  <2>1. /\ \E d \in Deployments : backend = d.backend /\ gate = d.gate
        /\ mark \in {d.row : d \in Deployments} \cup {"true", "false"}
        /\ ai \in {d.ai : d \in Deployments} \cup {"openai", "minimax"}
    BY DEF SettingsInit
  <2>2. day \in 1..MaxDays /\ started \in 0..MaxRequests /\ disturbed \in BOOLEAN
    <3>1. MaxDays \in Nat \ {0} /\ MaxRequests \in Nat
      BY SettingsAssumption
    <3>2. day = 1 /\ started = 0 /\ disturbed = FALSE
      BY Zenon DEF SettingsInit
    <3>3. day \in 1..MaxDays /\ started \in 0..MaxRequests
      BY <3>1, <3>2
    <3> QED BY <3>2, <3>3, Zenon
  <2>3. DOMAIN auditLog = {}
    BY <1>2
  <2>4. \A p \in Procs : reqs[p].step \in RequestSteps /\ reqs[p].answer \in Answers
    BY <1>1 DEF RequestsOK, RequestOK
  <2>5. gaps \subseteq 0..Len(auditLog)
    BY DEF SettingsInit
  <2> QED BY <2>1, <2>2, <2>3, <2>4, <2>5 DEF SettingsTypeOK
<1> QED BY <1>1, <1>2, <1>3 DEF SettingsTypes

---------------------------------------------------------------------------
\* The page of a log, as a function of the log.
MatchingIn(log, f) ==
    Reverse(Without([i \in DOMAIN log |-> i], {i \in DOMAIN log : ~AuditLogWhere(f, log[i])}))
PageIn(log, f) ==
    LET rows == MatchingIn(log, f)
        last == Offset(f) + PageSizeOf(f)
    IN  IF Offset(f) >= Len(rows) THEN << >>
        ELSE SubSeq(rows, Offset(f) + 1, IF last > Len(rows) THEN Len(rows) ELSE last)
LEMMA PageOfState ==
    ASSUME NEW f
    PROVE  Matching(f) = MatchingIn(auditLog, f) /\ PageRows(f) = PageIn(auditLog, f)
BY DEF Matching, MatchingIn, PageRows, PageIn

IsChanging(r) == r.op = "watermark" /\ r.step \in {"audit", "rollback"}
\* A request that may still record an event.
IsActive(r) == r.step \notin {"idle", "rollback", "done"}

\* What a query knows of a log that has not changed since: the number of its
\* rows, and in the end the page.
PageOK(r, log) ==
    r.op = "logs" /\ r.calm =>
        /\ r.step = "rows" => r.total = Len(MatchingIn(log, r.filter))
        /\ r.answer = "ok" =>
              r.total = Len(MatchingIn(log, r.filter)) /\ r.items = PageIn(log, r.filter)

\* y may take the place of r in a step that writes nothing.
Follows(y, r) ==
    /\ RequestOK(y)
    /\ IsChanging(y) => IsChanging(r) /\ y.on = r.on /\ y.prev = r.prev
    /\ IsChanging(r) => IsChanging(y)
    /\ y.op = "watermark" /\ y.step = "set" => y.prev = WatermarkEnabled
    /\ PageOK(y, auditLog)

Moved(y, r, step) ==
    /\ DOMAIN y = Fields /\ y.step = step /\ y.op = r.op /\ y.user = r.user /\ y.on = r.on
    /\ y.prev = r.prev /\ y.filter = r.filter /\ y.next = r.next /\ y.total = r.total
    /\ y.items = r.items /\ y.calm = r.calm /\ y.answer = r.answer
LEMMA AtMoves ==
    ASSUME NEW r, DOMAIN r = Fields, NEW step
    PROVE  Moved(At(r, step), r, step)
<1> DEFINE y == [r EXCEPT !.step = step]
<1>1. Moved(y, r, step)
  BY DEF Moved, Fields
<1>2. At(r, step) = y
  BY DEF At
<1> HIDE DEF y
<1> QED BY <1>1, <1>2

LEMMA AtOK ==
    ASSUME NEW r, RequestOK(r), r.step # "done", r.op # "idle",
           NEW step \in RequestSteps \ {"done"},
           step = "audit" => r.op \in {"watermark", "view", "export", "screenshot"}
    PROVE  RequestOK(At(r, step)) /\ Moved(At(r, step), r, step)
<1> DEFINE y == At(r, step)
<1>1. Moved(y, r, step)
  BY AtMoves DEF RequestOK
<1> HIDE DEF y
<1>2. RequestOK(y)
  BY <1>1 DEF Moved, RequestOK
<1> QED BY <1>1, <1>2 DEF y

\* An answer that is not a page follows every request that is not changing
\* the setting.
LEMMA BlankFollows ==
    ASSUME NEW r, RequestOK(r), NEW answer \in Answers, answer # "ok" \/ r.op # "logs",
           ~IsChanging(r)
    PROVE  Follows(Answered(r, answer), r)
<1> DEFINE y == Answered(r, answer)
<1>1. RequestOK(y)
  BY AnsweredOK
<1>2. BlankAnswer(y, answer)
  BY AnsweredBlank
<1> HIDE DEF y
<1>3. y.op = "idle"
  BY <1>2 DEF BlankAnswer
<1>4. Follows(y, r)
  BY <1>1, <1>3 DEF Follows, IsChanging, PageOK
<1> QED BY <1>4 DEF y

\* So does a request that is not of the log or has not been answered and that
\* does not begin to write.
LEMMA AtFollows ==
    ASSUME NEW r, RequestOK(r), r.step # "done", r.op # "idle", ~IsChanging(r),
           NEW step \in {"permitted", "set", "audit"},
           step # "permitted" => r.op # "watermark",
           step = "audit" => r.op \in {"view", "export", "screenshot"}
    PROVE  Follows(At(r, step), r)
<1> DEFINE y == At(r, step)
<1>1. RequestOK(y) /\ Moved(y, r, step)
  BY AtOK DEF RequestSteps
<1> HIDE DEF y
<1>2. y.step = step /\ y.op = r.op /\ y.answer = "none"
  BY <1>1 DEF Moved, RequestOK
<1>3. Follows(y, r)
  BY <1>1, <1>2 DEF Follows, IsChanging, PageOK
<1> QED BY <1>3 DEF y

\* Such a step of p.
Silent(p) ==
    \E y : Set(p, y) /\ Follows(y, reqs[p]) /\ (IsActive(y) => IsActive(reqs[p]))

LEMMA SilentAnswer ==
    ASSUME NEW p \in Procs, RequestOK(reqs[p]), NEW answer \in Answers,
           answer # "ok" \/ reqs[p].op # "logs", ~IsChanging(reqs[p]),
           Set(p, Answered(reqs[p], answer))
    PROVE  Silent(p)
<1>1. Follows(Answered(reqs[p], answer), reqs[p])
  BY BlankFollows
<1>2. ~IsActive(Answered(reqs[p], answer))
  <2>1. BlankAnswer(Answered(reqs[p], answer), answer)
    BY AnsweredBlank
  <2> QED BY <2>1 DEF BlankAnswer, IsActive
<1> QED BY <1>1, <1>2 DEF Silent

LEMMA SilentMove ==
    ASSUME NEW p \in Procs, NEW r, r = reqs[p], RequestOK(r), IsActive(r), NEW y, Follows(y, r),
           Set(p, y)
    PROVE  Silent(p)
BY DEF Silent

LEMMA ServesOK ==
    ASSUME RequestsOK, NEW p \in Procs, NEW op, NEW step, Serves(p, op, step),
           op # "idle", step \notin {"idle", "done", "audit", "rollback"}
    PROVE  \E r : /\ r = reqs[p] /\ RequestOK(r) /\ IsActive(r) /\ ~IsChanging(r)
                  /\ r.op = op /\ r.step = step /\ r.answer = "none" /\ DOMAIN r = Fields
<1>1. PICK r : r = reqs[p]
  OBVIOUS
<1>2. RequestOK(r) /\ r.op = op /\ r.step = step
  BY <1>1 DEF RequestsOK, Serves
<1>3. IsActive(r) /\ ~IsChanging(r) /\ r.answer = "none" /\ DOMAIN r = Fields
  BY <1>2 DEF IsActive, IsChanging, RequestOK
<1> QED BY <1>1, <1>2, <1>3

LEMMA SilentGuards ==
    ASSUME RequestsOK, NEW p \in Procs, RecordChannelSnapshotView(p) \/ StoreExportGuard(p)
    PROVE  Silent(p)
<1>1. PICK op \in {"view", "export"} :
          /\ Serves(p, op, "permitted")
          /\ Set(p, At(reqs[p], "audit")) \/ Set(p, Answered(reqs[p], "refused"))
  BY DEF RecordChannelSnapshotView, StoreExportGuard
<1>2. PICK r : /\ r = reqs[p] /\ RequestOK(r) /\ IsActive(r) /\ ~IsChanging(r)
               /\ r.op = op /\ r.step = "permitted" /\ r.answer = "none" /\ DOMAIN r = Fields
  BY <1>1, ServesOK
<1>3. CASE Set(p, At(reqs[p], "audit"))
  <2>1. Follows(At(r, "audit"), r)
    BY <1>2, AtFollows
  <2> QED BY <1>2, <1>3, <2>1, SilentMove
<1>4. CASE Set(p, Answered(reqs[p], "refused"))
  <2>1. "refused" \in Answers
    BY DEF Answers
  <2> QED BY <1>2, <1>4, <2>1, SilentAnswer
<1> QED BY <1>1, <1>3, <1>4

LEMMA SilentScreenshot ==
    ASSUME RequestsOK, NEW p \in Procs, NvrScreenshotMetadata(p)
    PROVE  Silent(p)
<1>1. PICK r : /\ r = reqs[p] /\ RequestOK(r) /\ IsActive(r) /\ ~IsChanging(r)
               /\ r.op = "screenshot" /\ r.step = "permitted" /\ r.answer = "none"
               /\ DOMAIN r = Fields
  <2>1. Serves(p, "screenshot", "permitted")
    BY DEF NvrScreenshotMetadata
  <2> QED BY <2>1, ServesOK
<1>2. CASE \E answer \in {"refused", "error"} : Set(p, Answered(r, answer))
  <2>1. {"refused", "error"} \subseteq Answers
    BY DEF Answers
  <2>2. PICK answer \in {"refused", "error"} : Set(p, Answered(r, answer))
    BY <1>2
  <2> QED BY <1>1, <2>1, <2>2, SilentAnswer
<1>3. CASE Set(p, [At(r, "audit") EXCEPT !.on = WatermarkEnabled])
  <2>1. PICK x : x = At(r, "audit")
    OBVIOUS
  <2>2. RequestOK(x) /\ Moved(x, r, "audit")
    BY <1>1, <2>1, AtOK DEF RequestSteps
  <2>3. PICK on : on = WatermarkEnabled
    OBVIOUS
  <2>4. on \in BOOLEAN
    BY <2>3, Zenon DEF WatermarkEnabled, NormalizeWatermark
  <2>5. PICK y : y = [x EXCEPT !.on = on]
    OBVIOUS
  <2>6. /\ DOMAIN y = Fields /\ y.step = "audit" /\ y.op = x.op /\ y.user = x.user
        /\ y.on = on /\ y.prev = x.prev /\ y.next = x.next /\ y.answer = x.answer
    BY <2>2, <2>5 DEF Moved, Fields
  <2>7. x.op = "screenshot" /\ x.answer = "none"
    BY <1>1, <2>2 DEF Moved
  <2>8. RequestOK(y)
    BY <2>2, <2>4, <2>6, <2>7 DEF RequestOK, RequestSteps
  <2>9. Follows(y, r)
    BY <1>1, <2>6, <2>7, <2>8 DEF Follows, IsChanging, PageOK
  <2> QED BY <1>1, <1>3, <2>1, <2>3, <2>5, <2>9, SilentMove
<1> QED BY <1>1, <1>2, <1>3 DEF NvrScreenshotMetadata

LEMMA SilentWatermarkRead ==
    ASSUME RequestsOK, NEW p \in Procs, UpdateWatermark(p)
    PROVE  Silent(p)
<1>1. PICK r : /\ r = reqs[p] /\ RequestOK(r) /\ IsActive(r) /\ ~IsChanging(r)
               /\ r.op = "watermark" /\ r.step = "permitted" /\ r.answer = "none"
               /\ DOMAIN r = Fields
  <2>1. Serves(p, "watermark", "permitted")
    BY DEF UpdateWatermark
  <2> QED BY <2>1, ServesOK
<1>2. CASE \E answer \in {"invalid", "error"} : Set(p, Answered(r, answer))
  <2>1. {"invalid", "error"} \subseteq Answers
    BY DEF Answers
  <2>2. PICK answer \in {"invalid", "error"} : Set(p, Answered(r, answer))
    BY <1>2
  <2> QED BY <1>1, <2>1, <2>2, SilentAnswer
<1>3. CASE Set(p, [At(r, "set") EXCEPT !.prev = WatermarkEnabled])
  <2>1. PICK x : x = At(r, "set")
    OBVIOUS
  <2>2. RequestOK(x) /\ Moved(x, r, "set")
    BY <1>1, <2>1, AtOK DEF RequestSteps
  <2>3. PICK on : on = WatermarkEnabled
    OBVIOUS
  <2>4. on \in BOOLEAN
    BY <2>3, Zenon DEF WatermarkEnabled, NormalizeWatermark
  <2>5. PICK y : y = [x EXCEPT !.prev = on]
    OBVIOUS
  <2>6. /\ DOMAIN y = Fields /\ y.step = "set" /\ y.op = x.op /\ y.user = x.user
        /\ y.on = x.on /\ y.prev = on /\ y.next = x.next /\ y.answer = x.answer
    BY <2>2, <2>5 DEF Moved, Fields
  <2>7. x.op = "watermark" /\ x.answer = "none"
    BY <1>1, <2>2 DEF Moved
  <2>8. RequestOK(y)
    BY <2>2, <2>4, <2>6, <2>7 DEF RequestOK, RequestSteps
  <2>9. Follows(y, r)
    <3>1. y.prev = WatermarkEnabled
      BY <2>3, <2>6, Zenon
    <3>2. y.op = "watermark" /\ y.step = "set"
      BY <2>6, <2>7
    <3>3. ~IsChanging(y) /\ PageOK(y, auditLog)
      BY <3>2 DEF IsChanging, PageOK
    <3> QED BY <1>1, <2>8, <3>1, <3>3, Zenon DEF Follows
  <2> QED BY <1>1, <1>3, <2>1, <2>3, <2>5, <2>9, SilentMove
<1> QED BY <1>1, <1>2, <1>3 DEF UpdateWatermark

LEMMA SilentToggle ==
    ASSUME RequestsOK, NEW p \in Procs, ToggleAISettings(p)
    PROVE  Silent(p)
<1>1. PICK r : /\ r = reqs[p] /\ RequestOK(r) /\ IsActive(r) /\ ~IsChanging(r)
               /\ r.op = "toggle" /\ r.step = "permitted" /\ r.answer = "none"
               /\ DOMAIN r = Fields
  <2>1. Serves(p, "toggle", "permitted")
    BY DEF ToggleAISettings
  <2> QED BY <2>1, ServesOK
<1>2. CASE Set(p, Answered(r, "error"))
  <2>1. "error" \in Answers
    BY DEF Answers
  <2> QED BY <1>1, <1>2, <2>1, SilentAnswer
<1>3. CASE Set(p, [At(r, "set") EXCEPT !.next = NextAIProvider(ai)])
  <2>1. PICK x : x = At(r, "set")
    OBVIOUS
  <2>2. RequestOK(x) /\ Moved(x, r, "set")
    BY <1>1, <2>1, AtOK DEF RequestSteps
  <2>3. PICK next : next = NextAIProvider(ai)
    OBVIOUS
  <2>4. next \in {"openai", "minimax"}
    BY <2>3 DEF NextAIProvider
  <2>5. PICK y : y = [x EXCEPT !.next = next]
    OBVIOUS
  <2>6. /\ DOMAIN y = Fields /\ y.step = "set" /\ y.op = x.op /\ y.user = x.user
        /\ y.on = x.on /\ y.prev = x.prev /\ y.next = next /\ y.answer = x.answer
    BY <2>2, <2>5 DEF Moved, Fields
  <2>7. x.op = "toggle" /\ x.answer = "none"
    BY <1>1, <2>2 DEF Moved
  <2>8. RequestOK(y)
    BY <2>2, <2>4, <2>6, <2>7 DEF RequestOK, RequestSteps
  <2>9. Follows(y, r)
    BY <1>1, <2>6, <2>7, <2>8 DEF Follows, IsChanging, PageOK
  <2> QED BY <1>1, <1>3, <2>1, <2>3, <2>5, <2>9, SilentMove
<1> QED BY <1>1, <1>2, <1>3 DEF ToggleAISettings

LEMMA SilentProvider ==
    ASSUME RequestsOK, NEW p \in Procs, SetAIProvider(p)
    PROVE  Silent(p)
<1>1. PICK r : /\ r = reqs[p] /\ RequestOK(r) /\ IsActive(r) /\ ~IsChanging(r)
               /\ r.op = "toggle" /\ r.step = "set" /\ r.answer = "none"
               /\ DOMAIN r = Fields
  <2>1. Serves(p, "toggle", "set")
    BY DEF SetAIProvider
  <2> QED BY <2>1, ServesOK
<1>2. PICK answer \in {"error", "ok"} : Set(p, Answered(r, answer))
  BY <1>1 DEF SetAIProvider
<1>3. {"error", "ok"} \subseteq Answers
  BY DEF Answers
<1> QED BY <1>1, <1>2, <1>3, SilentAnswer

\* The audit failed, without and with a change to take back.
LEMMA SilentAudit ==
    ASSUME RequestsOK, NEW p \in Procs, reqs[p].step = "audit",
           Set(p, IF reqs[p].op = "watermark" THEN At(reqs[p], "rollback")
                  ELSE Answered(reqs[p], "unavailable"))
    PROVE  Silent(p)
<1>1. PICK r : r = reqs[p]
  OBVIOUS
<1>2. RequestOK(r) /\ r.step = "audit"
  BY <1>1 DEF RequestsOK
<1>3. IsActive(r) /\ r.op # "idle" /\ DOMAIN r = Fields /\ r.answer = "none"
  BY <1>2 DEF IsActive, RequestOK
<1>4. CASE r.op = "watermark"
  <2>1. PICK y : y = At(r, "rollback")
    OBVIOUS
  <2>2. RequestOK(y) /\ Moved(y, r, "rollback")
    BY <1>2, <1>3, <2>1, AtOK DEF RequestSteps
  <2>3. Follows(y, r)
    <3>1. y.op = "watermark" /\ y.step = "rollback" /\ y.on = r.on /\ y.prev = r.prev
      BY <1>4, <2>2 DEF Moved
    <3>2. IsChanging(y) /\ IsChanging(r) /\ PageOK(y, auditLog)
      BY <1>2, <1>4, <3>1 DEF IsChanging, PageOK
    <3> QED BY <2>2, <3>1, <3>2 DEF Follows
  <2> QED BY <1>1, <1>2, <1>3, <1>4, <2>1, <2>3, SilentMove
<1>5. CASE r.op # "watermark"
  <2>1. "unavailable" \in Answers /\ ~IsChanging(r)
    BY <1>5 DEF Answers, IsChanging
  <2> QED BY <1>1, <1>2, <1>5, <2>1, SilentAnswer
<1> QED BY <1>4, <1>5

\* The query of the log: y carries the number of the rows, and the page if it
\* is an answer.
LEMMA LogFollows ==
    ASSUME NEW r, NEW y, RequestOK(r), ~IsChanging(r), RequestOK(y), y.op = "logs",
           y.calm => /\ y.step \in {"rows", "done"}
                     /\ y.total = Len(MatchingIn(auditLog, y.filter))
                     /\ y.step = "done" => y.items = PageIn(auditLog, y.filter)
    PROVE  Follows(y, r)
<1>1. ~IsChanging(y) /\ y.op # "watermark"
  BY DEF IsChanging
<1>2. y.step # "done" => y.answer = "none"
  BY DEF RequestOK
<1>3. PageOK(y, auditLog)
  BY <1>2 DEF PageOK
<1> QED BY <1>1, <1>3 DEF Follows

LEMMA CountedFields ==
    ASSUME NEW r, RequestOK(r)
    PROVE  /\ RequestOK(Counted(r)) /\ Counted(r).total = Len(MatchingIn(auditLog, r.filter))
           /\ Counted(r).calm = TRUE /\ Counted(r).op = r.op /\ Counted(r).step = r.step
           /\ Counted(r).filter = r.filter /\ Counted(r).answer = r.answer
<1>1. PICK n : n = Len(Matching(r.filter))
  OBVIOUS
<1>2. n = Len(MatchingIn(auditLog, r.filter))
  BY <1>1, PageOfState
<1>3. PICK y : y = [r EXCEPT !.total = n, !.calm = TRUE]
  OBVIOUS
<1>4. DOMAIN r = Fields
  BY DEF RequestOK
<1>5. /\ DOMAIN y = Fields /\ y.total = n /\ y.calm = TRUE /\ y.op = r.op /\ y.step = r.step
      /\ y.filter = r.filter /\ y.answer = r.answer /\ y.user = r.user /\ y.on = r.on
      /\ y.prev = r.prev /\ y.next = r.next
  BY <1>3, <1>4 DEF Fields
<1>6. RequestOK(y)
  BY <1>5 DEF RequestOK
<1>7. Counted(r) = y
  BY <1>1, <1>3 DEF Counted
<1> QED BY <1>2, <1>5, <1>6, <1>7

\* The answer to a query: the page is the one of the log as it is.
LEMMA PageAnswer ==
    ASSUME NEW r, NEW x, RequestOK(r), ~IsChanging(r), RequestOK(x), x.op = "logs",
           x.calm => x.total = Len(MatchingIn(auditLog, x.filter)),
           NEW f, f = x.filter
    PROVE  LET y == [Answered(x, "ok") EXCEPT !.items = PageRows(f)]
           IN  Follows(y, r) /\ ~IsActive(y)
<1>1. PICK rows : rows = PageRows(f)
  OBVIOUS
<1>2. rows = PageIn(auditLog, f)
  BY <1>1, PageOfState
<1>3. PICK a : a = Answered(x, "ok")
  OBVIOUS
<1>4. DOMAIN x = Fields
  BY DEF RequestOK
<1>5. /\ DOMAIN a = Fields /\ a.step = "done" /\ a.answer = "ok" /\ a.op = "logs"
      /\ a.filter = f /\ a.total = x.total /\ a.calm = x.calm
  BY <1>3, <1>4, AnsweredLogs
<1>6. RequestOK(a)
  <2>1. "ok" \in Answers
    BY DEF Answers
  <2> QED BY <1>3, <2>1, AnsweredOK
<1>7. PICK y : y = [a EXCEPT !.items = rows]
  OBVIOUS
<1>8. /\ DOMAIN y = Fields /\ y.step = a.step /\ y.answer = a.answer /\ y.op = a.op
      /\ y.filter = a.filter /\ y.total = a.total /\ y.calm = a.calm /\ y.items = rows
      /\ y.user = a.user /\ y.on = a.on /\ y.prev = a.prev /\ y.next = a.next
  BY <1>5, <1>7 DEF Fields
<1>9. RequestOK(y)
  BY <1>6, <1>8 DEF RequestOK
<1>10. Follows(y, r)
  <2>1. y.op = "logs" /\ y.step = "done" /\ y.filter = f /\ y.items = PageIn(auditLog, f)
    BY <1>2, <1>5, <1>8
  <2>2. y.calm = x.calm /\ y.total = x.total
    BY <1>5, <1>8
  <2>3. y.calm => y.total = Len(MatchingIn(auditLog, f))
    BY <2>2, Zenon
  <2> QED BY <1>9, <2>1, <2>3, LogFollows
<1>11. ~IsActive(y)
  BY <1>5, <1>8 DEF IsActive
<1> QED BY <1>1, <1>3, <1>7, <1>10, <1>11

LEMMA SilentLogs ==
    ASSUME RequestsOK, NEW p \in Procs, PageOK(reqs[p], auditLog),
           AuditLogs(p) \/ CountAuditLogs(p) \/ ListAuditLogs(p) \/ MemoryListAuditLogs(p)
    PROVE  Silent(p)
<1>1. PICK step \in {"permitted", "rows"} : Serves(p, "logs", step)
  BY DEF AuditLogs, CountAuditLogs, ListAuditLogs, MemoryListAuditLogs
<1>2. PICK r : /\ r = reqs[p] /\ RequestOK(r) /\ IsActive(r) /\ ~IsChanging(r)
               /\ r.op = "logs" /\ r.step = step /\ r.answer = "none"
               /\ DOMAIN r = Fields
  BY <1>1, ServesOK
<1>3. CASE \E answer \in {"invalid", "error"} : Set(p, Answered(r, answer))
  <2>1. {"invalid", "error"} \subseteq Answers
    BY DEF Answers
  <2>2. PICK answer \in {"invalid", "error"} : Set(p, Answered(r, answer))
    BY <1>3
  <2> QED BY <1>2, <2>1, <2>2, SilentAnswer
<1>4. CASE Set(p, At(Counted(r), "rows"))
  <2>1. PICK x : x = Counted(r)
    OBVIOUS
  <2>2. /\ RequestOK(x) /\ x.total = Len(MatchingIn(auditLog, r.filter))
        /\ x.op = "logs" /\ x.step = step /\ x.filter = r.filter
    BY <1>2, <2>1, CountedFields
  <2>3. PICK y : y = At(x, "rows")
    OBVIOUS
  <2>4. RequestOK(y) /\ Moved(y, x, "rows")
    BY <2>2, <2>3, AtOK DEF RequestSteps
  <2>5. y.op = "logs" /\ y.step = "rows" /\ y.filter = r.filter /\ y.total = x.total
    BY <2>2, <2>4 DEF Moved
  <2>6. Follows(y, r)
    BY <1>2, <2>2, <2>4, <2>5, LogFollows
  <2> QED BY <1>2, <1>4, <2>1, <2>3, <2>6, SilentMove
<1>5. CASE ListAuditLogs(p) /\ Set(p, [Answered(r, "ok") EXCEPT !.items = PageRows(r.filter)])
  <2>1. r.step = "rows"
    BY <1>2, <1>5 DEF ListAuditLogs, Serves
  <2>2. r.calm => r.total = Len(MatchingIn(auditLog, r.filter))
    BY <1>2, <2>1 DEF PageOK
  <2>3. PICK y : y = [Answered(r, "ok") EXCEPT !.items = PageRows(r.filter)]
    OBVIOUS
  <2>4. Follows(y, r)
    BY <1>2, <2>2, <2>3, PageAnswer
  <2> QED BY <1>2, <1>5, <2>3, <2>4, SilentMove
<1>6. CASE Set(p, [Answered(Counted(r), "ok") EXCEPT !.items = PageRows(r.filter)])
  <2>1. PICK x : x = Counted(r)
    OBVIOUS
  <2>2. /\ RequestOK(x) /\ x.total = Len(MatchingIn(auditLog, r.filter))
        /\ x.op = "logs" /\ x.filter = r.filter
    BY <1>2, <2>1, CountedFields
  <2>3. PICK f : f = r.filter
    OBVIOUS
  <2>4. PICK y : y = [Answered(x, "ok") EXCEPT !.items = PageRows(f)]
    OBVIOUS
  <2>5. Follows(y, r)
    BY <1>2, <2>2, <2>3, <2>4, PageAnswer
  <2> QED BY <1>2, <1>6, <2>1, <2>3, <2>4, <2>5, SilentMove
<1> QED BY <1>2, <1>3, <1>4, <1>5, <1>6
        DEF AuditLogs, CountAuditLogs, ListAuditLogs, MemoryListAuditLogs

LEMMA AskedOK ==
    ASSUME NEW ask \in Requests, NEW u \in Users \cup {0}
    PROVE  LET req == [ask EXCEPT !.user = u]
           IN  RequestOK(req) /\ req.op \in DOMAIN Permission /\ req.step = "idle"
<1>1. /\ DOMAIN ask = Fields /\ ask.op \in DOMAIN Permission /\ ask.step = "idle"
      /\ ask.user = 0 /\ ask.on \in BOOLEAN /\ ask.prev = FALSE /\ ask.next = ""
      /\ ask.answer = "none" /\ (ask.op = "logs" => ask.filter \in Filters)
  <2>1. CASE \E op \in DOMAIN Permission \ {"logs"} : ask = [Idle EXCEPT !.op = op]
    <3>1. PICK op \in DOMAIN Permission \ {"logs"} : ask = [Idle EXCEPT !.op = op]
      BY <2>1
    <3>2. /\ DOMAIN ask = Fields /\ ask.op = op /\ ask.step = Idle.step
          /\ ask.user = Idle.user /\ ask.on = Idle.on /\ ask.prev = Idle.prev
          /\ ask.next = Idle.next /\ ask.answer = Idle.answer
      BY <3>1, IdleOK DEF Fields
    <3>3. ask.on \in BOOLEAN /\ ask.prev = FALSE
      BY <3>2, IdleOK
    <3> QED BY <3>2, <3>3, IdleOK
  <2>2. CASE ask = [Idle EXCEPT !.op = "watermark", !.on = TRUE]
    <3>2. /\ DOMAIN ask = Fields /\ ask.op = "watermark" /\ ask.step = Idle.step
          /\ ask.user = Idle.user /\ ask.on = TRUE /\ ask.prev = Idle.prev
          /\ ask.next = Idle.next /\ ask.answer = Idle.answer
      BY <2>2, IdleOK DEF Fields
    <3>3. ask.on \in BOOLEAN /\ ask.prev = FALSE
      BY <3>2, IdleOK
    <3>4. "watermark" \in DOMAIN Permission
      BY DEF Permission
    <3> QED BY <3>2, <3>3, <3>4, IdleOK
  <2>3. CASE \E f \in Filters : ask = [Idle EXCEPT !.op = "logs", !.filter = f]
    <3>1. PICK f \in Filters : ask = [Idle EXCEPT !.op = "logs", !.filter = f]
      BY <2>3
    <3>2. /\ DOMAIN ask = Fields /\ ask.op = "logs" /\ ask.step = Idle.step
          /\ ask.user = Idle.user /\ ask.on = Idle.on /\ ask.prev = Idle.prev
          /\ ask.next = Idle.next /\ ask.answer = Idle.answer /\ ask.filter = f
      BY <3>1, IdleOK DEF Fields
    <3>3. ask.on \in BOOLEAN /\ ask.prev = FALSE
      BY <3>2, IdleOK
    <3>4. "logs" \in DOMAIN Permission
      BY DEF Permission
    <3> QED BY <3>2, <3>3, <3>4, IdleOK
  <2> QED BY <2>1, <2>2, <2>3 DEF Requests
<1>2. PICK y : y = [ask EXCEPT !.user = u]
  OBVIOUS
<1>3. /\ DOMAIN y = Fields /\ y.op = ask.op /\ y.step = ask.step /\ y.user = u
      /\ y.on = ask.on /\ y.prev = ask.prev /\ y.next = ask.next /\ y.answer = ask.answer
      /\ y.filter = ask.filter
  BY <1>1, <1>2 DEF Fields
<1>4. y.op # "idle"
  BY <1>1, <1>3 DEF Permission
<1>5. RequestOK(y)
  BY <1>1, <1>3, <1>4 DEF RequestOK, RequestSteps, Answers
<1> QED BY <1>1, <1>2, <1>3, <1>5

\* A new request.
Admitted(p) == \E y : Set(p, y) /\ Follows(y, reqs[p])

LEMMA AdmittedRequest ==
    ASSUME RequestsOK, NEW p \in Procs, RequirePermission(p)
    PROVE  /\ Admitted(p) /\ ~IsActive(reqs[p]) /\ started < MaxRequests
           /\ started' = started + 1
<1>1. PICK ask \in Requests, u \in Users \cup {0}, role \in Roles :
          LET req == [ask EXCEPT !.user = u]
          IN  /\ NewRequest(p, req)
              /\ Set(p, IF Permission[req.op] \in Permissions(role) THEN At(req, "permitted")
                        ELSE Answered(req, "forbidden"))
  BY DEF RequirePermission
<1>2. PICK req : req = [ask EXCEPT !.user = u]
  OBVIOUS
<1>3. RequestOK(req) /\ req.op \in DOMAIN Permission /\ req.step = "idle"
  BY <1>2, AskedOK
<1>4. req.op # "idle" /\ ~IsChanging(req)
  BY <1>3 DEF Permission, IsChanging
<1>5. NewRequest(p, req)
  BY <1>1, <1>2
<1>6. Set(p, At(req, "permitted")) \/ Set(p, Answered(req, "forbidden"))
  BY <1>1, <1>2
<1>7. ~IsActive(reqs[p]) /\ ~IsChanging(reqs[p]) /\ started < MaxRequests /\ started' = started + 1
  BY <1>5 DEF NewRequest, Counts, IsActive, IsChanging
<1>8. PICK y : Set(p, y) /\ Follows(y, req)
  <2>1. Follows(At(req, "permitted"), req)
    BY <1>3, <1>4, AtFollows
  <2>2. "forbidden" \in Answers
    BY DEF Answers
  <2>3. Follows(Answered(req, "forbidden"), req)
    BY <1>3, <1>4, <2>2, BlankFollows
  <2> QED BY <1>6, <2>1, <2>3
<1>9. Follows(y, reqs[p])
  BY <1>4, <1>7, <1>8 DEF Follows
<1> QED BY <1>7, <1>8, <1>9 DEF Admitted

---------------------------------------------------------------------------
\* What a log tells of the setting, as a function of the log and the gaps.
BeforeIn(log, i) == {j \in 1..(i - 1) : log[j].action = "watermark"}
ToldIn(log, f, gs, i, on) ==
    \/ BeforeIn(log, i) = {} /\ on = f
    \/ \E j \in BeforeIn(log, i) : on = log[j].on /\ \A k \in BeforeIn(log, i) : k <= j
    \/ \E g \in gs : g < i /\ \A k \in BeforeIn(log, i) : k <= g
LEMMA ToldOfState ==
    ASSUME NEW i, NEW on
    PROVE  Told(i, on) <=> ToldIn(auditLog, first, gaps, i, on)
BY DEF Told, ToldIn, Before, BeforeIn

LEMMA ToldAppend ==
    ASSUME NEW S, NEW log \in Seq(S), NEW e \in S, NEW f, NEW gs, gs \subseteq Nat
    PROVE  /\ \A i \in 1..(Len(log) + 1) : \A on :
                 ToldIn(Append(log, e), f, gs, i, on) <=> ToldIn(log, f, gs, i, on)
           /\ e.action # "watermark" =>
                 \A on : ToldIn(log, f, gs, Len(log) + 1, on) =>
                         ToldIn(Append(log, e), f, gs, Len(log) + 2, on)
           /\ e.action = "watermark" => ToldIn(Append(log, e), f, gs, Len(log) + 2, e.on)
<1>1. PICK new : new = Append(log, e)
  OBVIOUS
<1>2. PICK n \in Nat : n = Len(log)
  OBVIOUS
<1>3. /\ \A j \in 1..n : new[j] = log[j]
      /\ new[n + 1] = e
  BY <1>1, <1>2
<1>4. ASSUME NEW i \in 1..(n + 1) PROVE BeforeIn(new, i) = BeforeIn(log, i) /\ BeforeIn(log, i) \subseteq 1..n
  BY <1>3 DEF BeforeIn
<1>5. ASSUME NEW i \in 1..(n + 1), NEW on
      PROVE  ToldIn(new, f, gs, i, on) <=> ToldIn(log, f, gs, i, on)
  <2>1. \A j \in BeforeIn(log, i) : new[j] = log[j]
    BY <1>3, <1>4
  <2> QED BY <1>4, <2>1, Zenon DEF ToldIn
<1>6. ASSUME e.action # "watermark", NEW on, ToldIn(log, f, gs, n + 1, on)
      PROVE  ToldIn(new, f, gs, n + 2, on)
  <2>1. BeforeIn(new, n + 2) = BeforeIn(log, n + 1) /\ BeforeIn(log, n + 1) \subseteq 1..n
    BY <1>3, <1>6 DEF BeforeIn
  <2>2. \A j \in BeforeIn(log, n + 1) : new[j] = log[j]
    BY <1>3, <2>1
  <2>3. \A g \in gs : g < n + 1 => g < n + 2
    OBVIOUS
  <2> QED BY <1>6, <2>1, <2>2, <2>3, Zenon DEF ToldIn
<1>7. ASSUME e.action = "watermark" PROVE ToldIn(new, f, gs, n + 2, e.on)
  <2>1. n + 1 \in BeforeIn(new, n + 2) /\ \A k \in BeforeIn(new, n + 2) : k <= n + 1
    BY <1>3, <1>7 DEF BeforeIn
  <2> QED BY <1>3, <2>1, Zenon DEF ToldIn
<1> QED BY <1>1, <1>2, <1>5, <1>6, <1>7

LEMMA ToldEmpty ==
    ASSUME NEW f, NEW gs
    PROVE  ToldIn(<< >>, f, gs, 1, f)
BY DEF ToldIn, BeforeIn

\* A gap takes nothing away from what the log tells, and after it the log
\* tells nothing.
LEMMA ToldGap ==
    ASSUME NEW S, NEW log \in Seq(S), NEW f, NEW gs, NEW gs2, gs2 = gs \cup {Len(log)}
    PROVE  /\ \A i, on : ToldIn(log, f, gs, i, on) => ToldIn(log, f, gs2, i, on)
           /\ \A on : ToldIn(log, f, gs2, Len(log) + 1, on)
<1>1. \A i, on : ToldIn(log, f, gs, i, on) => ToldIn(log, f, gs2, i, on)
  BY Zenon DEF ToldIn
<1>2. PICK n \in Nat : n = Len(log)
  OBVIOUS
<1>3. n \in gs2 /\ n < n + 1 /\ \A k \in BeforeIn(log, n + 1) : k <= n
  BY <1>2 DEF BeforeIn
<1>4. \A on : ToldIn(log, f, gs2, n + 1, on)
  BY <1>3, Zenon DEF ToldIn
<1> QED BY <1>1, <1>2, <1>4

IsSetting(r) == r.op = "watermark" /\ r.step = "set"

\* The requests rs, the log, what the setting was at first and what it is:
\* one change at a time, whose old value is the one the log tells.
LogOK(rs, log, f, gs, on) ==
    /\ \A p, q \in Procs : IsChanging(rs[p]) /\ IsChanging(rs[q]) => p = q
    /\ \A p \in Procs : IsChanging(rs[p]) =>
           rs[p].on = on /\ ToldIn(log, f, gs, Len(log) + 1, rs[p].prev)
    /\ \A p \in Procs : IsSetting(rs[p]) => rs[p].prev = on
    /\ \A i \in 1..Len(log) : log[i].action = "watermark" => ToldIn(log, f, gs, i, log[i].prev)
    /\ (\A p \in Procs : ~IsChanging(rs[p])) => ToldIn(log, f, gs, Len(log) + 1, on)

\* The requests rs2 are at the same places of a change as rs.
Kin(rs2, rs, on) ==
    \A q \in Procs :
        /\ IsChanging(rs[q]) => IsChanging(rs2[q])
        /\ IsChanging(rs2[q]) =>
              IsChanging(rs[q]) /\ rs2[q].on = rs[q].on /\ rs2[q].prev = rs[q].prev
        /\ IsSetting(rs2[q]) => rs2[q].prev = on

LEMMA LogKin ==
    ASSUME NEW rs, NEW rs2, NEW log, NEW f, NEW gs, NEW on, LogOK(rs, log, f, gs, on),
           Kin(rs2, rs, on)
    PROVE  LogOK(rs2, log, f, gs, on)
BY Zenon DEF LogOK, Kin

\* A part of LogOK that an event does not change.
LEMMA LogPrefix ==
    ASSUME NEW log \in Seq(Events), NEW e \in Events, NEW f, NEW gs, gs \subseteq Nat,
           \A i \in 1..Len(log) : log[i].action = "watermark" => ToldIn(log, f, gs, i, log[i].prev),
           e.action = "watermark" => ToldIn(log, f, gs, Len(log) + 1, e.prev)
    PROVE  LET new == Append(log, e)
           IN  /\ Len(new) = Len(log) + 1
               /\ \A i \in 1..Len(new) :
                     new[i].action = "watermark" => ToldIn(new, f, gs, i, new[i].prev)
<1>1. PICK new : new = Append(log, e)
  OBVIOUS
<1>2. PICK n \in Nat : n = Len(log)
  OBVIOUS
<1>3. Len(new) = n + 1 /\ new[n + 1] = e /\ \A j \in 1..n : new[j] = log[j]
  BY <1>1, <1>2
<1>4. \A i \in 1..(n + 1) : \A on : ToldIn(new, f, gs, i, on) <=> ToldIn(log, f, gs, i, on)
  BY <1>1, <1>2, ToldAppend
<1>5. ASSUME NEW i \in 1..(n + 1), new[i].action = "watermark" PROVE ToldIn(new, f, gs, i, new[i].prev)
  <2>1. CASE i \in 1..n
    BY <1>2, <1>3, <1>4, <1>5, <2>1
  <2>2. CASE i = n + 1
    BY <1>2, <1>3, <1>4, <1>5, <2>2
  <2> QED BY <2>1, <2>2
<1> QED BY <1>1, <1>2, <1>3, <1>5

LEMMA LogKinAppend ==
    ASSUME NEW rs, NEW rs2, NEW log \in Seq(Events), NEW e \in Events, NEW f, NEW gs,
           gs \subseteq Nat, NEW on,
           LogOK(rs, log, f, gs, on), Kin(rs2, rs, on), e.action # "watermark"
    PROVE  LogOK(rs2, Append(log, e), f, gs, on)
<1>1. LogOK(rs2, log, f, gs, on)
  BY LogKin
<1>2. PICK new : new = Append(log, e)
  OBVIOUS
<1>3. PICK n \in Nat : n = Len(log)
  OBVIOUS
<1>4. /\ Len(new) = n + 1
      /\ \A i \in 1..Len(new) : new[i].action = "watermark" => ToldIn(new, f, gs, i, new[i].prev)
  BY <1>1, <1>2, <1>3, LogPrefix DEF LogOK
<1>5. \A x : ToldIn(log, f, gs, n + 1, x) => ToldIn(new, f, gs, n + 2, x)
  BY <1>2, <1>3, ToldAppend
<1>6. Len(new) + 1 = n + 2
  BY <1>4
<1>7. LogOK(rs2, new, f, gs, on)
  BY <1>1, <1>3, <1>4, <1>5, <1>6, Zenon DEF LogOK
<1> QED BY <1>2, <1>7

\* The event of the only change.
LEMMA LogAudit ==
    ASSUME NEW rs, NEW rs2, NEW log \in Seq(Events), NEW e \in Events, NEW f, NEW gs,
           gs \subseteq Nat, NEW on,
           LogOK(rs, log, f, gs, on), NEW p \in Procs, IsChanging(rs[p]),
           e.action = "watermark", e.prev = rs[p].prev, e.on = rs[p].on,
           \A q \in Procs : ~IsChanging(rs2[q]),
           \A q \in Procs : IsSetting(rs2[q]) => rs2[q].prev = on
    PROVE  LogOK(rs2, Append(log, e), f, gs, on)
<1>2. PICK new : new = Append(log, e)
  OBVIOUS
<1>3. PICK n \in Nat : n = Len(log)
  OBVIOUS
<1>4. rs[p].on = on /\ ToldIn(log, f, gs, n + 1, rs[p].prev)
  BY <1>3, Zenon DEF LogOK
<1>5. e.on = on /\ ToldIn(log, f, gs, n + 1, e.prev)
  BY <1>4, Zenon
<1>6. /\ Len(new) = n + 1
      /\ \A i \in 1..Len(new) : new[i].action = "watermark" => ToldIn(new, f, gs, i, new[i].prev)
  BY <1>2, <1>3, <1>5, LogPrefix DEF LogOK
<1>7. ToldIn(new, f, gs, n + 2, e.on)
  BY <1>2, <1>3, ToldAppend
<1>8. Len(new) + 1 = n + 2
  BY <1>6
<1>9. ToldIn(new, f, gs, Len(new) + 1, on)
  BY <1>5, <1>7, <1>8, Zenon
<1>10. LogOK(rs2, new, f, gs, on)
  BY <1>6, <1>9, Zenon DEF LogOK
<1> QED BY <1>2, <1>10

\* The event was recorded, an error was answered, and the change goes back.
LEMMA LogAuditLost ==
    ASSUME NEW rs, NEW rs2, NEW log \in Seq(Events), NEW e \in Events, NEW f, NEW gs,
           gs \subseteq Nat, NEW on,
           LogOK(rs, log, f, gs, on), NEW p \in Procs, IsChanging(rs[p]),
           e.prev = rs[p].prev, Kin(rs2, rs, on)
    PROVE  LogOK(rs2, Append(log, e), f, gs \cup {Len(Append(log, e))}, on)
<1>1. PICK new : new = Append(log, e)
  OBVIOUS
<1>2. PICK gs2 : gs2 = gs \cup {Len(new)}
  OBVIOUS
<1>3. ToldIn(log, f, gs, Len(log) + 1, e.prev)
  BY Zenon DEF LogOK
<1>4. \A i \in 1..Len(new) : new[i].action = "watermark" => ToldIn(new, f, gs, i, new[i].prev)
  BY <1>1, <1>3, LogPrefix DEF LogOK
<1>5. /\ \A i, x : ToldIn(new, f, gs, i, x) => ToldIn(new, f, gs2, i, x)
      /\ \A x : ToldIn(new, f, gs2, Len(new) + 1, x)
  <2>1. new \in Seq(Events)
    BY <1>1
  <2> QED BY <1>2, <2>1, ToldGap
<1>6. LogOK(rs2, new, f, gs2, on)
  BY <1>4, <1>5, Zenon DEF LogOK, Kin
<1> QED BY <1>1, <1>2, <1>6

\* Nobody is at a change any more, and the log and the setting are apart.
LEMMA LogApart ==
    ASSUME NEW rs, NEW rs2, NEW log \in Seq(Events), NEW f, NEW gs, NEW on, NEW new,
           LogOK(rs, log, f, gs, on),
           \A q \in Procs : ~IsChanging(rs2[q]) /\ ~IsSetting(rs2[q])
    PROVE  LogOK(rs2, log, f, gs \cup {Len(log)}, new)
<1>1. PICK gs2 : gs2 = gs \cup {Len(log)}
  OBVIOUS
<1>2. /\ \A i, x : ToldIn(log, f, gs, i, x) => ToldIn(log, f, gs2, i, x)
      /\ \A x : ToldIn(log, f, gs2, Len(log) + 1, x)
  BY <1>1, ToldGap
<1>3. LogOK(rs2, log, f, gs2, new)
  BY <1>2, Zenon DEF LogOK
<1> QED BY <1>1, <1>3

\* Nobody else is at a change: what p stores.
Alone(rs, p) == \A q \in Procs \ {p} : ~IsChanging(rs[q]) /\ ~IsSetting(rs[q])
LEMMA LogWrite ==
    ASSUME NEW rs, NEW rs2, NEW log, NEW f, NEW gs, NEW on, NEW p \in Procs,
           LogOK(rs, log, f, gs, on), Alone(rs, p), Alone(rs2, p), IsSetting(rs[p]),
           IsChanging(rs2[p]), rs2[p].on = rs[p].on, rs2[p].prev = rs[p].prev
    PROVE  LogOK(rs2, log, f, gs, rs[p].on)
<1>1. \A q \in Procs : ~IsChanging(rs[q])
  BY DEF Alone, IsSetting, IsChanging
<1>2. ToldIn(log, f, gs, Len(log) + 1, on) /\ rs[p].prev = on
  BY <1>1, Zenon DEF LogOK
<1>3. ToldIn(log, f, gs, Len(log) + 1, rs2[p].prev)
  BY <1>2, Zenon
<1>4. ~IsSetting(rs2[p])
  BY DEF IsSetting, IsChanging
<1>5. \A q \in Procs : (IsChanging(rs2[q]) => q = p) /\ ~IsSetting(rs2[q])
  BY <1>4, Zenon DEF Alone
<1> QED BY <1>3, <1>5, Zenon DEF LogOK

LEMMA LogBack ==
    ASSUME NEW rs, NEW rs2, NEW log, NEW f, NEW gs, NEW on, NEW p \in Procs,
           LogOK(rs, log, f, gs, on), Alone(rs2, p), IsChanging(rs[p]), rs2[p].op # "watermark"
    PROVE  LogOK(rs2, log, f, gs, rs[p].prev)
<1>1. ToldIn(log, f, gs, Len(log) + 1, rs[p].prev)
  BY Zenon DEF LogOK
<1>2. \A q \in Procs : ~IsChanging(rs2[q]) /\ ~IsSetting(rs2[q])
  BY Zenon DEF Alone, IsSetting, IsChanging
<1> QED BY <1>1, <1>2, Zenon DEF LogOK

---------------------------------------------------------------------------
\* Every event and every request that may still record one was counted.
Active(rs) == {p \in Procs : IsActive(rs[p])}
CountOK(rs, log, k) == Len(log) + Cardinality(Active(rs)) <= k

LEMMA ActiveFinite ==
    ASSUME NEW rs
    PROVE  IsFiniteSet(Active(rs)) /\ Cardinality(Active(rs)) \in Nat
<1>1. IsFiniteSet(Procs) /\ Active(rs) \subseteq Procs
  BY SettingsAssumption DEF Active
<1> QED BY <1>1, FS_Subset, FS_CardinalityType

LEMMA ActiveLess ==
    ASSUME NEW rs, NEW rs2, Active(rs2) \subseteq Active(rs)
    PROVE  Cardinality(Active(rs2)) <= Cardinality(Active(rs))
BY ActiveFinite, FS_Subset

LEMMA ActiveAudit ==
    ASSUME NEW rs, NEW rs2, NEW p \in Active(rs), Active(rs2) \subseteq Active(rs) \ {p}
    PROVE  Cardinality(Active(rs2)) + 1 <= Cardinality(Active(rs))
<1>1. p \notin Active(rs2) /\ Active(rs2) \cup {p} \subseteq Active(rs)
  OBVIOUS
<1>2. Cardinality(Active(rs2) \cup {p}) = Cardinality(Active(rs2)) + 1
  BY <1>1, ActiveFinite, FS_AddElement
<1>3. Cardinality(Active(rs2) \cup {p}) <= Cardinality(Active(rs))
  BY <1>1, ActiveFinite, FS_Subset
<1> QED BY <1>2, <1>3

LEMMA ActiveMore ==
    ASSUME NEW rs, NEW rs2, NEW p, p \notin Active(rs), Active(rs2) \subseteq Active(rs) \cup {p}
    PROVE  Cardinality(Active(rs2)) <= Cardinality(Active(rs)) + 1
<1>1. /\ Cardinality(Active(rs) \cup {p}) = Cardinality(Active(rs)) + 1
      /\ IsFiniteSet(Active(rs) \cup {p})
  BY ActiveFinite, FS_AddElement
<1>2. Cardinality(Active(rs2)) <= Cardinality(Active(rs) \cup {p})
  BY <1>1, FS_Subset
<1> QED BY <1>1, <1>2

LogPart == ~disturbed => LogOK(reqs, auditLog, first, gaps, WatermarkEnabled)
PagePart == \A p \in Procs : PageOK(reqs[p], auditLog)
SettingsInv ==
    /\ SettingsTypes
    /\ LogPart
    /\ CountOK(reqs, auditLog, started)
    /\ PagePart

LEMMA Numbers ==
    ASSUME SettingsTypes
    PROVE  /\ Len(auditLog) \in Nat /\ started \in Nat /\ started <= MaxRequests
           /\ day \in Nat /\ day <= MaxDays /\ MaxDays \in Nat /\ MaxRequests \in Nat
           /\ auditLog \in Seq(Events) /\ gaps \subseteq Nat
<1>1. MaxRequests \in Nat /\ MaxDays \in Nat
  BY SettingsAssumption
<1>2. started \in 0..MaxRequests /\ day \in 1..MaxDays /\ auditLog \in Seq(Events)
  BY Zenon DEF SettingsTypes, SettingsTypeOK
<1>3. Len(auditLog) \in Nat
  BY <1>2
<1>4. gaps \subseteq 0..Len(auditLog)
  BY Zenon DEF SettingsTypes, SettingsTypeOK
<1> QED BY <1>1, <1>2, <1>3, <1>4

LEMMA SettingsInitInv == SettingsInit => SettingsInv
<1> SUFFICES ASSUME SettingsInit PROVE SettingsInv
  OBVIOUS
<1>1. SettingsTypes
  BY SettingsInitTypes
<1>2. /\ auditLog = << >> /\ started = 0 /\ first = WatermarkEnabled
      /\ reqs = [p \in Procs |-> Idle]
  BY Zenon DEF SettingsInit
<1>3. /\ ~IsChanging(Idle) /\ ~IsSetting(Idle) /\ ~IsActive(Idle)
      /\ PageOK(Idle, << >>)
  BY IdleOK DEF IsChanging, IsSetting, IsActive, PageOK
<1>4. \A p \in Procs : reqs[p] = Idle
  BY <1>2
<1>5. PagePart
  BY <1>2, <1>3, <1>4 DEF PagePart
<1>6. LogPart
  <2>1. Len(auditLog) = 0
    BY <1>2
  <2>2. Len(auditLog) + 1 = 1 /\ 1..Len(auditLog) = {}
    BY <2>1
  <2>3. ToldIn(auditLog, first, gaps, 1, WatermarkEnabled)
    BY <1>2, ToldEmpty, Zenon
  <2>4. \A p \in Procs : ~IsChanging(reqs[p]) /\ ~IsSetting(reqs[p])
    BY <1>3, <1>4
  <2> QED BY <2>2, <2>3, <2>4, Zenon DEF LogPart, LogOK
<1>7. CountOK(reqs, auditLog, started)
  <2>1. Active(reqs) = {}
    BY <1>3, <1>4 DEF Active
  <2>2. Cardinality(Active(reqs)) = 0
    BY <2>1, FS_EmptySet
  <2>3. Len(auditLog) = 0
    BY <1>2
  <2> QED BY <1>2, <2>2, <2>3 DEF CountOK
<1> QED BY <1>1, <1>5, <1>6, <1>7 DEF SettingsInv

\* A request changes and nothing that the invariant speaks of is written.
LEMMA FollowKeeps ==
    ASSUME SettingsInv, NEW p \in Procs, NEW y, Set(p, y), Follows(y, reqs[p]),
           UNCHANGED <<mark, auditLog, first, gaps, disturbed>>
    PROVE  /\ RequestsOK' /\ reqs'[p] = y /\ \A q \in Procs \ {p} : reqs'[q] = reqs[q]
           /\ LogPart' /\ PagePart'
<1>1. RequestOK(y) /\ RequestsOK
  BY DEF Follows, SettingsInv, SettingsTypes
<1>2. RequestsOK' /\ reqs'[p] = y /\ \A q \in Procs \ {p} : reqs'[q] = reqs[q]
  BY <1>1, SetKeeps
<1>3. PICK on : on = WatermarkEnabled
  OBVIOUS
<1>4. on = WatermarkEnabled'
  BY <1>3, Zenon DEF WatermarkEnabled, NormalizeWatermark
<1>5. LogPart'
  <2>1. SUFFICES ASSUME ~disturbed PROVE LogOK(reqs', auditLog, first, gaps, on)
    BY <1>4, Zenon DEF LogPart
  <2>2. LogOK(reqs, auditLog, first, gaps, on)
    BY <1>3, <2>1, Zenon DEF SettingsInv, LogPart
  <2>3. Kin(reqs', reqs, on)
    <3>1. \A q \in Procs : IsSetting(reqs[q]) => reqs[q].prev = on
      BY <2>2, Zenon DEF LogOK
    <3>2. /\ IsChanging(reqs[p]) => IsChanging(y)
          /\ IsChanging(y) => IsChanging(reqs[p]) /\ y.on = reqs[p].on /\ y.prev = reqs[p].prev
          /\ IsSetting(y) => y.prev = on
      BY <1>3, Zenon DEF Follows, IsSetting
    <3> QED BY <1>2, <3>1, <3>2, Zenon DEF Kin
  <2> QED BY <2>2, <2>3, LogKin
<1>6. PagePart'
  BY <1>2, Zenon DEF PagePart, Follows, SettingsInv
<1> QED BY <1>2, <1>5, <1>6

LEMMA SilentKeeps ==
    ASSUME SettingsInv, NEW p \in Procs, Silent(p),
           UNCHANGED <<mark, auditLog, first, gaps, disturbed, started>>
    PROVE  RequestsOK' /\ LogPart' /\ PagePart' /\ CountOK(reqs', auditLog', started')
<1>1. PICK y : Set(p, y) /\ Follows(y, reqs[p]) /\ (IsActive(y) => IsActive(reqs[p]))
  BY DEF Silent
<1>2. /\ RequestsOK' /\ reqs'[p] = y /\ \A q \in Procs \ {p} : reqs'[q] = reqs[q]
      /\ LogPart' /\ PagePart'
  BY <1>1, FollowKeeps
<1>3. Active(reqs') \subseteq Active(reqs)
  BY <1>1, <1>2 DEF Active
<1>4. Cardinality(Active(reqs')) <= Cardinality(Active(reqs))
  BY <1>3, ActiveLess
<1>5. Cardinality(Active(reqs')) \in Nat /\ Cardinality(Active(reqs)) \in Nat
  BY ActiveFinite
<1>6. Len(auditLog) + Cardinality(Active(reqs)) <= started
  BY DEF SettingsInv, CountOK
<1>7. Len(auditLog) \in Nat /\ started \in Nat
  BY Numbers DEF SettingsInv
<1>8. CountOK(reqs', auditLog, started)
  BY <1>4, <1>5, <1>6, <1>7 DEF CountOK
<1> QED BY <1>2, <1>8

LEMMA AdmittedKeeps ==
    ASSUME SettingsInv, NEW p \in Procs, RequirePermission(p)
    PROVE  RequestsOK' /\ LogPart' /\ PagePart' /\ CountOK(reqs', auditLog', started')
<1>1. /\ Admitted(p) /\ ~IsActive(reqs[p]) /\ started' = started + 1
  BY AdmittedRequest DEF SettingsInv, SettingsTypes
<1>2. PICK y : Set(p, y) /\ Follows(y, reqs[p])
  BY <1>1 DEF Admitted
<1>3. UNCHANGED <<mark, auditLog, first, gaps, disturbed>>
  BY DEF RequirePermission, deployment
<1>4. /\ RequestsOK' /\ reqs'[p] = y /\ \A q \in Procs \ {p} : reqs'[q] = reqs[q]
      /\ LogPart' /\ PagePart'
  BY <1>2, <1>3, FollowKeeps
<1>5. Active(reqs') \subseteq Active(reqs) \cup {p} /\ p \notin Active(reqs)
  BY <1>1, <1>4 DEF Active
<1>6. Cardinality(Active(reqs')) <= Cardinality(Active(reqs)) + 1
  BY <1>5, ActiveMore
<1>7. Cardinality(Active(reqs')) \in Nat /\ Cardinality(Active(reqs)) \in Nat
  BY ActiveFinite
<1>8. Len(auditLog) + Cardinality(Active(reqs)) <= started
  BY DEF SettingsInv, CountOK
<1>9. Len(auditLog) \in Nat /\ started \in Nat
  BY Numbers DEF SettingsInv
<1>10. Len(auditLog) + Cardinality(Active(reqs')) <= started + 1
  BY <1>6, <1>7, <1>8, <1>9
<1>11. CountOK(reqs', auditLog', started')
  BY <1>1, <1>3, <1>10 DEF CountOK
<1> QED BY <1>4, <1>11

\* After an event no query is calm.
LEMMA EventPages ==
    ASSUME NEW rs, NEW log, \A q \in Procs : rs[q].calm = FALSE \/ rs[q].op # "logs"
    PROVE  \A q \in Procs : PageOK(rs[q], log)
BY Zenon DEF PageOK

\* The audit of a request is recorded, whatever the request is answered.
LEMMA AuditKeeps ==
    ASSUME SettingsInv, NEW p \in Procs, reqs[p].step = "audit",
           NEW answer \in {"ok", "unavailable"},
           Record(p, Answered(reqs[p], answer), Event(reqs[p], reqs[p].op, "success", reqs[p].user)),
           UNCHANGED <<mark, first, gaps, disturbed, started>>
    PROVE  /\ RequestsOK' /\ LogPart' /\ PagePart' /\ CountOK(reqs', auditLog', started')
           /\ \E e \in Events : /\ auditLog' = Append(auditLog, e)
                                /\ e.result \in Results /\ e.user \in Users \cup {0} /\ e.day = day
<1>0. SettingsTypes /\ RequestsOK
  BY DEF SettingsInv, SettingsTypes
<1>1. PICK r : r = reqs[p]
  OBVIOUS
<1>2. RequestOK(r) /\ r.step = "audit"
  BY <1>0, <1>1 DEF RequestsOK
<1>3. /\ IsActive(r) /\ r.op \in {"watermark", "view", "export", "screenshot"}
      /\ r.user \in Users \cup {0}
  BY <1>2 DEF IsActive, RequestOK
<1>4. PICK e : e = Event(r, r.op, "success", r.user)
  OBVIOUS
<1>5. r.op \in Actions /\ "success" \in Results
  <2>1. r.op \in Actions
    BY <1>3 DEF Actions
  <2>2. "success" \in Results
    BY DEF Results
  <2> QED BY <2>1, <2>2
<1>6. /\ e \in Events /\ e.action = r.op /\ e.result = "success" /\ e.user = r.user
      /\ e.prev = r.prev /\ e.on = r.on /\ e.day = day
  BY <1>0, <1>2, <1>3, <1>4, <1>5, EventOK
<1>7. PICK y : y = Answered(r, answer)
  OBVIOUS
<1>8. RequestOK(y) /\ BlankAnswer(y, answer)
  <2>1. answer \in Answers /\ r.op # "logs"
    BY <1>3 DEF Answers
  <2> QED BY <1>2, <1>7, <2>1, AnsweredOK, AnsweredBlank
<1>9. y.op = "idle" /\ y.step = "done"
  BY <1>8 DEF BlankAnswer
<1>10. /\ RequestsOK' /\ reqs'[p] = y /\ auditLog' = Append(auditLog, e)
       /\ \A q \in Procs \ {p} : reqs'[q].calm = FALSE /\ SameBut(reqs'[q], reqs[q])
  BY <1>0, <1>1, <1>4, <1>7, <1>8, RecordKeeps
<1>11. ASSUME NEW q \in Procs \ {p}
       PROVE  /\ IsChanging(reqs'[q]) <=> IsChanging(reqs[q])
              /\ IsSetting(reqs'[q]) <=> IsSetting(reqs[q])
              /\ IsActive(reqs'[q]) <=> IsActive(reqs[q])
              /\ reqs'[q].on = reqs[q].on /\ reqs'[q].prev = reqs[q].prev
  <2>1. /\ reqs'[q].op = reqs[q].op /\ reqs'[q].step = reqs[q].step
        /\ reqs'[q].on = reqs[q].on /\ reqs'[q].prev = reqs[q].prev
    BY <1>10, Zenon DEF SameBut
  <2> QED BY <2>1, Zenon DEF IsChanging, IsSetting, IsActive
<1>12. ~IsChanging(reqs'[p]) /\ ~IsSetting(reqs'[p]) /\ ~IsActive(reqs'[p])
  BY <1>9, <1>10 DEF IsChanging, IsSetting, IsActive
<1>13. PagePart'
  <2>1. \A q \in Procs : reqs'[q].calm = FALSE \/ reqs'[q].op # "logs"
    BY <1>9, <1>10
  <2> QED BY <2>1, EventPages DEF PagePart
<1>14. CountOK(reqs', auditLog', started')
  <2>1. p \in Active(reqs) /\ Active(reqs') \subseteq Active(reqs) \ {p}
    BY <1>1, <1>3, <1>11, <1>12, Zenon DEF Active
  <2>2. Cardinality(Active(reqs')) + 1 <= Cardinality(Active(reqs))
    BY <2>1, ActiveAudit
  <2>3. Cardinality(Active(reqs')) \in Nat /\ Cardinality(Active(reqs)) \in Nat
    BY ActiveFinite
  <2>4. Len(auditLog) + Cardinality(Active(reqs)) <= started
    BY DEF SettingsInv, CountOK
  <2>5. Len(auditLog') = Len(auditLog) + 1
    BY <1>0, <1>6, <1>10, Numbers
  <2>6. Len(auditLog) \in Nat /\ started \in Nat
    BY <1>0, Numbers
  <2> QED BY <2>2, <2>3, <2>4, <2>5, <2>6 DEF CountOK
<1>15. LogPart'
  <2>1. PICK on : on = WatermarkEnabled
    OBVIOUS
  <2>2. on = WatermarkEnabled'
    BY <2>1, Zenon DEF WatermarkEnabled, NormalizeWatermark
  <2>3. SUFFICES ASSUME ~disturbed PROVE LogOK(reqs', Append(auditLog, e), first, gaps, on)
    BY <1>10, <2>2, Zenon DEF LogPart
  <2>4. LogOK(reqs, auditLog, first, gaps, on)
    BY <2>1, <2>3, Zenon DEF SettingsInv, LogPart
  <2>5. \A q \in Procs : IsSetting(reqs'[q]) => reqs'[q].prev = on
    <3>1. \A q \in Procs : IsSetting(reqs[q]) => reqs[q].prev = on
      BY <2>4, Zenon DEF LogOK
    <3> QED BY <1>11, <1>12, <3>1, Zenon
  <2>6. auditLog \in Seq(Events) /\ gaps \subseteq Nat
    BY <1>0, Numbers
  <2>7. CASE r.op = "watermark"
    <3>1. IsChanging(reqs[p])
      BY <1>1, <1>2, <2>7 DEF IsChanging
    <3>2. \A q \in Procs : ~IsChanging(reqs'[q])
      <4>1. \A q \in Procs : IsChanging(reqs[q]) => q = p
        BY <2>4, <3>1, Zenon DEF LogOK
      <4> QED BY <1>11, <1>12, <4>1, Zenon
    <3>3. e.action = "watermark" /\ e.prev = reqs[p].prev /\ e.on = reqs[p].on
      BY <1>1, <1>6, <2>7
    <3> QED BY <1>6, <2>4, <2>5, <2>6, <3>1, <3>2, <3>3, LogAudit
  <2>8. CASE r.op # "watermark"
    <3>1. ~IsChanging(reqs[p]) /\ e.action # "watermark"
      BY <1>1, <1>6, <2>8 DEF IsChanging
    <3>2. Kin(reqs', reqs, on)
      BY <1>11, <1>12, <2>5, <3>1, Zenon DEF Kin
    <3> QED BY <1>6, <2>4, <2>6, <3>1, <3>2, LogKinAppend
  <2> QED BY <2>7, <2>8
<1>16. \E x \in Events : /\ auditLog' = Append(auditLog, x)
                         /\ x.result \in Results /\ x.user \in Users \cup {0} /\ x.day = day
  BY <1>3, <1>5, <1>6, <1>10
<1> QED BY <1>10, <1>13, <1>14, <1>15, <1>16

\* The audit of a change is recorded although an error is answered.
LEMMA AuditLostKeeps ==
    ASSUME SettingsInv, NEW p \in Procs, reqs[p].step = "audit", reqs[p].op = "watermark",
           Record(p, At(reqs[p], "rollback"),
                  Event(reqs[p], reqs[p].op, "success", reqs[p].user)),
           gaps' = gaps \cup {Len(auditLog')}, UNCHANGED <<mark, first, disturbed, started>>
    PROVE  /\ RequestsOK' /\ LogPart' /\ PagePart' /\ CountOK(reqs', auditLog', started')
           /\ \E e \in Events : /\ auditLog' = Append(auditLog, e)
                                /\ e.result \in Results /\ e.user \in Users \cup {0} /\ e.day = day
<1>0. SettingsTypes /\ RequestsOK
  BY DEF SettingsInv, SettingsTypes
<1>1. PICK r : r = reqs[p]
  OBVIOUS
<1>2. RequestOK(r) /\ r.step = "audit" /\ r.op = "watermark"
  BY <1>0, <1>1 DEF RequestsOK
<1>3. IsActive(r) /\ IsChanging(r) /\ r.user \in Users \cup {0}
  BY <1>2 DEF IsActive, IsChanging, RequestOK
<1>4. PICK e : e = Event(r, r.op, "success", r.user)
  OBVIOUS
<1>5. r.op \in Actions /\ "success" \in Results
  BY <1>2 DEF Actions, Results
<1>6. /\ e \in Events /\ e.action = r.op /\ e.result = "success" /\ e.user = r.user
      /\ e.prev = r.prev /\ e.on = r.on /\ e.day = day
  BY <1>0, <1>2, <1>3, <1>4, <1>5, EventOK
<1>7. PICK y : y = At(r, "rollback")
  OBVIOUS
<1>8. RequestOK(y) /\ Moved(y, r, "rollback")
  BY <1>2, <1>7, AtOK DEF RequestSteps
<1>9. y.op = "watermark" /\ y.step = "rollback" /\ y.on = r.on /\ y.prev = r.prev
  BY <1>2, <1>8 DEF Moved
<1>10. /\ RequestsOK' /\ reqs'[p] = y /\ auditLog' = Append(auditLog, e)
       /\ \A q \in Procs \ {p} : reqs'[q].calm = FALSE /\ SameBut(reqs'[q], reqs[q])
  BY <1>0, <1>1, <1>4, <1>7, <1>8, RecordKeeps
<1>11. ASSUME NEW q \in Procs \ {p}
       PROVE  /\ IsChanging(reqs'[q]) <=> IsChanging(reqs[q])
              /\ IsSetting(reqs'[q]) <=> IsSetting(reqs[q])
              /\ IsActive(reqs'[q]) <=> IsActive(reqs[q])
              /\ reqs'[q].on = reqs[q].on /\ reqs'[q].prev = reqs[q].prev
  <2>1. /\ reqs'[q].op = reqs[q].op /\ reqs'[q].step = reqs[q].step
        /\ reqs'[q].on = reqs[q].on /\ reqs'[q].prev = reqs[q].prev
    BY <1>10, Zenon DEF SameBut
  <2> QED BY <2>1, Zenon DEF IsChanging, IsSetting, IsActive
<1>12. IsChanging(reqs'[p]) /\ ~IsSetting(reqs'[p]) /\ ~IsActive(reqs'[p])
  BY <1>9, <1>10 DEF IsChanging, IsSetting, IsActive
<1>13. PagePart'
  <2>1. \A q \in Procs : reqs'[q].calm = FALSE \/ reqs'[q].op # "logs"
    BY <1>9, <1>10
  <2> QED BY <2>1, EventPages DEF PagePart
<1>14. CountOK(reqs', auditLog', started')
  <2>1. p \in Active(reqs) /\ Active(reqs') \subseteq Active(reqs) \ {p}
    BY <1>1, <1>3, <1>11, <1>12, Zenon DEF Active
  <2>2. Cardinality(Active(reqs')) + 1 <= Cardinality(Active(reqs))
    BY <2>1, ActiveAudit
  <2>3. Cardinality(Active(reqs')) \in Nat /\ Cardinality(Active(reqs)) \in Nat
    BY ActiveFinite
  <2>4. Len(auditLog) + Cardinality(Active(reqs)) <= started
    BY DEF SettingsInv, CountOK
  <2>5. Len(auditLog') = Len(auditLog) + 1
    BY <1>0, <1>6, <1>10, Numbers
  <2>6. Len(auditLog) \in Nat /\ started \in Nat
    BY <1>0, Numbers
  <2> QED BY <2>2, <2>3, <2>4, <2>5, <2>6 DEF CountOK
<1>15. LogPart'
  <2>1. PICK on : on = WatermarkEnabled
    OBVIOUS
  <2>2. on = WatermarkEnabled'
    BY <2>1, Zenon DEF WatermarkEnabled, NormalizeWatermark
  <2>3. SUFFICES ASSUME ~disturbed
                 PROVE  LogOK(reqs', Append(auditLog, e), first,
                              gaps \cup {Len(Append(auditLog, e))}, on)
    BY <1>10, <2>2, Zenon DEF LogPart
  <2>4. LogOK(reqs, auditLog, first, gaps, on)
    BY <2>1, <2>3, Zenon DEF SettingsInv, LogPart
  <2>5. Kin(reqs', reqs, on)
    <3>1. \A q \in Procs : IsSetting(reqs[q]) => reqs[q].prev = on
      BY <2>4, Zenon DEF LogOK
    <3>2. /\ IsChanging(reqs[p]) /\ reqs'[p].on = reqs[p].on /\ reqs'[p].prev = reqs[p].prev
      BY <1>1, <1>3, <1>9, <1>10
    <3> QED BY <1>11, <1>12, <3>1, <3>2, Zenon DEF Kin
  <2>6. auditLog \in Seq(Events) /\ gaps \subseteq Nat
    BY <1>0, Numbers
  <2>7. IsChanging(reqs[p]) /\ e.prev = reqs[p].prev
    BY <1>1, <1>3, <1>6
  <2> QED BY <1>6, <2>4, <2>5, <2>6, <2>7, LogAuditLost
<1>16. \E x \in Events : /\ auditLog' = Append(auditLog, x)
                         /\ x.result \in Results /\ x.user \in Users \cup {0} /\ x.day = day
  BY <1>3, <1>5, <1>6, <1>10
<1> QED BY <1>10, <1>13, <1>14, <1>15, <1>16

\* A login, a logout, a session that ended or a preparation is recorded.
LEMMA AuthKeeps ==
    ASSUME SettingsInv, NEW op \in Actions, op # "watermark", NEW u \in Users \cup {0},
           NEW result \in Results, AuthEvent(op, u, result)
    PROVE  /\ RequestsOK' /\ LogPart' /\ PagePart' /\ CountOK(reqs', auditLog', started')
           /\ \/ auditLog' = auditLog
              \/ \E e \in Events :
                    /\ auditLog' = Append(auditLog, e)
                    /\ e.result \in Results /\ e.user \in Users \cup {0} /\ e.day = day
<1>0. SettingsTypes /\ RequestsOK
  BY DEF SettingsInv, SettingsTypes
<1>1. started' = started + 1 /\ UNCHANGED <<mark, first, gaps, disturbed>>
  BY DEF AuthEvent, Counts, deployment
<1>2. Cardinality(Active(reqs)) \in Nat /\ Len(auditLog) \in Nat /\ started \in Nat
  BY <1>0, ActiveFinite, Numbers
<1>3. Len(auditLog) + Cardinality(Active(reqs)) <= started
  BY DEF SettingsInv, CountOK
<1>4. PICK on : on = WatermarkEnabled
  OBVIOUS
<1>5. on = WatermarkEnabled'
  BY <1>1, <1>4, Zenon DEF WatermarkEnabled, NormalizeWatermark
<1>6. CASE UNCHANGED <<auditLog, reqs>>
  <2>1. RequestsOK' /\ PagePart'
    BY <1>0, <1>6, Zenon DEF RequestsOK, PagePart, SettingsInv
  <2>2. LogPart'
    BY <1>1, <1>4, <1>5, <1>6, Zenon DEF LogPart, SettingsInv
  <2>3. Len(auditLog) + Cardinality(Active(reqs)) <= started + 1
    BY <1>2, <1>3
  <2>4. CountOK(reqs', auditLog', started')
    BY <1>1, <1>6, <2>3 DEF CountOK
  <2> QED BY <1>6, <2>1, <2>2, <2>4
<1>7. CASE /\ auditLog' = Append(auditLog, Event(Idle, op, result, u))
           /\ reqs' = Disturbed(reqs)
  <2>1. PICK e : e = Event(Idle, op, result, u)
    OBVIOUS
  <2>2. /\ e \in Events /\ e.action = op /\ e.result = result /\ e.user = u /\ e.day = day
    <3>1. RequestOK(Idle)
      BY IdleOK
    <3> QED BY <1>0, <2>1, <3>1, EventOK
  <2>3. auditLog' = Append(auditLog, e)
    BY <1>7, <2>1
  <2>4. /\ DOMAIN reqs' = Procs
        /\ \A q \in Procs : RequestOK(reqs'[q]) /\ reqs'[q].calm = FALSE /\ SameBut(reqs'[q], reqs[q])
    <3>1. \A q \in Procs : RequestOK(Disturbed(reqs)[q]) /\ Disturbed(reqs)[q].calm = FALSE
                           /\ SameBut(Disturbed(reqs)[q], reqs[q])
      BY <1>0, DisturbedFields
    <3>2. DOMAIN Disturbed(reqs) = Procs
      BY DEF Disturbed
    <3> QED BY <1>7, <3>1, <3>2
  <2>5. RequestsOK'
    BY <2>4 DEF RequestsOK
  <2>6. PagePart'
    BY <2>4, EventPages DEF PagePart
  <2>7. ASSUME NEW q \in Procs
        PROVE  /\ IsChanging(reqs'[q]) <=> IsChanging(reqs[q])
               /\ IsSetting(reqs'[q]) <=> IsSetting(reqs[q])
               /\ IsActive(reqs'[q]) <=> IsActive(reqs[q])
               /\ reqs'[q].on = reqs[q].on /\ reqs'[q].prev = reqs[q].prev
    <3>1. /\ reqs'[q].op = reqs[q].op /\ reqs'[q].step = reqs[q].step
          /\ reqs'[q].on = reqs[q].on /\ reqs'[q].prev = reqs[q].prev
      BY <2>4, Zenon DEF SameBut
    <3> QED BY <3>1, Zenon DEF IsChanging, IsSetting, IsActive
  <2>8. CountOK(reqs', auditLog', started')
    <3>1. Active(reqs') = Active(reqs)
      BY <2>7, Zenon DEF Active
    <3>2. Len(auditLog') = Len(auditLog) + 1
      BY <1>0, <2>2, <2>3, Numbers
    <3>3. Len(auditLog) + 1 + Cardinality(Active(reqs)) <= started + 1
      BY <1>2, <1>3
    <3> QED BY <1>1, <3>1, <3>2, <3>3 DEF CountOK
  <2>9. LogPart'
    <3>1. SUFFICES ASSUME ~disturbed PROVE LogOK(reqs', Append(auditLog, e), first, gaps, on)
      BY <1>1, <1>5, <2>3, Zenon DEF LogPart
    <3>2. LogOK(reqs, auditLog, first, gaps, on)
      BY <1>4, <3>1, Zenon DEF SettingsInv, LogPart
    <3>3. \A q \in Procs : IsSetting(reqs[q]) => reqs[q].prev = on
      BY <3>2, Zenon DEF LogOK
    <3>4. Kin(reqs', reqs, on)
      BY <2>7, <3>3, Zenon DEF Kin
    <3>5. auditLog \in Seq(Events) /\ e.action # "watermark" /\ gaps \subseteq Nat
      BY <1>0, <2>2, Numbers
    <3> QED BY <2>2, <3>2, <3>4, <3>5, LogKinAppend
  <2> QED BY <2>2, <2>3, <2>5, <2>6, <2>8, <2>9
<1> QED BY <1>6, <1>7, Zenon DEF AuthEvent

LEMMA StoredValue ==
    ASSUME NEW on \in BOOLEAN, mark' = Stored(on)
    PROVE  WatermarkEnabled' = on
<1>1. CASE on = TRUE
  <2>1. mark' = "true"
    BY <1>1 DEF Stored
  <2>2. "true" \notin {"false", "0", "off", "no"}
    OBVIOUS
  <2> QED BY <1>1, <2>1, <2>2, Zenon DEF WatermarkEnabled, NormalizeWatermark
<1>2. CASE on = FALSE
  <2>1. mark' = "false"
    BY <1>2 DEF Stored
  <2> QED BY <1>2, <2>1, Zenon DEF WatermarkEnabled, NormalizeWatermark
<1> QED BY <1>1, <1>2

LEMMA AloneUnlessOthers ==
    ASSUME RequestsOK, NEW p \in Procs, ~Others(p, "watermark")
    PROVE  Alone(reqs, p)
BY DEF Others, Alone, IsChanging, IsSetting

\* Requests other than p are as they were, and none of the log.
LEMMA OnlyOne ==
    ASSUME SettingsInv, NEW p \in Procs, NEW y, RequestOK(y), Set(p, y), y.op # "logs",
           IsActive(y) => IsActive(reqs[p]), UNCHANGED <<auditLog, started>>
    PROVE  /\ RequestsOK' /\ reqs'[p] = y /\ \A q \in Procs \ {p} : reqs'[q] = reqs[q]
           /\ PagePart' /\ CountOK(reqs', auditLog', started')
<1>0. SettingsTypes /\ RequestsOK
  BY DEF SettingsInv, SettingsTypes
<1>1. RequestsOK' /\ reqs'[p] = y /\ \A q \in Procs \ {p} : reqs'[q] = reqs[q]
  BY <1>0, SetKeeps
<1>2. PagePart'
  <2>1. PageOK(y, auditLog)
    BY DEF PageOK
  <2> QED BY <1>1, <2>1, Zenon DEF PagePart, SettingsInv
<1>3. Active(reqs') \subseteq Active(reqs)
  BY <1>1 DEF Active
<1>4. Cardinality(Active(reqs')) <= Cardinality(Active(reqs))
  BY <1>3, ActiveLess
<1>5. Cardinality(Active(reqs')) \in Nat /\ Cardinality(Active(reqs)) \in Nat
  BY ActiveFinite
<1>6. Len(auditLog) + Cardinality(Active(reqs)) <= started
  BY DEF SettingsInv, CountOK
<1>7. Len(auditLog) \in Nat /\ started \in Nat
  BY <1>0, Numbers
<1>8. CountOK(reqs', auditLog, started)
  BY <1>4, <1>5, <1>6, <1>7 DEF CountOK
<1> QED BY <1>1, <1>2, <1>8

\* p's change ends, and so does what p had to do with the setting.
LEMMA ApartKeeps ==
    ASSUME SettingsInv, NEW p \in Procs, ~disturbed, ~Others(p, "watermark"),
           gaps' = gaps \cup {Len(auditLog)}, UNCHANGED <<first, auditLog>>,
           reqs'[p].op = "idle", \A q \in Procs \ {p} : reqs'[q] = reqs[q]
    PROVE  LogPart'
<1>0. SettingsTypes /\ RequestsOK
  BY DEF SettingsInv, SettingsTypes
<1>1. PICK on : on = WatermarkEnabled
  OBVIOUS
<1>2. PICK new : new = WatermarkEnabled'
  OBVIOUS
<1>3. LogOK(reqs, auditLog, first, gaps, on)
  BY <1>1, Zenon DEF SettingsInv, LogPart
<1>4. \A q \in Procs : ~IsChanging(reqs'[q]) /\ ~IsSetting(reqs'[q])
  <2>1. Alone(reqs, p)
    BY <1>0, AloneUnlessOthers
  <2>2. ~IsChanging(reqs'[p]) /\ ~IsSetting(reqs'[p])
    BY DEF IsChanging, IsSetting
  <2> QED BY <2>1, <2>2, Zenon DEF Alone
<1>5. auditLog \in Seq(Events)
  BY <1>0, Numbers
<1>6. LogOK(reqs', auditLog, first, gaps \cup {Len(auditLog)}, new)
  BY <1>3, <1>4, <1>5, LogApart
<1>7. LogOK(reqs', auditLog', first', gaps', new)
  BY <1>6
<1> QED BY <1>2, <1>7, Zenon DEF LogPart

LEMMA WriteKeeps ==
    ASSUME SettingsInv, NEW p \in Procs, SetMonitorScreenshotWatermarkEnabled(p)
    PROVE  RequestsOK' /\ LogPart' /\ PagePart' /\ CountOK(reqs', auditLog', started')
<1>0. RequestsOK
  BY DEF SettingsInv, SettingsTypes
<1>1. PICK r : /\ r = reqs[p] /\ RequestOK(r) /\ IsActive(r) /\ ~IsChanging(r)
               /\ r.op = "watermark" /\ r.step = "set" /\ r.answer = "none"
               /\ DOMAIN r = Fields
  <2>1. Serves(p, "watermark", "set")
    BY DEF SetMonitorScreenshotWatermarkEnabled
  <2> QED BY <1>0, <2>1, ServesOK
<1>2. UNCHANGED <<first, auditLog, started>>
  BY DEF SetMonitorScreenshotWatermarkEnabled, deployment
<1>3. CASE Set(p, Answered(r, "error")) /\ UNCHANGED <<mark, gaps, disturbed>>
  <2>1. "error" \in Answers
    BY DEF Answers
  <2>2. Silent(p)
    BY <1>1, <1>3, <2>1, SilentAnswer
  <2> QED BY <1>2, <1>3, <2>2, SilentKeeps
<1>4. CASE mark' = Stored(r.on) /\ Meets(p) /\ Set(p, At(r, "audit")) /\ UNCHANGED gaps
  <2>1. PICK y : y = At(r, "audit")
    OBVIOUS
  <2>2. RequestOK(y) /\ Moved(y, r, "audit")
    BY <1>1, <2>1, AtOK DEF RequestSteps
  <2>3. y.op = "watermark" /\ y.step = "audit" /\ y.on = r.on /\ y.prev = r.prev
    BY <1>1, <2>2 DEF Moved
  <2>4. /\ RequestsOK' /\ reqs'[p] = y /\ \A q \in Procs \ {p} : reqs'[q] = reqs[q]
        /\ PagePart' /\ CountOK(reqs', auditLog', started')
    BY <1>1, <1>2, <1>4, <2>1, <2>2, <2>3, OnlyOne
  <2>5. LogPart'
    <3>1. PICK on : on = WatermarkEnabled
      OBVIOUS
    <3>2. PICK new : new = r.on
      OBVIOUS
    <3>3. new \in BOOLEAN
      BY <1>1, <3>2, Zenon DEF RequestOK
    <3>4. WatermarkEnabled' = new
      BY <1>4, <3>2, <3>3, StoredValue
    <3>5. SUFFICES ASSUME ~disturbed, ~Others(p, "watermark")
                   PROVE  LogOK(reqs', auditLog, first, gaps, new)
      BY <1>2, <1>4, <3>4, Zenon DEF LogPart, Meets
    <3>6. LogOK(reqs, auditLog, first, gaps, on)
      BY <3>1, <3>5, Zenon DEF SettingsInv, LogPart
    <3>7. Alone(reqs, p) /\ Alone(reqs', p)
      <4>1. Alone(reqs, p)
        BY <1>0, <3>5, AloneUnlessOthers
      <4> QED BY <2>4, <4>1, Zenon DEF Alone
    <3>8. IsSetting(reqs[p]) /\ IsChanging(reqs'[p])
      BY <1>1, <2>3, <2>4 DEF IsSetting, IsChanging
    <3>9. reqs'[p].on = reqs[p].on /\ reqs'[p].prev = reqs[p].prev /\ new = reqs[p].on
      BY <1>1, <2>3, <2>4, <3>2, Zenon
    <3>10. LogOK(reqs', auditLog, first, gaps, reqs[p].on)
      BY <3>6, <3>7, <3>8, <3>9, LogWrite
    <3> QED BY <3>9, <3>10, Zenon
  <2> QED BY <2>4, <2>5
<1>5. CASE Meets(p) /\ Set(p, Answered(r, "error")) /\ Gap
  <2>1. PICK y : y = Answered(r, "error")
    OBVIOUS
  <2>2. RequestOK(y) /\ BlankAnswer(y, "error")
    <3>1. "error" \in Answers
      BY DEF Answers
    <3> QED BY <1>1, <2>1, <3>1, AnsweredOK, AnsweredBlank
  <2>3. y.op = "idle" /\ ~IsActive(y)
    BY <2>2 DEF BlankAnswer, IsActive
  <2>4. /\ RequestsOK' /\ reqs'[p] = y /\ \A q \in Procs \ {p} : reqs'[q] = reqs[q]
        /\ PagePart' /\ CountOK(reqs', auditLog', started')
    BY <1>1, <1>2, <1>5, <2>1, <2>2, <2>3, OnlyOne
  <2>5. CASE disturbed \/ Others(p, "watermark")
    BY <1>5, <2>4, <2>5, Zenon DEF LogPart, Meets
  <2>6. CASE ~disturbed /\ ~Others(p, "watermark")
    <3>1. gaps' = gaps \cup {Len(auditLog)}
      BY <1>5 DEF Gap
    <3>2. LogPart'
      BY <1>2, <2>3, <2>4, <2>6, <3>1, ApartKeeps
    <3> QED BY <2>4, <3>2
  <2> QED BY <2>5, <2>6
<1> QED BY <1>1, <1>3, <1>4, <1>5, Zenon DEF SetMonitorScreenshotWatermarkEnabled

LEMMA RollBackKeeps ==
    ASSUME SettingsInv, NEW p \in Procs, RollBackWatermark(p)
    PROVE  RequestsOK' /\ LogPart' /\ PagePart' /\ CountOK(reqs', auditLog', started')
<1>0. RequestsOK
  BY DEF SettingsInv, SettingsTypes
<1>1. PICK r : r = reqs[p]
  OBVIOUS
<1>2. RequestOK(r) /\ r.op = "watermark" /\ r.step = "rollback"
  BY <1>0, <1>1 DEF RollBackWatermark, Serves, RequestsOK
<1>3. UNCHANGED <<first, auditLog, started>> /\ Meets(p)
  BY DEF RollBackWatermark, deployment
<1>4. /\ RequestsOK' /\ reqs'[p].op = "idle" /\ \A q \in Procs \ {p} : reqs'[q] = reqs[q]
      /\ PagePart' /\ CountOK(reqs', auditLog', started')
  <2>1. PICK answer \in {"stuck", "cancelled"} : Set(p, Answered(r, answer))
    BY <1>1 DEF RollBackWatermark
  <2>2. PICK y : y = Answered(r, answer)
    OBVIOUS
  <2>3. RequestOK(y) /\ BlankAnswer(y, answer)
    <3>1. answer \in Answers /\ answer # "ok"
      BY DEF Answers
    <3> QED BY <1>2, <2>2, <3>1, AnsweredOK, AnsweredBlank
  <2>4. y.op = "idle" /\ ~IsActive(y)
    BY <2>3 DEF BlankAnswer, IsActive
  <2>5. /\ RequestsOK' /\ reqs'[p] = y /\ \A q \in Procs \ {p} : reqs'[q] = reqs[q]
        /\ PagePart' /\ CountOK(reqs', auditLog', started')
    BY <1>1, <1>3, <2>1, <2>2, <2>3, <2>4, OnlyOne
  <2> QED BY <2>4, <2>5
<1>5. CASE disturbed \/ Others(p, "watermark")
  BY <1>3, <1>4, <1>5, Zenon DEF LogPart, Meets
<1>6. CASE Gap /\ ~disturbed /\ ~Others(p, "watermark")
  <2>1. gaps' = gaps \cup {Len(auditLog)}
    BY <1>6 DEF Gap
  <2>2. LogPart'
    BY <1>3, <1>4, <1>6, <2>1, ApartKeeps
  <2> QED BY <1>4, <2>2
<1>7. CASE mark' = Stored(r.prev) /\ UNCHANGED gaps /\ ~disturbed /\ ~Others(p, "watermark")
  <2>2. LogPart'
    <3>1. PICK on : on = WatermarkEnabled
      OBVIOUS
    <3>2. PICK old : old = r.prev
      OBVIOUS
    <3>3. old \in BOOLEAN
      BY <1>2, <3>2, Zenon DEF RequestOK
    <3>4. WatermarkEnabled' = old
      BY <1>7, <3>2, <3>3, StoredValue
    <3>5. SUFFICES LogOK(reqs', auditLog, first, gaps, old)
      BY <1>3, <1>7, <3>4, Zenon DEF LogPart
    <3>6. LogOK(reqs, auditLog, first, gaps, on)
      BY <1>7, <3>1, Zenon DEF SettingsInv, LogPart
    <3>7. Alone(reqs', p)
      <4>1. Alone(reqs, p)
        BY <1>0, <1>7, AloneUnlessOthers
      <4> QED BY <1>4, <4>1, Zenon DEF Alone
    <3>8. IsChanging(reqs[p]) /\ reqs'[p].op # "watermark"
      BY <1>1, <1>2, <1>4 DEF IsChanging
    <3>9. LogOK(reqs', auditLog, first, gaps, reqs[p].prev)
      BY <3>6, <3>7, <3>8, LogBack
    <3> QED BY <1>1, <3>2, <3>9, Zenon
  <2> QED BY <1>4, <2>2
<1> QED BY <1>1, <1>5, <1>6, <1>7, Zenon DEF RollBackWatermark

LEMMA RestartKeeps ==
    ASSUME SettingsInv, Restart
    PROVE  RequestsOK' /\ LogPart' /\ PagePart' /\ CountOK(reqs', auditLog', started')
<1>1. /\ UNCHANGED <<first, mark, auditLog, started>> /\ reqs' = [p \in Procs |-> Idle]
      /\ IF \E p \in Procs : IsChanging(reqs[p]) THEN gaps' = gaps \cup {Len(auditLog)}
                                                 ELSE gaps' = gaps
      /\ disturbed' = disturbed
  BY Zenon DEF Restart, deployment, Changing, IsChanging, Gap
<1>2. /\ ~IsChanging(Idle) /\ ~IsSetting(Idle) /\ ~IsActive(Idle) /\ Idle.op # "logs"
      /\ RequestOK(Idle)
  BY IdleOK DEF IsChanging, IsSetting, IsActive
<1>3. DOMAIN reqs' = Procs /\ \A p \in Procs : reqs'[p] = Idle
  BY <1>1
<1>4. RequestsOK'
  BY <1>2, <1>3 DEF RequestsOK
<1>5. PagePart'
  <2>1. \A q \in Procs : reqs'[q].calm = FALSE \/ reqs'[q].op # "logs"
    BY <1>2, <1>3
  <2> QED BY <2>1, EventPages DEF PagePart
<1>6. CountOK(reqs', auditLog', started')
  <2>1. Active(reqs') = {}
    BY <1>2, <1>3 DEF Active
  <2>2. Cardinality(Active(reqs')) = 0
    BY <2>1, FS_EmptySet
  <2>3. Len(auditLog) + Cardinality(Active(reqs)) <= started
    BY DEF SettingsInv, CountOK
  <2>4. Len(auditLog) \in Nat /\ started \in Nat /\ Cardinality(Active(reqs)) \in Nat
    BY Numbers, ActiveFinite DEF SettingsInv
  <2>5. Len(auditLog) + 0 <= started
    BY <2>3, <2>4
  <2> QED BY <1>1, <2>2, <2>5 DEF CountOK
<1>7. LogPart'
  <2>1. PICK on : on = WatermarkEnabled
    OBVIOUS
  <2>2. on = WatermarkEnabled'
    BY <1>1, <2>1, Zenon DEF WatermarkEnabled, NormalizeWatermark
  <2>3. SUFFICES ASSUME ~disturbed PROVE LogOK(reqs', auditLog, first, gaps', on)
    BY <1>1, <2>2, Zenon DEF LogPart
  <2>4. LogOK(reqs, auditLog, first, gaps, on)
    BY <2>1, <2>3, Zenon DEF SettingsInv, LogPart
  <2>5. CASE \A p \in Procs : ~IsChanging(reqs[p])
    <3>1. Kin(reqs', reqs, on)
      BY <1>2, <1>3, <2>5, Zenon DEF Kin
    <3>2. gaps' = gaps
      BY <1>1, <2>5
    <3> QED BY <2>4, <3>1, <3>2, LogKin
  <2>6. CASE \E p \in Procs : IsChanging(reqs[p])
    <3>1. gaps' = gaps \cup {Len(auditLog)} /\ auditLog \in Seq(Events)
      BY <1>1, <2>6, Numbers DEF SettingsInv
    <3>2. \A q \in Procs : ~IsChanging(reqs'[q]) /\ ~IsSetting(reqs'[q])
      BY <1>2, <1>3
    <3> QED BY <2>4, <3>1, <3>2, LogApart
  <2> QED BY <2>5, <2>6
<1> QED BY <1>4, <1>5, <1>6, <1>7

\* The variables other than the requests: what every step leaves of them.
LogGrows ==
    \/ auditLog' = auditLog
    \/ \E e \in Events : /\ auditLog' = Append(auditLog, e)
                         /\ e.result \in Results /\ e.user \in Users \cup {0} /\ e.day = day
LEMMA TypesKept ==
    ASSUME SettingsTypes, RequestsOK', UNCHANGED <<backend, gate>>,
           mark' = mark \/ mark' \in {"true", "false"},
           ai' = ai \/ ai' \in {"openai", "minimax"},
           LogGrows, day' = day \/ (day < MaxDays /\ day' = day + 1),
           started' = started \/ (started < MaxRequests /\ started' = started + 1),
           gaps' \subseteq gaps \cup {Len(auditLog')}, disturbed' \in BOOLEAN
    PROVE  SettingsTypes'
<1>1. /\ started \in Nat /\ started <= MaxRequests /\ MaxRequests \in Nat
      /\ day \in Nat /\ day <= MaxDays /\ MaxDays \in Nat /\ auditLog \in Seq(Events)
  BY Numbers
<1>2. day >= 1
  <2>1. day \in 1..MaxDays
    BY Zenon DEF SettingsTypes, SettingsTypeOK
  <2> QED BY <1>1, <2>1
<1>3. day' \in 1..MaxDays /\ day <= day' /\ started' \in 0..MaxRequests
  BY <1>1, <1>2
<1>4. /\ \E d \in Deployments : backend' = d.backend /\ gate' = d.gate
      /\ mark' \in {d.row : d \in Deployments} \cup {"true", "false"}
      /\ ai' \in {d.ai : d \in Deployments} \cup {"openai", "minimax"}
  BY Zenon DEF SettingsTypes, SettingsTypeOK
<1>5. \A p \in Procs : reqs'[p].step \in RequestSteps /\ reqs'[p].answer \in Answers
  BY Zenon DEF RequestsOK, RequestOK
<1>6. \A i \in DOMAIN auditLog : /\ auditLog[i].result \in Results
                                 /\ auditLog[i].user \in Users \cup {0}
                                 /\ auditLog[i].day \in 1..day
  BY Zenon DEF SettingsTypes, SettingsTypeOK
<1>7. 1..day \subseteq 1..(day')
  BY <1>1, <1>2, <1>3
<1>8. /\ auditLog' \in Seq(Events)
      /\ \A i \in DOMAIN auditLog' : /\ auditLog'[i].result \in Results
                                     /\ auditLog'[i].user \in Users \cup {0}
                                     /\ auditLog'[i].day \in 1..(day')
  <2>1. CASE auditLog' = auditLog
    BY <1>1, <1>6, <1>7, <2>1, Zenon
  <2>2. CASE \E e \in Events : /\ auditLog' = Append(auditLog, e)
                         /\ e.result \in Results /\ e.user \in Users \cup {0} /\ e.day = day
    <3>1. PICK e \in Events : /\ auditLog' = Append(auditLog, e) /\ e.result \in Results
                              /\ e.user \in Users \cup {0} /\ e.day = day
      BY <2>2
    <3>2. PICK n \in Nat : n = Len(auditLog)
      BY <1>1
    <3>3. /\ auditLog' \in Seq(Events) /\ DOMAIN auditLog' = 1..(n + 1)
          /\ auditLog'[n + 1] = e /\ DOMAIN auditLog = 1..n
          /\ \A i \in 1..n : auditLog'[i] = auditLog[i]
      BY <1>1, <3>1, <3>2
    <3>4. e.day \in 1..(day')
      BY <1>1, <1>2, <1>7, <3>1
    <3>5. \A i \in 1..(n + 1) : i \in 1..n \/ i = n + 1
      OBVIOUS
    <3> QED BY <1>6, <1>7, <3>1, <3>3, <3>4, <3>5, Zenon
  <2> QED BY <2>1, <2>2 DEF LogGrows
<1>9. gaps' \subseteq 0..Len(auditLog')
  <2>1. PICK n \in Nat : n = Len(auditLog)
    BY <1>1
  <2>2. PICK m : m = Len(auditLog')
    OBVIOUS
  <2>3. m = n \/ m = n + 1
    BY <1>1, <2>1, <2>2 DEF LogGrows
  <2>4. gaps \subseteq 0..n
    BY <2>1, Zenon DEF SettingsTypes, SettingsTypeOK
  <2>5. gaps' \subseteq gaps \cup {m}
    BY <2>2, Zenon
  <2> QED BY <2>2, <2>3, <2>4, <2>5
<1>10. SettingsTypeOK'
  BY <1>3, <1>4, <1>5, <1>8, <1>9, Zenon DEF SettingsTypeOK
<1> QED BY <1>8, <1>10 DEF SettingsTypes

LEMMA SilentInv ==
    ASSUME SettingsInv, NEW p \in Procs, Silent(p), UNCHANGED <<mark, auditLog, day, gaps, disturbed, started>>,
           UNCHANGED deployment, ai' = ai \/ ai' \in {"openai", "minimax"}
    PROVE  SettingsInv'
<1>1. RequestsOK' /\ LogPart' /\ PagePart' /\ CountOK(reqs', auditLog', started')
  BY SilentKeeps DEF deployment
<1>2. disturbed' \in BOOLEAN
  BY Zenon DEF SettingsInv, SettingsTypes, SettingsTypeOK
<1>3. SettingsTypes'
  BY <1>1, <1>2, TypesKept DEF SettingsInv, deployment, LogGrows
<1> QED BY <1>1, <1>3 DEF SettingsInv

LEMMA AuthInv ==
    ASSUME SettingsInv, NEW op \in Actions, op # "watermark", NEW u \in Users \cup {0},
           NEW result \in Results, AuthEvent(op, u, result)
    PROVE  SettingsInv'
<1>1. RequestsOK' /\ LogPart' /\ PagePart' /\ CountOK(reqs', auditLog', started') /\ LogGrows
  BY AuthKeeps DEF LogGrows
<1>2. /\ started < MaxRequests /\ started' = started + 1
      /\ UNCHANGED <<deployment, mark, ai, day, gaps, disturbed>>
  BY DEF AuthEvent, Counts
<1>3. disturbed' \in BOOLEAN
  BY <1>2, Zenon DEF SettingsInv, SettingsTypes, SettingsTypeOK
<1>4. SettingsTypes'
  BY <1>1, <1>2, <1>3, TypesKept DEF SettingsInv, deployment
<1> QED BY <1>1, <1>4 DEF SettingsInv

LEMMA RequestInv ==
    ASSUME SettingsInv, NEW p \in Procs, RequestStep(p)
    PROVE  SettingsInv'
<1>0. SettingsTypes /\ RequestsOK /\ disturbed \in BOOLEAN
  BY Zenon DEF SettingsInv, SettingsTypes, SettingsTypeOK
<1>1. CASE RequirePermission(p)
  <2>1. RequestsOK' /\ LogPart' /\ PagePart' /\ CountOK(reqs', auditLog', started')
    BY <1>1, AdmittedKeeps
  <2>2. started < MaxRequests /\ started' = started + 1
    BY <1>0, <1>1, AdmittedRequest
  <2>3. UNCHANGED <<deployment, mark, ai, auditLog, day, gaps, disturbed>>
    BY <1>1 DEF RequirePermission
  <2>4. SettingsTypes'
    BY <1>0, <2>1, <2>2, <2>3, TypesKept DEF deployment, LogGrows
  <2> QED BY <2>1, <2>4 DEF SettingsInv
<1>2. CASE RecordMonitorAudit(p)
  <2> DEFINE event == Event(reqs[p], reqs[p].op, "success", reqs[p].user)
  <2>1. /\ reqs[p].step = "audit" /\ UNCHANGED <<deployment, mark, ai, day, started, disturbed>>
        /\ \/ /\ Set(p, IF reqs[p].op = "watermark" THEN At(reqs[p], "rollback")
                        ELSE Answered(reqs[p], "unavailable"))
              /\ UNCHANGED <<auditLog, gaps>>
           \/ \E answer \in {"ok", "unavailable"} :
                 Record(p, Answered(reqs[p], answer), event) /\ UNCHANGED gaps
           \/ /\ reqs[p].op = "watermark" /\ Record(p, At(reqs[p], "rollback"), event)
              /\ gaps' = gaps \cup {Len(auditLog')}
    BY <1>2 DEF RecordMonitorAudit
  <2>2. CASE /\ Set(p, IF reqs[p].op = "watermark" THEN At(reqs[p], "rollback")
                       ELSE Answered(reqs[p], "unavailable"))
             /\ UNCHANGED <<auditLog, gaps>>
    <3>1. Silent(p)
      BY <1>0, <2>1, <2>2, SilentAudit
    <3> QED BY <2>1, <2>2, <3>1, SilentInv
  <2>3. CASE \E answer \in {"ok", "unavailable"} :
                Record(p, Answered(reqs[p], answer), event) /\ UNCHANGED gaps
    <3>1. /\ RequestsOK' /\ LogPart' /\ PagePart' /\ CountOK(reqs', auditLog', started')
          /\ LogGrows
      BY <2>1, <2>3, AuditKeeps DEF deployment, LogGrows
    <3>2. SettingsTypes'
      BY <1>0, <2>1, <2>3, <3>1, TypesKept DEF deployment
    <3> QED BY <3>1, <3>2 DEF SettingsInv
  <2>4. CASE /\ reqs[p].op = "watermark" /\ Record(p, At(reqs[p], "rollback"), event)
             /\ gaps' = gaps \cup {Len(auditLog')}
    <3>1. /\ RequestsOK' /\ LogPart' /\ PagePart' /\ CountOK(reqs', auditLog', started')
          /\ LogGrows
      BY <2>1, <2>4, AuditLostKeeps DEF deployment, LogGrows
    <3>2. SettingsTypes'
      BY <1>0, <2>1, <2>4, <3>1, TypesKept DEF deployment
    <3> QED BY <3>1, <3>2 DEF SettingsInv
  <2> QED BY <2>1, <2>2, <2>3, <2>4
<1>3. CASE RecordChannelSnapshotView(p) \/ StoreExportGuard(p)
  <2>1. Reads
    BY <1>3 DEF RecordChannelSnapshotView, StoreExportGuard
  <2> QED BY <1>0, <1>3, <2>1, SilentGuards, SilentInv DEF Reads
<1>4. CASE NvrScreenshotMetadata(p)
  <2>1. Reads
    BY <1>4 DEF NvrScreenshotMetadata
  <2> QED BY <1>0, <1>4, <2>1, SilentScreenshot, SilentInv DEF Reads
<1>5. CASE UpdateWatermark(p)
  <2>1. Reads
    BY <1>5 DEF UpdateWatermark
  <2> QED BY <1>0, <1>5, <2>1, SilentWatermarkRead, SilentInv DEF Reads
<1>6. CASE SetMonitorScreenshotWatermarkEnabled(p)
  <2>1. RequestsOK' /\ LogPart' /\ PagePart' /\ CountOK(reqs', auditLog', started')
    BY <1>6, WriteKeeps
  <2>2. UNCHANGED <<deployment, ai, auditLog, day, started>>
    BY <1>6 DEF SetMonitorScreenshotWatermarkEnabled
  <2>3. mark' = mark \/ mark' \in {"true", "false"}
    BY <1>6 DEF SetMonitorScreenshotWatermarkEnabled, Stored
  <2>4. disturbed' \in BOOLEAN /\ gaps' \subseteq gaps \cup {Len(auditLog')}
    BY <1>0, <1>6, <2>2, Zenon DEF SetMonitorScreenshotWatermarkEnabled, Meets, Gap
  <2>5. SettingsTypes'
    BY <1>0, <2>1, <2>2, <2>3, <2>4, TypesKept DEF deployment, LogGrows
  <2> QED BY <2>1, <2>5 DEF SettingsInv
<1>7. CASE RollBackWatermark(p)
  <2>1. RequestsOK' /\ LogPart' /\ PagePart' /\ CountOK(reqs', auditLog', started')
    BY <1>7, RollBackKeeps
  <2>2. UNCHANGED <<deployment, ai, auditLog, day, started>>
    BY <1>7 DEF RollBackWatermark
  <2>3. mark' = mark \/ mark' \in {"true", "false"}
    BY <1>7 DEF RollBackWatermark, Stored
  <2>4. disturbed' \in BOOLEAN /\ gaps' \subseteq gaps \cup {Len(auditLog')}
    BY <1>0, <1>7, <2>2, Zenon DEF RollBackWatermark, Meets, Gap
  <2>5. SettingsTypes'
    BY <1>0, <2>1, <2>2, <2>3, <2>4, TypesKept DEF deployment, LogGrows
  <2> QED BY <2>1, <2>5 DEF SettingsInv
<1>8. CASE ToggleAISettings(p)
  <2>1. Reads
    BY <1>8 DEF ToggleAISettings
  <2> QED BY <1>0, <1>8, <2>1, SilentToggle, SilentInv DEF Reads
<1>9. CASE SetAIProvider(p)
  <2>1. /\ UNCHANGED <<deployment, mark, auditLog, day, started, gaps, disturbed>>
        /\ ai' = ai \/ ai' = NormalizeAIProvider(reqs[p].next)
    BY <1>9 DEF SetAIProvider
  <2>2. reqs[p].next \in {"", "openai", "minimax"}
    BY <1>0, Zenon DEF RequestsOK, RequestOK
  <2>3. NormalizeAIProvider(reqs[p].next) \in {"openai", "minimax"}
    BY <2>2 DEF NormalizeAIProvider
  <2>4. ai' = ai \/ ai' \in {"openai", "minimax"}
    BY <2>1, <2>3
  <2>5. Silent(p)
    BY <1>0, <1>9, SilentProvider
  <2> QED BY <2>1, <2>4, <2>5, SilentInv
<1>10. CASE AuditLogs(p) \/ CountAuditLogs(p) \/ ListAuditLogs(p) \/ MemoryListAuditLogs(p)
  <2>1. Reads
    BY <1>10 DEF AuditLogs, CountAuditLogs, ListAuditLogs, MemoryListAuditLogs
  <2>2. PageOK(reqs[p], auditLog)
    BY DEF SettingsInv, PagePart
  <2>3. Silent(p)
    BY <1>0, <1>10, <2>2, SilentLogs
  <2> QED BY <2>1, <2>3, SilentInv DEF Reads
<1> QED BY <1>1, <1>2, <1>3, <1>4, <1>5, <1>6, <1>7, <1>8, <1>9, <1>10 DEF RequestStep

LEMMA SettingsStep == SettingsInv /\ [SettingsNext]_settingsVars => SettingsInv'
<1> SUFFICES ASSUME SettingsInv, [SettingsNext]_settingsVars PROVE SettingsInv'
  OBVIOUS
<1>0. SettingsTypes /\ RequestsOK /\ LogPart /\ PagePart /\ CountOK(reqs, auditLog, started)
      /\ disturbed \in BOOLEAN
  BY Zenon DEF SettingsInv, SettingsTypes, SettingsTypeOK
<1>a. ASSUME UNCHANGED <<deployment, mark, auditLog, reqs, started, gaps, disturbed>>
      PROVE  RequestsOK' /\ LogPart' /\ PagePart' /\ CountOK(reqs', auditLog', started')
  <2>1. RequestsOK' /\ PagePart' /\ CountOK(reqs', auditLog', started')
    BY <1>0, <1>a, Zenon DEF RequestsOK, PagePart
  <2>2. LogPart'
    BY <1>0, <1>a, Zenon DEF LogPart, WatermarkEnabled, NormalizeWatermark, deployment
  <2> QED BY <2>1, <2>2
<1>1. CASE \E p \in Procs : RequestStep(p)
  BY <1>1, RequestInv
<1>2. CASE RecordAuthLogin
  <2>1. PICK u \in Users, lookup \in Lookups :
            AuthEvent("login", IF lookup = "enabled" THEN u ELSE 0, LoginResult(lookup))
    BY <1>2 DEF RecordAuthLogin
  <2>2. (IF lookup = "enabled" THEN u ELSE 0) \in Users \cup {0} /\ LoginResult(lookup) \in Results
    BY DEF LoginResult, Results
  <2>3. "login" \in Actions
    BY DEF Actions
  <2> QED BY <2>1, <2>2, <2>3, AuthInv
<1>3. CASE RecordAuthLogout
  <2>1. PICK u \in Users, lookup \in Lookups, known \in BOOLEAN :
            AuthEvent("logout", IF lookup = "enabled" \/ (lookup = "refused" /\ known) THEN u ELSE 0,
                      LoginResult(lookup))
    BY <1>3 DEF RecordAuthLogout
  <2>2. /\ (IF lookup = "enabled" \/ (lookup = "refused" /\ known) THEN u ELSE 0) \in Users \cup {0}
        /\ LoginResult(lookup) \in Results
    BY DEF LoginResult, Results
  <2>3. "logout" \in Actions
    BY DEF Actions
  <2> QED BY <2>1, <2>2, <2>3, AuthInv
<1>4. CASE RecordAuthSessionTimeout \/ RecordPrepare
  <2>1. PICK op \in {"timeout", "prepare"}, u \in Users : AuthEvent(op, u, "success")
    BY <1>4 DEF RecordAuthSessionTimeout, RecordPrepare
  <2>2. op \in Actions /\ op # "watermark" /\ "success" \in Results /\ u \in Users \cup {0}
    BY DEF Actions, Results
  <2> QED BY <2>1, <2>2, AuthInv
<1>5. CASE NextDay
  <2>1. /\ UNCHANGED <<deployment, mark, ai, auditLog, reqs, started, gaps, disturbed>>
        /\ day < MaxDays /\ day' = day + 1
    BY <1>5 DEF NextDay
  <2>2. RequestsOK' /\ LogPart' /\ PagePart' /\ CountOK(reqs', auditLog', started')
    BY <1>a, <2>1
  <2>3. SettingsTypes'
    BY <1>0, <2>1, <2>2, TypesKept DEF deployment, LogGrows
  <2> QED BY <2>2, <2>3 DEF SettingsInv
<1>6. CASE Restart
  <2>1. RequestsOK' /\ LogPart' /\ PagePart' /\ CountOK(reqs', auditLog', started')
    BY <1>6, RestartKeeps
  <2>2. UNCHANGED <<deployment, mark, ai, auditLog, day, started>>
    BY <1>6 DEF Restart
  <2>3. disturbed' \in BOOLEAN /\ gaps' \subseteq gaps \cup {Len(auditLog')}
    BY <1>0, <1>6, <2>2, Zenon DEF Restart, Gap
  <2>4. SettingsTypes'
    BY <1>0, <2>1, <2>2, <2>3, TypesKept DEF deployment, LogGrows
  <2> QED BY <2>1, <2>4 DEF SettingsInv
<1>7. CASE UNCHANGED settingsVars
  <2>1. /\ UNCHANGED <<deployment, mark, auditLog, reqs, started, gaps, disturbed>> /\ UNCHANGED <<ai, day>>
    BY <1>7 DEF settingsVars, deployment
  <2>2. RequestsOK' /\ LogPart' /\ PagePart' /\ CountOK(reqs', auditLog', started')
    BY <1>a, <2>1
  <2>3. SettingsTypes'
    BY <1>0, <2>1, <2>2, TypesKept DEF deployment, LogGrows
  <2> QED BY <2>2, <2>3 DEF SettingsInv
<1> QED BY <1>1, <1>2, <1>3, <1>4, <1>5, <1>6, <1>7 DEF SettingsNext

\* The inductive invariant of the settings and the log holds: the types, what
\* the log tells, the number of the events and what a query knows.
THEOREM SettingsInductive == SettingsSpec => []SettingsInv
BY SettingsInitInv, SettingsStep, PTL DEF SettingsSpec

LEMMA LogPartTells == SettingsInv => LogTellsSetting
<1> SUFFICES ASSUME SettingsInv, ~disturbed PROVE
      /\ \A i \in DOMAIN auditLog :
             auditLog[i].action = "watermark" => Told(i, auditLog[i].prev)
      /\ (\A p \in Procs : ~Changing(p)) => Told(Len(auditLog) + 1, WatermarkEnabled)
  BY Zenon DEF LogTellsSetting
<1>1. LogOK(reqs, auditLog, first, gaps, WatermarkEnabled)
  BY Zenon DEF SettingsInv, LogPart
<1>2. DOMAIN auditLog = 1..Len(auditLog)
  BY Numbers DEF SettingsInv
<1>3. \A i \in DOMAIN auditLog : auditLog[i].action = "watermark" => Told(i, auditLog[i].prev)
  BY <1>1, <1>2, ToldOfState, Zenon DEF LogOK
<1>4. ASSUME \A p \in Procs : ~Changing(p) PROVE Told(Len(auditLog) + 1, WatermarkEnabled)
  <2>1. \A p \in Procs : ~IsChanging(reqs[p])
    BY <1>4, Zenon DEF Changing, IsChanging
  <2> QED BY <1>1, <2>1, ToldOfState, Zenon DEF LogOK
<1> QED BY <1>3, <1>4

\* The log retells the watermark setting (the audit that follows the write and
\* the write back when it fails), for any number of requests at a time.
THEOREM LogTold == SettingsSpec => []LogTellsSetting
BY SettingsInductive, LogPartTells, PTL

---------------------------------------------------------------------------
\* The rows of a log that a filter shows: the i-th has i - 1 newer ones.
Shown(log, f) == {i \in DOMAIN log : AuditLogWhere(f, log[i])}
NewerIn(log, f, i) == Cardinality({j \in Shown(log, f) : j > i})

LEMMA RowsOfLog ==
    ASSUME NEW log \in Seq(Events), NEW f
    PROVE  LET rows == MatchingIn(log, f)
               N == Cardinality(Shown(log, f))
           IN  /\ rows \in Seq(Nat) /\ N \in Nat /\ N <= Len(log) /\ Len(rows) = N
               /\ \A k \in 1..N : rows[k] \in Shown(log, f) /\ NewerIn(log, f, rows[k]) = k - 1
               /\ \A i \in Shown(log, f) : /\ NewerIn(log, f, i) \in 0..(N - 1)
                                           /\ rows[NewerIn(log, f, i) + 1] = i
               /\ \A k, l \in 1..N : k < l => rows[k] > rows[l]
<1>1. PICK n \in Nat : n = Len(log)
  OBVIOUS
<1>2. DOMAIN log = 1..n
  BY <1>1
<1>3. PICK places : places = [i \in 1..n |-> i]
  OBVIOUS
<1>4. PICK D : D = {i \in 1..n : ~AuditLogWhere(f, log[i])}
  OBVIOUS
<1>5. PICK S : S = {i \in 1..n : AuditLogWhere(f, log[i])}
  OBVIOUS
<1>6. Shown(log, f) = S
  BY <1>2, <1>5 DEF Shown
<1>7. places \in Seq(Nat) /\ Len(places) = n /\ \A i \in 1..n : places[i] = i
  BY <1>3
<1>8. \A m \in 0..n : Kept(places, D, m) = {j \in S : j <= m}
  BY <1>4, <1>5, <1>7 DEF Kept
<1>9. Kept(places, D, n) = S
  <2>1. {j \in S : j <= n} = S
    BY <1>5
  <2>2. n \in 0..n
    OBVIOUS
  <2> QED BY <1>8, <2>1, <2>2, Zenon
<1>10. PICK w : w = Without(places, D)
  OBVIOUS
<1>11. w \in Seq(Nat) /\ Ranked(w, places, D, n)
  BY <1>7, <1>10, WithoutRanked
<1>12. PICK N : N = Cardinality(S)
  OBVIOUS
<1>13. IsFiniteSet(S) /\ N \in Nat /\ N <= n /\ Rank(places, D, n) = N
  BY <1>9, <1>12, KeptFinite DEF Rank
<1>14. /\ Len(w) = N
       /\ \A i \in S : Rank(places, D, i) \in 1..N /\ w[Rank(places, D, i)] = i
       /\ \A k \in 1..N : \E i \in S : Rank(places, D, i) = k
  <2>1. \A i \in S : places[i] = i
    BY <1>5, <1>7
  <2> QED BY <1>9, <1>11, <1>13, <2>1 DEF Ranked
<1>15. PICK rows : rows = Reverse(w)
  OBVIOUS
<1>16. MatchingIn(log, f) = rows
  BY <1>2, <1>3, <1>4, <1>10, <1>15 DEF MatchingIn
<1>17. rows \in Seq(Nat) /\ Len(rows) = N /\ \A k \in 1..N : rows[k] = w[N - k + 1]
  <2>1. rows = [i \in 1..N |-> w[(N - i) + 1]]
    BY <1>14, <1>15, Zenon DEF Reverse
  <2>2. \A i \in 1..N : w[(N - i) + 1] \in Nat
    BY <1>11, <1>13, <1>14
  <2>3. rows \in Seq(Nat) /\ Len(rows) = N
    BY <1>13, <2>1, <2>2
  <2>4. \A k \in 1..N : rows[k] = w[N - k + 1]
    BY <2>1
  <2> QED BY <2>3, <2>4
<1>18. ASSUME NEW i \in S PROVE NewerIn(log, f, i) = N - Rank(places, D, i) /\ i \in Nat
  <2>1. i \in 1..n
    BY <1>5
  <2>2. Kept(places, D, i) \subseteq S /\ {j \in S : j > i} = S \ Kept(places, D, i)
    <3>1. Kept(places, D, i) = {j \in S : j <= i}
      BY <1>8, <2>1
    <3>2. \A j \in S : j > i <=> ~(j <= i)
      BY <1>5, <2>1
    <3> QED BY <3>1, <3>2
  <2>3. S \cap Kept(places, D, i) = Kept(places, D, i)
    BY <2>2
  <2>4. Cardinality(S \ Kept(places, D, i)) = Cardinality(S) - Cardinality(S \cap Kept(places, D, i))
    BY <1>13, FS_Difference
  <2>5. NewerIn(log, f, i) = Cardinality(S \ Kept(places, D, i))
    BY <1>6, <2>2, Zenon DEF NewerIn
  <2>6. Cardinality(S \ Kept(places, D, i)) = N - Rank(places, D, i)
    BY <1>12, <2>3, <2>4, Zenon DEF Rank
  <2> QED BY <2>1, <2>5, <2>6
<1>19. ASSUME NEW k \in 1..N
       PROVE  rows[k] \in S /\ Rank(places, D, rows[k]) = N - k + 1 /\ NewerIn(log, f, rows[k]) = k - 1
  <2>1. N - k + 1 \in 1..N
    BY <1>13
  <2>2. PICK i \in S : Rank(places, D, i) = N - k + 1
    BY <1>14, <2>1
  <2>3. rows[k] = i
    BY <1>14, <1>17, <2>2
  <2>4. NewerIn(log, f, i) = N - (N - k + 1)
    BY <1>18, <2>2
  <2>5. N - (N - k + 1) = k - 1
    BY <1>13
  <2> QED BY <2>2, <2>3, <2>4, <2>5
<1>20. ASSUME NEW i \in S
       PROVE  NewerIn(log, f, i) \in 0..(N - 1) /\ rows[NewerIn(log, f, i) + 1] = i
  <2>1. PICK r \in 1..N : r = Rank(places, D, i)
    BY <1>14
  <2>2. PICK m : m = NewerIn(log, f, i)
    OBVIOUS
  <2>3. m = N - r /\ w[r] = i
    BY <1>14, <1>18, <2>1, <2>2
  <2>4. m \in 0..(N - 1) /\ m + 1 \in 1..N /\ N - (m + 1) + 1 = r
    BY <1>13, <2>3
  <2>5. rows[m + 1] = i
    BY <1>17, <2>3, <2>4
  <2> QED BY <2>2, <2>4, <2>5
<1>21. ASSUME NEW k \in 1..N, NEW l \in 1..N, k < l PROVE rows[k] > rows[l]
  <2>1. PICK a \in S : a = rows[k] /\ Rank(places, D, a) = N - k + 1
    BY <1>19
  <2>2. PICK b \in S : b = rows[l] /\ Rank(places, D, b) = N - l + 1
    BY <1>19
  <2>3. N - l + 1 < N - k + 1 /\ N - l + 1 \in Nat /\ N - k + 1 \in Nat
    BY <1>13, <1>21
  <2>4. a \in Nat /\ b \in Nat
    BY <1>18
  <2>5. a # b
    BY <2>1, <2>2, <2>3
  <2>6. ~(a < b)
    <3> SUFFICES ASSUME a < b PROVE FALSE
      OBVIOUS
    <3>1. Rank(places, D, a) < Rank(places, D, b)
      BY <1>9, RankMonotone
    <3> QED BY <2>1, <2>2, <2>3, <3>1
  <2> QED BY <2>1, <2>2, <2>4, <2>5, <2>6
<1> QED BY <1>1, <1>6, <1>12, <1>13, <1>16, <1>17, <1>19, <1>20, <1>21

\* The offset is the number of the rows before the page, or not less than
\* the number of all rows when that is more than an int can hold.
LEMMA OffsetRight ==
    ASSUME NEW f \in Filters
    PROVE  /\ PageSizeOf(f) \in 1..MaxInt /\ (PageOf(f) - 1) * PageSizeOf(f) \in Nat
           /\ Offset(f) \in 0..MaxInt
           /\ \/ Offset(f) = (PageOf(f) - 1) * PageSizeOf(f)
              \/ Offset(f) = MaxInt /\ (PageOf(f) - 1) * PageSizeOf(f) > MaxInt
<1>1. /\ MaxInt \in Nat /\ MaxPageSize \in 1..MaxInt /\ DefaultPageSize \in 1..MaxPageSize
      /\ f.page \in 0..MaxInt /\ f.size \in 0..MaxInt
  BY SettingsAssumption
<1>2. PICK z : z = PageSizeOf(f)
  OBVIOUS
<1>3. PICK k : k = PageOf(f) - 1
  OBVIOUS
<1>4. z \in 1..MaxInt
  BY <1>1, <1>2 DEF PageSizeOf
<1>5. k \in Nat
  BY <1>1, <1>3 DEF PageOf
<1>6. z \in Nat \ {0} /\ MaxInt \in Nat
  BY <1>1, <1>4
<1>7. k * z \in Nat
  BY <1>5, <1>6
<1>8. MaxInt \div z \in Nat
  BY <1>6
<1>9. Offset(f) = IF k > MaxInt \div z THEN MaxInt ELSE Wrap(k * z)
  BY <1>2, <1>3 DEF Offset
<1>10. CASE k > MaxInt \div z
  <2>1. k * z > MaxInt
    BY <1>5, <1>6, <1>10, Quotient
  <2> QED BY <1>1, <1>2, <1>3, <1>4, <1>7, <1>9, <1>10, <2>1
<1>11. CASE ~(k > MaxInt \div z)
  <2>1. k <= MaxInt \div z
    BY <1>5, <1>8, <1>11
  <2>2. k * z <= MaxInt
    BY <1>5, <1>6, <2>1, Quotient
  <2>3. \A x \in Nat : x <= MaxInt => x \in 0..MaxInt
    BY <1>1
  <2>4. k * z \in 0..MaxInt
    BY <1>7, <2>2, <2>3
  <2>5. Wrap(k * z) = k * z
    BY <1>1, <2>4, WrapWithin
  <2> QED BY <1>2, <1>3, <1>4, <1>7, <1>9, <1>11, <2>4, <2>5
<1> QED BY <1>10, <1>11

\* The page: row from + k is its k-th, and the rows of its place are on it.
LEMMA PageOfLog ==
    ASSUME NEW log \in Seq(Events), Len(log) <= MaxInt, NEW f \in Filters
    PROVE  LET items == PageIn(log, f)
               from == (PageOf(f) - 1) * PageSizeOf(f)
           IN  /\ ToSet(items) = {i \in Shown(log, f) :
                                     NewerIn(log, f, i) \in from..(from + PageSizeOf(f) - 1)}
               /\ \A i, j \in DOMAIN items : i < j => items[i] > items[j]
<1>1. PICK rows : rows = MatchingIn(log, f)
  OBVIOUS
<1>2. PICK N : N = Cardinality(Shown(log, f))
  OBVIOUS
<1>3. /\ rows \in Seq(Nat) /\ N \in Nat /\ N <= Len(log) /\ Len(rows) = N
      /\ \A k \in 1..N : rows[k] \in Shown(log, f) /\ NewerIn(log, f, rows[k]) = k - 1
      /\ \A i \in Shown(log, f) : /\ NewerIn(log, f, i) \in 0..(N - 1)
                                  /\ rows[NewerIn(log, f, i) + 1] = i
      /\ \A k, l \in 1..N : k < l => rows[k] > rows[l]
  BY <1>1, <1>2, RowsOfLog
<1>4. PICK z : z = PageSizeOf(f)
  OBVIOUS
<1>5. PICK from : from = (PageOf(f) - 1) * PageSizeOf(f)
  OBVIOUS
<1>6. PICK off : off = Offset(f)
  OBVIOUS
<1>7. /\ z \in 1..MaxInt /\ from \in Nat /\ off \in 0..MaxInt
      /\ off = from \/ (off = MaxInt /\ from > MaxInt)
  BY <1>4, <1>5, <1>6, OffsetRight
<1>8. MaxInt \in Nat /\ N <= MaxInt
  <2>1. MaxInt \in Nat
    BY SettingsAssumption
  <2>2. Len(log) \in Nat
    OBVIOUS
  <2> QED BY <1>3, <2>1, <2>2
<1>9. PICK items : items = PageIn(log, f)
  OBVIOUS
<1>10. items = IF off >= N THEN << >>
               ELSE SubSeq(rows, off + 1, IF off + z > N THEN N ELSE off + z)
  BY <1>1, <1>3, <1>4, <1>6, <1>9 DEF PageIn
\* In every case items holds the next count rows after from.
<1>11. PICK count \in Nat :
          /\ DOMAIN items = 1..count
          /\ \A k \in 1..count : from + k \in 1..N /\ items[k] = rows[from + k] /\ k <= z
          /\ \A m \in 0..(N - 1) : m \in from..(from + z - 1) => m - from + 1 \in 1..count
  <2>1. CASE off >= N
    <3>1. DOMAIN items = 1..0
      BY <1>10, <2>1
    <3>2. from >= N
      BY <1>3, <1>7, <1>8, <2>1
    <3>3. \A m \in 0..(N - 1) : m \notin from..(from + z - 1)
      BY <1>3, <1>7, <1>8, <3>2
    <3>4. \A k \in 1..0 : FALSE
      OBVIOUS
    <3> QED BY <3>1, <3>3, <3>4
  <2>2. CASE ~(off >= N)
    <3>1. off = from /\ from < N
      BY <1>3, <1>7, <1>8, <2>2
    <3>2. PICK b : b = IF from + z > N THEN N ELSE from + z
      OBVIOUS
    <3>3. b \in 0..N /\ from <= b
      BY <1>3, <1>7, <1>8, <3>1, <3>2
    <3>4. items = SubSeq(rows, from + 1, b)
      BY <1>10, <2>2, <3>1, <3>2
    <3>5. /\ items \in Seq(Nat) /\ Len(items) = b - from
          /\ \A k \in 1..(b - from) : items[k] = rows[from + k]
      <4>1. rows \in Seq(Nat) /\ from \in Nat /\ b \in 0..Len(rows) /\ from <= b
        BY <1>3, <1>7, <3>3
      <4>2. /\ SubSeq(rows, from + 1, b) \in Seq(Nat)
            /\ Len(SubSeq(rows, from + 1, b)) = b - from
            /\ \A k \in 1..(b - from) : SubSeq(rows, from + 1, b)[k] = rows[from + k]
        BY <4>1, Slice
      <4> QED BY <3>4, <4>2, Zenon
    <3>6. b - from \in Nat /\ DOMAIN items = 1..(b - from)
      BY <1>7, <3>3, <3>5
    <3>7. \A k \in 1..(b - from) : from + k \in 1..N /\ k <= z
      BY <1>3, <1>7, <1>8, <3>2, <3>3
    <3>8. \A m \in 0..(N - 1) : m \in from..(from + z - 1) => m - from + 1 \in 1..(b - from)
      BY <1>3, <1>7, <1>8, <3>1, <3>2
    <3> QED BY <3>5, <3>6, <3>7, <3>8
  <2> QED BY <2>1, <2>2
<1>12. \A i, j \in DOMAIN items : i < j => items[i] > items[j]
  <2> SUFFICES ASSUME NEW i \in 1..count, NEW j \in 1..count, i < j PROVE items[i] > items[j]
    BY <1>11
  <2>1. from + i \in 1..N /\ from + j \in 1..N /\ from + i < from + j
    <3>1. from + i \in 1..N /\ from + j \in 1..N
      BY <1>11
    <3>2. from + i < from + j
      BY <1>7
    <3> QED BY <3>1, <3>2
  <2>2. rows[from + i] > rows[from + j]
    BY <1>3, <2>1
  <2> QED BY <1>11, <2>2
<1>13. ASSUME NEW k \in 1..count
       PROVE  items[k] \in Shown(log, f) /\ NewerIn(log, f, items[k]) \in from..(from + z - 1)
  <2>1. from + k \in 1..N /\ items[k] = rows[from + k] /\ k <= z
    BY <1>11
  <2>2. items[k] \in Shown(log, f) /\ NewerIn(log, f, items[k]) = from + k - 1
    <3>1. PICK l \in 1..N : l = from + k
      BY <2>1
    <3>2. rows[l] \in Shown(log, f) /\ NewerIn(log, f, rows[l]) = l - 1
      BY <1>3, Zenon
    <3>3. items[k] = rows[l]
      BY <2>1, <3>1
    <3>4. l - 1 = from + k - 1
      BY <1>7, <3>1
    <3> QED BY <3>2, <3>3, <3>4, Zenon
  <2>3. from + k - 1 \in from..(from + z - 1)
    BY <1>7, <1>8, <2>1
  <2> QED BY <2>2, <2>3
<1>14. ASSUME NEW i \in Shown(log, f), NewerIn(log, f, i) \in from..(from + z - 1)
       PROVE  \E k \in 1..count : items[k] = i
  <2>1. PICK m : m = NewerIn(log, f, i)
    OBVIOUS
  <2>2. m \in 0..(N - 1) /\ rows[m + 1] = i /\ m \in from..(from + z - 1)
    BY <1>3, <1>14, <2>1
  <2>3. m - from + 1 \in 1..count
    BY <1>11, <2>2
  <2>4. from + (m - from + 1) = m + 1
    BY <1>3, <1>7, <2>2
  <2>5. items[m - from + 1] = i
    BY <1>11, <2>2, <2>3, <2>4
  <2> QED BY <2>3, <2>5
<1>15. ToSet(items) = {i \in Shown(log, f) : NewerIn(log, f, i) \in from..(from + z - 1)}
  <2>1. ToSet(items) = {items[k] : k \in 1..count}
    BY <1>11 DEF ToSet
  <2> QED BY <1>13, <1>14, <2>1
<1> QED BY <1>4, <1>5, <1>9, <1>12, <1>15, Zenon

LEMMA PagePartRight == SettingsInv => PageOfLogRight
<1> SUFFICES ASSUME SettingsInv, NEW p \in Procs, NEW r, r = reqs[p],
                    r.op = "logs", r.answer = "ok", r.calm
             PROVE  LET f == r.filter
                        shown == {i \in DOMAIN auditLog : AuditLogWhere(f, auditLog[i])}
                        Newer(i) == Cardinality({j \in shown : j > i})
                        from == (PageOf(f) - 1) * PageSizeOf(f)
                    IN  /\ r.total = Cardinality(shown)
                        /\ ToSet(r.items) =
                              {i \in shown : Newer(i) \in from..(from + PageSizeOf(f) - 1)}
                        /\ \A i, j \in DOMAIN r.items : i < j => r.items[i] > r.items[j]
  BY DEF PageOfLogRight
<1>1. RequestOK(r) /\ PageOK(r, auditLog) /\ auditLog \in Seq(Events)
  BY Zenon DEF SettingsInv, SettingsTypes, RequestsOK, PagePart
<1>2. PICK f \in Filters : f = r.filter
  BY <1>1 DEF RequestOK
<1>3. r.total = Len(MatchingIn(auditLog, f)) /\ r.items = PageIn(auditLog, f)
  BY <1>1, <1>2, Zenon DEF PageOK
<1>4. Len(auditLog) <= MaxInt
  <2>1. Len(auditLog) + Cardinality(Active(reqs)) <= started
    BY DEF SettingsInv, CountOK
  <2>2. /\ Len(auditLog) \in Nat /\ started \in Nat /\ started <= MaxRequests
        /\ MaxRequests \in Nat /\ Cardinality(Active(reqs)) \in Nat
    BY Numbers, ActiveFinite DEF SettingsInv
  <2>3. MaxRequests <= MaxInt /\ MaxInt \in Nat
    BY SettingsAssumption
  <2> QED BY <2>1, <2>2, <2>3
<1>5. Len(MatchingIn(auditLog, f)) = Cardinality(Shown(auditLog, f))
  BY <1>1, RowsOfLog
<1>6. /\ ToSet(PageIn(auditLog, f)) =
            {i \in Shown(auditLog, f) :
                NewerIn(auditLog, f, i) \in
                    ((PageOf(f) - 1) * PageSizeOf(f))..((PageOf(f) - 1) * PageSizeOf(f) + PageSizeOf(f) - 1)}
      /\ \A i, j \in DOMAIN PageIn(auditLog, f) :
            i < j => PageIn(auditLog, f)[i] > PageIn(auditLog, f)[j]
  BY <1>1, <1>4, PageOfLog
<1> QED BY <1>2, <1>3, <1>5, <1>6, Zenon DEF Shown, NewerIn

\* A page of the log holds the events of its place for every page number and
\* page size an int holds (the bounded offset, the two queries).
THEOREM PageRight == SettingsSpec => []PageOfLogRight
BY SettingsInductive, PagePartRight, PTL
=============================================================================
