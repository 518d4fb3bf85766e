--------------------------- MODULE ProviderProofs ---------------------------
(***************************************************************************)
(* Theorems of what is behind a candidate: the adapter the registry keeps  *)
(* of a provider (ProviderCache), for any number of administrators,        *)
(* callers and calls, and a call of an adapter (AdapterCall), for any      *)
(* answer of any vendor.  They share no state.                             *)
(***************************************************************************)
EXTENDS ProviderCache, AdapterCall, FiniteSetTheorems, SequenceTheorems, WellFoundedInduction,
        TLAPS

-----------------------------------------------------------------------------
(* The cache.                                                              *)

\* Only one of the two stores is in use, and what it has is the newest credential.
StoresNewest ==
  Steady => /\ keyring \in {0, issued} /\ memory \in {0, issued}
            /\ seen # "up" => keyring = 0
            /\ seen # "down" => memory = 0

\* What a version of the row may be paired with: a credential that had been
\* issued when it was written, or none.
NotOlder(cred, stamp) == cred = 0 \/ cred >= written[stamp]

\* Every version knows a credential that was issued, and the row's version
\* knows every one whose call has returned.
VersionsKnow ==
  /\ \A i \in DOMAIN written : written[i] <= issued
  /\ settled <= issued
  /\ row.state = "there" => settled <= written[row.stamp]

\* A call under way carries the credential it issued, and the row's version
\* knows it before the call returns.
TasksKnow ==
  \A a \in Admin :
    /\ task[a].cred <= issued
    /\ task[a].pc \notin {"configure", "invalidate"} => task[a].cred = 0
    /\ (task[a].pc = "invalidate" /\ row.state = "there") =>
          task[a].cred <= written[row.stamp]

\* A caller has read a version that knows all it needs.
CallersKnow ==
  \A r \in Caller :
    caller[r].pc \in {"look", "resolve", "insert"} =>
      need[r] <= written[caller[r].stamp]

\* What a caller is about to cache, and what is cached, fits its version.
AdaptersFit ==
  Steady =>
    /\ cache.stamp # 0 => /\ cache.stamp \in DOMAIN written
                          /\ NotOlder(cache.cred, cache.stamp)
    /\ \A r \in Caller :
         caller[r].pc = "insert" => NotOlder(caller[r].cred, caller[r].stamp)

IInv == /\ TypeOK /\ StoresNewest /\ VersionsKnow /\ TasksKnow
        /\ CallersKnow /\ AdaptersFit /\ CallsUseRotated

-----------------------------------------------------------------------------

\* The initial states satisfy the invariant.
LEMMA InitInvariant == CacheInit => IInv
<1> SUFFICES ASSUME CacheInit PROVE IInv
  OBVIOUS
<1> USE DEF Idle, Waiting, NoEntry
<1>1. /\ keyring = issued /\ settled = issued /\ memory = 0
      /\ cache = NoEntry /\ task = [a \in Admin |-> Idle]
      /\ caller = [r \in Caller |-> Waiting] /\ need = [r \in Caller |-> 0]
      /\ calls = 0 /\ clean = TRUE
  BY DEF CacheInit
<1>2. /\ RowType /\ issued \in Nat /\ seen \in {"untried", "up"}
      /\ seen = "untried" => issued = 0
      /\ \A i \in DOMAIN written : written[i] <= issued
      /\ row.state = "there" => issued <= written[row.stamp]
  <2>1. CASE /\ row = [state |-> "absent", stamp |-> 0, configured |-> FALSE]
             /\ issued = 0 /\ written = <<>> /\ seen = "untried"
    <3>1. written \in Seq(Nat) /\ DOMAIN written = {}
      BY <2>1
    <3> QED
      BY <2>1, <3>1 DEF RowType
  <2>2. CASE /\ row = [state |-> "there", stamp |-> 1, configured |-> TRUE]
             /\ issued = 1 /\ written = <<1>> /\ seen = "up"
    <3>1. written \in Seq(Nat) /\ DOMAIN written = {1} /\ written[1] = 1
      BY <2>2
    <3> QED
      BY <2>2, <3>1 DEF RowType
  <2> QED
    BY <2>1, <2>2 DEF CacheInit
<1>3. TypeOK
  <2>1. StoreType /\ CacheType
    BY <1>1, <1>2 DEF StoreType, CacheType
  <2>2. TaskType
    BY <1>1 DEF TaskType
  <2>3. CallerType
    BY <1>1 DEF CallerType
  <2>4. HistoryType
    BY <1>1, <1>2 DEF HistoryType
  <2> QED
    BY <1>2, <2>1, <2>2, <2>3, <2>4 DEF TypeOK
<1>4. StoresNewest /\ AdaptersFit /\ CallsUseRotated /\ CallersKnow
  BY <1>1, <1>2 DEF StoresNewest, AdaptersFit, CallsUseRotated, CallersKnow
<1>5. VersionsKnow
  BY <1>1, <1>2 DEF VersionsKnow
<1>6. TasksKnow
  <2> SUFFICES ASSUME NEW a \in Admin
               PROVE  task[a].pc = "idle" /\ task[a].cred = 0 /\ 0 <= issued
    BY DEF TasksKnow
  <2> QED
    BY <1>1, <1>2
<1> QED
  BY <1>3, <1>4, <1>5, <1>6 DEF IInv

\* A write of the row adds a version that knows all credentials issued so far
\* and keeps what is known of the others.
LEMMA WriteKeeps ==
  ASSUME TypeOK, VersionsKnow, written' = Append(written, issued)
  PROVE  /\ written' \in Seq(Nat)
         /\ Len(written) + 1 \in DOMAIN written'
         /\ written'[Len(written) + 1] = issued
         /\ \A i \in DOMAIN written : i \in DOMAIN written' /\ written'[i] = written[i]
         /\ \A i \in DOMAIN written' : written'[i] <= issued
<1>1. written \in Seq(Nat) /\ issued \in Nat
  BY DEF TypeOK, RowType, HistoryType
<1>2. \A i \in DOMAIN written : written[i] <= issued
  BY DEF VersionsKnow
<1> QED
  BY <1>1, <1>2

\* A write of the row keeps the types of the row and of what callers know of it.
LEMMA WriteRowType ==
  ASSUME TypeOK, NEW configured \in BOOLEAN, WriteRow(configured)
  PROVE  /\ RowType'
         /\ \A i \in DOMAIN written : i \in DOMAIN written'
<1>1. written \in Seq(Nat) /\ issued \in Nat
  BY DEF TypeOK, RowType, HistoryType
<1>2. written' = Append(written, issued)
  BY DEF WriteRow
<1>3. /\ written' \in Seq(Nat)
      /\ Len(written) + 1 \in Nat /\ Len(written) + 1 \in DOMAIN written'
      /\ \A i \in DOMAIN written : i \in DOMAIN written'
  BY <1>1, <1>2
<1>4. row' = [row EXCEPT !.stamp = Len(written) + 1, !.configured = configured]
  BY DEF WriteRow
<1>5. row' \in [state : {"absent", "there", "gone"}, stamp : Nat, configured : BOOLEAN]
      /\ row'.stamp = Len(written) + 1
  BY <1>3, <1>4 DEF TypeOK, RowType
<1>6. RowType'
  BY <1>3, <1>5 DEF RowType
<1> QED
  BY <1>3, <1>6

\* One administrator's call moves to another step of the same record type.
LEMMA TaskSetType ==
  ASSUME TaskType, NEW a \in Admin,
         NEW t \in [pc : {"idle", "write", "set", "configure", "invalidate",
                          "delete", "unset"},
                    rotates : BOOLEAN, kept : BOOLEAN, cred : Nat],
         task' = [task EXCEPT ![a] = t]
  PROVE  TaskType'
  BY DEF TaskType

LEMMA GotoType ==
  ASSUME TaskType, NEW a \in Admin,
         NEW pc \in {"set", "configure", "invalidate", "delete", "unset"}, Goto(a, pc)
  PROVE  TaskType'
  BY DEF TaskType, Goto

\* Every step keeps the types.
LEMMA TypeStep == TypeOK /\ [CacheNext]_cacheVars => TypeOK'
<1> SUFFICES ASSUME TypeOK, [CacheNext]_cacheVars PROVE TypeOK'
  OBVIOUS
<1> USE DEF TypeOK
<1>1. ASSUME NEW a \in Admin, Create(a) PROVE TypeOK'
  <2>1. RowType'
    BY <1>1 DEF Create, NewCall, Goto, RowType, HistoryType, stores
  <2>2. TaskType'
    BY <1>1, GotoType DEF Create
  <2>3. CallerType'
    BY <1>1 DEF Create, NewCall, Goto, CallerType, RowType, HistoryType, StoreType, CacheType, stores
  <2>4. HistoryType'
    BY <1>1 DEF Create, NewCall, Goto, HistoryType, TaskType, stores
  <2>5. StoreType' /\ CacheType'
    BY <1>1 DEF Create, stores, NewCall, Goto, StoreType, CacheType
  <2> QED
    BY <2>1, <2>2, <2>3, <2>4, <2>5
<1>2. ASSUME NEW a \in Admin, StartUpdate(a) PROVE TypeOK'
  <2>1. TaskType'
    <3>1. row.configured \in BOOLEAN
      BY DEF RowType
    <3> QED
      BY <1>2, <3>1, TaskSetType DEF StartUpdate, Idle
  <2>2. HistoryType'
    BY <1>2 DEF StartUpdate, NewCall, Idle, HistoryType, TaskType, stores
  <2>3. RowType' /\ StoreType' /\ CacheType' /\ CallerType'
    BY <1>2 DEF StartUpdate, stores, RowType, StoreType, CacheType, CallerType
  <2> QED
    BY <2>1, <2>2, <2>3
<1>3. ASSUME NEW a \in Admin, Write(a) PROVE TypeOK'
  <2>1. RowType' /\ \A i \in DOMAIN written : i \in DOMAIN written'
    <3>1. task[a].kept \in BOOLEAN
      BY DEF TaskType
    <3> QED
      BY <1>3, <3>1, WriteRowType DEF Write
  <2>2. TaskType'
    BY <1>3 DEF Write, WriteRow, Idle, TaskType, RowType, HistoryType, stores
  <2>3. CallerType'
    BY <1>3, <2>1 DEF Write, CallerType
  <2>4. StoreType' /\ CacheType' /\ HistoryType'
    BY <1>3 DEF Write, stores, WriteRow, Idle, StoreType, CacheType, HistoryType
  <2> QED
    BY <2>1, <2>2, <2>3, <2>4
<1>4. ASSUME NEW a \in Admin, WriteFails(a) PROVE TypeOK'
  <2>1. TaskType'
    BY <1>4 DEF WriteFails, EndCall, Idle, TaskType, RowType, HistoryType, stores
  <2>2. RowType' /\ StoreType' /\ CacheType' /\ CallerType' /\ HistoryType'
    BY <1>4 DEF WriteFails, stores, EndCall, Idle, RowType, StoreType, CacheType, CallerType, HistoryType
  <2> QED
    BY <2>1, <2>2
<1>5. ASSUME NEW a \in Admin, SetSecret(a) PROVE TypeOK'
  <2>1. StoreType'
    BY <1>5 DEF SetSecret, StoreSecret, KeyringUp, KeyringDown, StoreType, HistoryType, stores
  <2>2. TaskType'
    <3>1. [Idle EXCEPT !.pc = "configure", !.cred = issued + 1] \in
            [pc : {"idle", "write", "set", "configure", "invalidate", "delete", "unset"},
             rotates : BOOLEAN, kept : BOOLEAN, cred : Nat]
      <4>1. issued + 1 \in Nat
        BY DEF HistoryType
      <4> QED
        BY <4>1 DEF Idle
    <3>2. task' = [task EXCEPT ![a] = [Idle EXCEPT !.pc = "configure", !.cred = issued + 1]]
      BY <1>5 DEF SetSecret
    <3> QED
      BY <3>1, <3>2, TaskSetType
  <2>3. HistoryType'
    BY <1>5 DEF SetSecret, StoreSecret, KeyringUp, KeyringDown, HistoryType, TaskType, stores
  <2>4. RowType' /\ CacheType' /\ CallerType'
    BY <1>5 DEF SetSecret, stores, StoreSecret, KeyringUp, KeyringDown, RowType, CacheType, CallerType
  <2> QED
    BY <2>1, <2>2, <2>3, <2>4
<1>6. ASSUME NEW a \in Admin, Configure(a) PROVE TypeOK'
  <2>1. RowType' /\ \A i \in DOMAIN written : i \in DOMAIN written'
    BY <1>6, WriteRowType DEF Configure, ConfiguredBy
  <2>2. TaskType'
    BY <1>6 DEF Configure, WriteRow, ConfiguredBy, Goto, TaskType, RowType, HistoryType, stores
  <2>3. CallerType'
    BY <1>6, <2>1 DEF Configure, CallerType
  <2>4. StoreType' /\ CacheType' /\ HistoryType'
    BY <1>6 DEF Configure, stores, WriteRow, ConfiguredBy, Goto, StoreType, CacheType, HistoryType
  <2> QED
    BY <2>1, <2>2, <2>3, <2>4
<1>7. ASSUME NEW a \in Admin, ConfigureFails(a) PROVE TypeOK'
  <2>1. TaskType'
    BY <1>7 DEF ConfigureFails, EndCall, Idle, TaskType, RowType, HistoryType, stores
  <2>2. HistoryType'
    BY <1>7 DEF ConfigureFails, EndCall, Idle, HistoryType, TaskType, stores
  <2>3. RowType' /\ StoreType' /\ CacheType' /\ CallerType'
    BY <1>7 DEF ConfigureFails, stores, EndCall, Idle, RowType, StoreType, CacheType, CallerType
  <2> QED
    BY <2>1, <2>2, <2>3
<1>8. ASSUME NEW a \in Admin, Invalidate(a) PROVE TypeOK'
  <2>1. CacheType'
    BY <1>8 DEF Invalidate, Invalidated, NoEntry, EndCall, Idle, CacheType, CallerType, stores
  <2>2. TaskType'
    BY <1>8 DEF Invalidate, Invalidated, NoEntry, EndCall, Idle, TaskType, RowType, HistoryType, stores
  <2>3. HistoryType'
    BY <1>8 DEF Invalidate, Invalidated, NoEntry, EndCall, Idle, HistoryType, TaskType, stores
  <2>4. RowType' /\ StoreType' /\ CallerType'
    BY <1>8 DEF Invalidate, stores, Invalidated, NoEntry, EndCall, Idle, RowType, StoreType, CallerType
  <2> QED
    BY <2>1, <2>2, <2>3, <2>4
<1>9. ASSUME NEW a \in Admin, StartDelete(a) PROVE TypeOK'
  <2>1. TaskType'
    BY <1>9 DEF StartDelete, NewCall, Goto, TaskType, RowType, HistoryType, stores
  <2>2. HistoryType'
    BY <1>9 DEF StartDelete, NewCall, Goto, HistoryType, TaskType, stores
  <2>3. RowType' /\ StoreType' /\ CacheType' /\ CallerType'
    BY <1>9 DEF StartDelete, stores, NewCall, Goto, RowType, StoreType, CacheType, CallerType
  <2> QED
    BY <2>1, <2>2, <2>3
<1>10. ASSUME NEW a \in Admin, DeleteRow(a) PROVE TypeOK'
  <2>1. RowType'
    BY <1>10 DEF DeleteRow, Goto, RowType, HistoryType, stores
  <2>2. TaskType'
    BY <1>10 DEF DeleteRow, Goto, TaskType, RowType, HistoryType, stores
  <2>3. StoreType' /\ CacheType' /\ CallerType' /\ HistoryType'
    BY <1>10 DEF DeleteRow, stores, Goto, StoreType, CacheType, CallerType, HistoryType
  <2> QED
    BY <2>1, <2>2, <2>3
<1>11. ASSUME NEW a \in Admin, Unset(a) PROVE TypeOK'
  <2>1. StoreType'
    BY <1>11 DEF Unset, DropSecret, KeyringUp, KeyringDown, Goto, StoreType, HistoryType, stores
  <2>2. TaskType'
    BY <1>11 DEF Unset, DropSecret, KeyringUp, KeyringDown, Goto, TaskType, RowType, HistoryType, stores
  <2>3. RowType' /\ CacheType' /\ CallerType' /\ HistoryType'
    BY <1>11 DEF Unset, stores, DropSecret, KeyringUp, KeyringDown, Goto, RowType, CacheType, CallerType, HistoryType
  <2> QED
    BY <2>1, <2>2, <2>3
<1>12. ASSUME NEW r \in Caller, ReadRow(r) PROVE TypeOK'
  <2>1. CallerType'
    BY <1>12 DEF ReadRow, CallerType, RowType, HistoryType, StoreType, CacheType, stores
  <2>2. RowType' /\ StoreType' /\ CacheType' /\ TaskType' /\ HistoryType'
    BY <1>12 DEF ReadRow, stores, RowType, StoreType, CacheType, TaskType, HistoryType
  <2> QED
    BY <2>1, <2>2
<1>13. ASSUME NEW r \in Caller, Hit(r) PROVE TypeOK'
  <2>1. CallerType'
    BY <1>13 DEF Hit, Holding, CallerType, RowType, HistoryType, StoreType, CacheType, stores
  <2>2. RowType' /\ StoreType' /\ CacheType' /\ TaskType' /\ HistoryType'
    BY <1>13 DEF Hit, stores, Holding, RowType, StoreType, CacheType, TaskType, HistoryType
  <2> QED
    BY <2>1, <2>2
<1>14. ASSUME NEW r \in Caller, Miss(r) PROVE TypeOK'
  <2>1. CallerType'
    BY <1>14 DEF Miss, CallerType, RowType, HistoryType, StoreType, CacheType, stores
  <2>2. RowType' /\ StoreType' /\ CacheType' /\ TaskType' /\ HistoryType'
    BY <1>14 DEF Miss, stores, RowType, StoreType, CacheType, TaskType, HistoryType
  <2> QED
    BY <2>1, <2>2
<1>15. ASSUME NEW r \in Caller, Resolve(r) PROVE TypeOK'
  <2>1. StoreType'
    BY <1>15 DEF Resolve, GetSecret, KeyringUp, KeyringDown, StoreType, HistoryType, stores
  <2>2. CallerType'
    <3>1. PICK value \in {0, keyring, memory} :
            caller' = [caller EXCEPT ![r].pc = "insert", ![r].cred = value]
      BY <1>15 DEF Resolve
    <3>2. value \in Nat
      BY DEF StoreType
    <3>3. caller[r].pc = "resolve" /\ written' = written /\ need' = need
      BY <1>15 DEF Resolve
    <3>4. caller' \in [Caller -> [pc : {"idle", "look", "resolve", "insert", "call"},
                                  stamp : Nat, cred : Nat]]
      BY <3>1, <3>2 DEF CallerType
    <3>5. ASSUME NEW q \in Caller, caller'[q].pc \in {"look", "resolve", "insert"}
          PROVE  caller'[q].stamp \in DOMAIN written'
      <4>1. caller'[q].stamp = caller[q].stamp
        BY <3>1, <3>2 DEF CallerType
      <4>2. caller[q].pc \in {"look", "resolve", "insert"}
        <5>1. CASE q = r
          BY <3>3, <5>1
        <5>2. CASE q # r
          BY <3>1, <3>5, <5>2 DEF CallerType
        <5> QED
          BY <5>1, <5>2
      <4>3. caller[q].stamp \in DOMAIN written
        BY <4>2 DEF CallerType
      <4> QED
        BY <3>3, <4>1, <4>3
    <3>6. need' \in [Caller -> Nat]
      BY <3>3 DEF CallerType
    <3> QED
      BY <3>4, <3>5, <3>6 DEF CallerType
  <2>3. RowType' /\ CacheType' /\ TaskType' /\ HistoryType'
    BY <1>15 DEF Resolve, stores, GetSecret, KeyringUp, KeyringDown, RowType, CacheType, TaskType, HistoryType
  <2> QED
    BY <2>1, <2>2, <2>3
<1>16. ASSUME NEW r \in Caller, Insert(r) PROVE TypeOK'
  <2>1. CacheType'
    <3>1. caller[r].stamp \in Nat \ {0} /\ caller[r].cred \in Nat
      BY <1>16 DEF Insert, CallerType, RowType
    <3> QED
      BY <1>16, <3>1 DEF Insert, CacheType
  <2>2. CallerType'
    BY <1>16 DEF Insert, Holding, CallerType, RowType, HistoryType, StoreType, CacheType, stores
  <2>3. RowType' /\ StoreType' /\ TaskType' /\ HistoryType'
    BY <1>16 DEF Insert, stores, Holding, RowType, StoreType, TaskType, HistoryType
  <2> QED
    BY <2>1, <2>2, <2>3
<1>17. ASSUME NEW r \in Caller, CallOver(r) PROVE TypeOK'
  <2>1. CallerType'
    BY <1>17 DEF CallOver, Release, Waiting, CallerType, RowType, HistoryType, StoreType, CacheType, stores
  <2>2. RowType' /\ StoreType' /\ CacheType' /\ TaskType' /\ HistoryType'
    BY <1>17 DEF CallOver, stores, Release, Waiting, RowType, StoreType, CacheType, TaskType, HistoryType
  <2> QED
    BY <2>1, <2>2
<1>18. ASSUME NEW r \in Caller, RecordHealth(r) PROVE TypeOK'
  <2>1. RowType' /\ \A i \in DOMAIN written : i \in DOMAIN written'
    <3>1. CASE WriteRow(row.configured)
      BY <3>1, WriteRowType DEF RowType
    <3>2. CASE UNCHANGED <<row, written>>
      BY <3>2 DEF RowType
    <3> QED
      BY <1>18, <3>1, <3>2 DEF RecordHealth
  <2>2. CallerType'
    BY <1>18, <2>1 DEF RecordHealth, Release, Waiting, CallerType
  <2>3. HistoryType'
    BY <1>18 DEF RecordHealth, HistoryType
  <2>4. StoreType' /\ CacheType' /\ TaskType'
    BY <1>18 DEF RecordHealth, stores, StoreType, CacheType, TaskType
  <2> QED
    BY <2>1, <2>2, <2>3, <2>4
<1>19. ASSUME Restart PROVE TypeOK'
  <2>1. StoreType'
    BY <1>19 DEF Restart, Invalidated, NoEntry, Idle, Waiting, StoreType, HistoryType, stores
  <2>2. CacheType'
    BY <1>19 DEF Restart, Invalidated, NoEntry, Idle, Waiting, CacheType, CallerType, stores
  <2>3. TaskType'
    BY <1>19 DEF Restart, Idle, TaskType
  <2>4. CallerType'
    BY <1>19 DEF Restart, Waiting, CallerType
  <2>5. HistoryType'
    <3>1. clean' \in BOOLEAN
      BY <1>19 DEF Restart
    <3> QED
      BY <1>19, <3>1 DEF Restart, HistoryType
  <2>6. RowType'
    BY <1>19 DEF Restart, RowType
  <2> QED
    BY <2>1, <2>2, <2>3, <2>4, <2>5, <2>6
<1>20. CASE UNCHANGED cacheVars
  BY <1>20 DEF cacheVars, stores, RowType, StoreType, CacheType, TaskType, CallerType, HistoryType
<1> QED
  BY <1>1, <1>2, <1>3, <1>4, <1>5, <1>6, <1>7, <1>8, <1>9, <1>10, <1>11, <1>12, <1>13, <1>14, <1>15, <1>16, <1>17, <1>18, <1>19, <1>20 DEF CacheNext

\* Only a change of the stores or a new credential can disturb StoresNewest.
LEMMA StoresStep == TypeOK /\ StoresNewest /\ [CacheNext]_cacheVars => StoresNewest'
<1> SUFFICES ASSUME TypeOK, StoresNewest, [CacheNext]_cacheVars PROVE StoresNewest'
  OBVIOUS
<1> USE DEF StoresNewest, Steady
<1>0. keyring \in Nat /\ memory \in Nat /\ issued \in Nat
      /\ seen \in {"untried", "up", "down", "mixed"}
  BY DEF TypeOK, StoreType, HistoryType
<1>1. ASSUME NEW a \in Admin, SetSecret(a) PROVE StoresNewest'
  <2>1. issued' = issued + 1 /\ StoreSecret(issued + 1)
    BY <1>1 DEF SetSecret
  <2> QED
    BY <1>0, <2>1 DEF StoreSecret, KeyringUp, KeyringDown
<1>2. ASSUME NEW a \in Admin, Unset(a) PROVE StoresNewest'
  <2>1. issued' = issued /\ DropSecret
    BY <1>2 DEF Unset
  <2> QED
    BY <1>0, <2>1 DEF DropSecret, KeyringUp, KeyringDown
<1>3. ASSUME NEW r \in Caller, Resolve(r) PROVE StoresNewest'
  <2>1. issued' = issued /\ \E value \in {0, keyring, memory} : GetSecret(value)
    BY <1>3 DEF Resolve
  <2> QED
    BY <1>0, <2>1 DEF GetSecret, KeyringUp, KeyringDown
<1>4. CASE Restart
  BY <1>0, <1>4 DEF Restart
<1>5. CASE UNCHANGED <<stores, issued>>
  BY <1>5 DEF stores
<1>6. CASE \E a \in Admin : \/ Create(a) \/ StartUpdate(a) \/ Write(a) \/ WriteFails(a)
                             \/ Configure(a) \/ ConfigureFails(a) \/ Invalidate(a)
                             \/ StartDelete(a) \/ DeleteRow(a)
  BY <1>5, <1>6 DEF Create, StartUpdate, Write, WriteFails, Configure, ConfigureFails,
                    Invalidate, StartDelete, DeleteRow
<1>7. CASE \E r \in Caller : \/ ReadRow(r) \/ Hit(r) \/ Miss(r) \/ Insert(r)
                              \/ CallOver(r) \/ RecordHealth(r)
  BY <1>5, <1>7 DEF ReadRow, Hit, Miss, Insert, CallOver, RecordHealth
<1>8. CASE UNCHANGED cacheVars
  BY <1>5, <1>8 DEF cacheVars
<1> QED
  BY <1>1, <1>2, <1>3, <1>4, <1>6, <1>7, <1>8 DEF CacheNext

\* Versions that were written stay as they are, credentials only become more,
\* and a keyring that came or went is not forgotten.
Kept ==
  /\ \A i \in DOMAIN written : i \in DOMAIN written' /\ written'[i] = written[i]
  /\ issued <= issued'
  /\ Steady' => Steady

LEMMA EveryStepKeeps == IInv /\ [CacheNext]_cacheVars => Kept
<1> SUFFICES ASSUME IInv, [CacheNext]_cacheVars PROVE Kept
  OBVIOUS
<1> USE DEF Kept, Steady
<1>0. issued \in Nat /\ TypeOK /\ VersionsKnow
  BY DEF IInv, TypeOK, HistoryType
<1>1. CASE written' = Append(written, issued) /\ UNCHANGED <<issued, seen>>
  BY <1>0, <1>1, WriteKeeps
<1>2. CASE UNCHANGED <<written, issued, seen>>
  BY <1>0, <1>2
<1>3. CASE UNCHANGED <<written, issued>> /\ (KeyringUp \/ KeyringDown)
  BY <1>0, <1>3 DEF KeyringUp, KeyringDown
<1>4. CASE UNCHANGED written /\ issued' = issued + 1 /\ (KeyringUp \/ KeyringDown)
  BY <1>0, <1>4 DEF KeyringUp, KeyringDown
<1>5. ASSUME NEW a \in Admin, Create(a) \/ Write(a) \/ Configure(a) PROVE Kept
  BY <1>1, <1>5 DEF Create, Write, Configure, WriteRow, stores
<1>6. ASSUME NEW a \in Admin, SetSecret(a) PROVE Kept
  BY <1>4, <1>6 DEF SetSecret, StoreSecret
<1>7. ASSUME NEW a \in Admin, Unset(a) PROVE Kept
  BY <1>3, <1>7 DEF Unset, DropSecret
<1>8. ASSUME NEW r \in Caller, Resolve(r) PROVE Kept
  BY <1>3, <1>8 DEF Resolve, GetSecret
<1>9. ASSUME NEW r \in Caller, RecordHealth(r) PROVE Kept
  BY <1>1, <1>2, <1>9 DEF RecordHealth, WriteRow, stores
<1>10. ASSUME NEW a \in Admin,
              \/ StartUpdate(a) \/ WriteFails(a) \/ ConfigureFails(a)
              \/ Invalidate(a) \/ StartDelete(a) \/ DeleteRow(a)
       PROVE  Kept
  BY <1>2, <1>10 DEF StartUpdate, WriteFails, ConfigureFails, Invalidate, StartDelete,
                     DeleteRow, stores
<1>11. ASSUME NEW r \in Caller, \/ ReadRow(r) \/ Hit(r) \/ Miss(r) \/ Insert(r) \/ CallOver(r)
       PROVE  Kept
  BY <1>2, <1>11 DEF ReadRow, Hit, Miss, Insert, CallOver, stores
<1>12. CASE Restart \/ UNCHANGED cacheVars
  BY <1>2, <1>12 DEF Restart, cacheVars, stores
<1> QED
  BY <1>5, <1>6, <1>7, <1>8, <1>9, <1>10, <1>11, <1>12 DEF CacheNext

\* VersionsKnow: a write knows all that is issued, a return adds what the row's
\* version already knows.
LEMMA VersionsStep == IInv /\ [CacheNext]_cacheVars => VersionsKnow'
<1> SUFFICES ASSUME IInv, [CacheNext]_cacheVars PROVE VersionsKnow'
  OBVIOUS
<1>0. /\ TypeOK /\ VersionsKnow /\ TasksKnow /\ issued \in Nat /\ settled \in Nat
      /\ row.state = "there" => row.stamp \in DOMAIN written
      /\ written \in Seq(Nat)
  BY DEF IInv, TypeOK, RowType, HistoryType
<1>1. CASE /\ written' = Append(written, issued) /\ UNCHANGED <<issued, settled>>
           /\ row'.stamp = Len(written) + 1
  BY <1>0, <1>1, WriteKeeps DEF VersionsKnow
<1>2. CASE UNCHANGED <<row, written, issued, settled>>
  BY <1>2, <1>0 DEF VersionsKnow
<1>3. \A c \in BOOLEAN : WriteRow(c) => /\ row'.stamp = Len(written) + 1
                                       /\ written' = Append(written, issued)
  BY <1>0 DEF WriteRow, TypeOK, RowType
<1>4. ASSUME NEW a \in Admin, Create(a) PROVE VersionsKnow'
  BY <1>1, <1>4 DEF Create
<1>5. ASSUME NEW a \in Admin, Write(a) \/ Configure(a) PROVE VersionsKnow'
  <2>1. task[a].kept \in BOOLEAN
    BY <1>0 DEF TypeOK, TaskType
  <2> QED
    BY <1>1, <1>3, <1>5, <2>1 DEF Write, Configure, ConfiguredBy
<1>6. ASSUME NEW a \in Admin, SetSecret(a) PROVE VersionsKnow'
  BY <1>0, <1>6 DEF SetSecret, VersionsKnow
<1>7. ASSUME NEW a \in Admin, Invalidate(a) PROVE VersionsKnow'
  <2>1. /\ task[a].cred <= issued /\ task[a].cred \in Nat
        /\ row.state = "there" => task[a].cred <= written[row.stamp]
    BY <1>0, <1>7 DEF Invalidate, TasksKnow, TypeOK, TaskType
  <2>2. /\ UNCHANGED <<row, written, issued>>
        /\ settled' = IF task[a].cred > settled THEN task[a].cred ELSE settled
    BY <1>7 DEF Invalidate
  <2> QED
    BY <1>0, <2>1, <2>2 DEF VersionsKnow
<1>8. ASSUME NEW a \in Admin, DeleteRow(a) PROVE VersionsKnow'
  <2>1. row'.state = "gone"
    BY <1>0, <1>8 DEF DeleteRow, TypeOK, RowType
  <2> QED
    BY <1>0, <1>8, <2>1 DEF DeleteRow, VersionsKnow
<1>9. ASSUME NEW a \in Admin,
             StartUpdate(a) \/ WriteFails(a) \/ ConfigureFails(a) \/ StartDelete(a) \/ Unset(a)
      PROVE  VersionsKnow'
  BY <1>2, <1>9 DEF StartUpdate, WriteFails, ConfigureFails, StartDelete, Unset
<1>10. ASSUME NEW r \in Caller, RecordHealth(r) PROVE VersionsKnow'
  <2>1. row.configured \in BOOLEAN
    BY <1>0 DEF TypeOK, RowType
  <2> QED
    BY <1>1, <1>2, <1>3, <1>10, <2>1 DEF RecordHealth
<1>11. ASSUME NEW r \in Caller,
              ReadRow(r) \/ Hit(r) \/ Miss(r) \/ Resolve(r) \/ Insert(r) \/ CallOver(r)
       PROVE  VersionsKnow'
  BY <1>2, <1>11 DEF ReadRow, Hit, Miss, Resolve, Insert, CallOver
<1>12. CASE Restart \/ UNCHANGED cacheVars
  BY <1>2, <1>12 DEF Restart, cacheVars
<1> QED
  BY <1>4, <1>5, <1>6, <1>7, <1>8, <1>9, <1>10, <1>11, <1>12 DEF CacheNext

\* TasksKnow: every step of a call either has no credential yet, or writes a
\* version that knows it before it returns.
LEMMA TasksStep == IInv /\ [CacheNext]_cacheVars => TasksKnow'
<1> SUFFICES ASSUME IInv, [CacheNext]_cacheVars, NEW b \in Admin
             PROVE  /\ task'[b].cred <= issued'
                    /\ task'[b].pc \notin {"configure", "invalidate"} => task'[b].cred = 0
                    /\ (task'[b].pc = "invalidate" /\ row'.state = "there") =>
                          task'[b].cred <= written'[row'.stamp]
  BY DEF TasksKnow
<1> DEFINE Fits == /\ task'[b].cred <= issued'
                   /\ task'[b].pc \notin {"configure", "invalidate"} => task'[b].cred = 0
                   /\ (task'[b].pc = "invalidate" /\ row'.state = "there") =>
                         task'[b].cred <= written'[row'.stamp]
<1>0. /\ TypeOK /\ VersionsKnow /\ Kept /\ VersionsKnow' /\ TypeOK'
      /\ issued \in Nat /\ issued' \in Nat
      /\ task[b].cred \in Nat /\ task'[b].cred \in Nat
      /\ row.state = "there" => row.stamp \in DOMAIN written
  BY EveryStepKeeps, VersionsStep, TypeStep
     DEF IInv, TypeOK, HistoryType, TaskType, RowType
<1>1. /\ task[b].cred <= issued
      /\ task[b].pc \notin {"configure", "invalidate"} => task[b].cred = 0
      /\ (task[b].pc = "invalidate" /\ row.state = "there") =>
            task[b].cred <= written[row.stamp]
      /\ task[b].cred <= issued'
  BY <1>0 DEF IInv, TasksKnow, Kept
<1>2. CASE task'[b].cred = 0
  <2>1. row'.state = "there" => written'[row'.stamp] \in Nat
    BY <1>0 DEF TypeOK, RowType
  <2> QED
    BY <1>0, <1>2, <2>1
<1>3. CASE UNCHANGED <<row, written>> /\ task'[b] = task[b]
  BY <1>1, <1>3
<1>4. CASE /\ written' = Append(written, issued) /\ UNCHANGED issued
           /\ row'.stamp = Len(written) + 1
           /\ task'[b] = task[b] \/ (task'[b].pc = "invalidate" /\ task'[b].cred = task[b].cred)
  <2>1. written'[row'.stamp] = issued
    BY <1>0, <1>4, WriteKeeps
  <2> QED
    BY <1>1, <1>4, <2>1
<1>5. \A c \in BOOLEAN : WriteRow(c) => /\ row'.stamp = Len(written) + 1
                                       /\ written' = Append(written, issued)
  BY <1>0 DEF WriteRow, TypeOK, RowType
<1>6. \A a \in Admin : EndCall(a) => IF b = a THEN task'[b].cred = 0 ELSE task'[b] = task[b]
  BY <1>0 DEF EndCall, Idle, TypeOK, TaskType
<1>7. \A a \in Admin, pc \in {"set", "configure", "invalidate", "delete", "unset"} :
        Goto(a, pc) => /\ task'[b].cred = task[b].cred
                       /\ b # a => task'[b] = task[b]
                       /\ b = a => task'[b].pc = pc
  BY <1>0 DEF Goto, TypeOK, TaskType
<1>8. ASSUME NEW a \in Admin, Create(a) PROVE Fits
  <2>1. task[a].pc = "idle" /\ (Goto(a, "set") \/ Goto(a, "invalidate"))
    BY <1>8 DEF Create, NewCall
  <2>2. CASE b = a
    BY <1>1, <1>2, <1>7, <2>1, <2>2
  <2>3. CASE b # a
    BY <1>4, <1>7, <1>8, <2>1, <2>3 DEF Create
  <2> QED
    BY <2>2, <2>3
<1>9. ASSUME NEW a \in Admin, StartUpdate(a) PROVE Fits
  <2>1. IF b = a THEN task'[b].cred = 0 ELSE task'[b] = task[b]
    BY <1>0, <1>9 DEF StartUpdate, Idle, TypeOK, TaskType
  <2> QED
    BY <1>2, <1>3, <1>9, <2>1 DEF StartUpdate
<1>10. ASSUME NEW a \in Admin, Write(a) PROVE Fits
  <2>1. IF b = a THEN task'[b].cred = 0 ELSE task'[b] = task[b]
    BY <1>0, <1>10 DEF Write, Idle, TypeOK, TaskType
  <2>2. task[a].kept \in BOOLEAN
    BY <1>0 DEF TypeOK, TaskType
  <2> QED
    BY <1>2, <1>4, <1>5, <1>10, <2>1, <2>2 DEF Write
<1>11. ASSUME NEW a \in Admin, WriteFails(a) \/ ConfigureFails(a) PROVE Fits
  BY <1>2, <1>3, <1>6, <1>11 DEF WriteFails, ConfigureFails
<1>12. ASSUME NEW a \in Admin, Invalidate(a) PROVE Fits
  BY <1>2, <1>3, <1>6, <1>12 DEF Invalidate
<1>13. ASSUME NEW a \in Admin, SetSecret(a) PROVE Fits
  <2>1. /\ UNCHANGED <<row, written>> /\ issued' = issued + 1
        /\ b # a => task'[b] = task[b]
        /\ b = a => task'[b].pc = "configure" /\ task'[b].cred = issued'
    BY <1>0, <1>13 DEF SetSecret, Idle, TypeOK, TaskType
  <2> QED
    BY <1>0, <1>3, <2>1
<1>14. ASSUME NEW a \in Admin, Configure(a) PROVE Fits
  <2>1. WriteRow(TRUE) /\ Goto(a, "invalidate") /\ UNCHANGED issued
    BY <1>14 DEF Configure, ConfiguredBy
  <2> QED
    BY <1>4, <1>5, <1>7, <2>1
<1>15. ASSUME NEW a \in Admin, StartDelete(a) \/ Unset(a) PROVE Fits
  <2>1. /\ task[a].pc \in {"idle", "unset"} /\ UNCHANGED <<row, written>>
        /\ Goto(a, "delete") \/ Goto(a, "invalidate")
    BY <1>15 DEF StartDelete, NewCall, Unset
  <2> QED
    BY <1>1, <1>2, <1>3, <1>7, <2>1
<1>16. ASSUME NEW a \in Admin, DeleteRow(a) PROVE Fits
  <2>1. row'.state = "gone" /\ task[a].pc = "delete" /\ Goto(a, "unset")
    BY <1>0, <1>16 DEF DeleteRow, TypeOK, RowType
  <2> QED
    BY <1>1, <1>2, <1>7, <2>1
<1>17. ASSUME NEW r \in Caller, RecordHealth(r) PROVE Fits
  <2>1. row.configured \in BOOLEAN
    BY <1>0 DEF TypeOK, RowType
  <2> QED
    BY <1>3, <1>4, <1>5, <1>17, <2>1 DEF RecordHealth
<1>18. ASSUME NEW r \in Caller,
              ReadRow(r) \/ Hit(r) \/ Miss(r) \/ Resolve(r) \/ Insert(r) \/ CallOver(r)
       PROVE  Fits
  BY <1>3, <1>18 DEF ReadRow, Hit, Miss, Resolve, Insert, CallOver
<1>19. CASE Restart
  BY <1>2, <1>19 DEF Restart, Idle
<1>20. CASE UNCHANGED cacheVars
  BY <1>3, <1>20 DEF cacheVars
<1> QED
  BY <1>8, <1>9, <1>10, <1>11, <1>12, <1>13, <1>14, <1>15, <1>16, <1>17, <1>18, <1>19, <1>20
     DEF CacheNext

\* Administrators' steps leave callers alone; of the callers' steps, these leave
\* the cache alone too.
LEMMA AdminsLeaveCallers ==
  ASSUME NEW a \in Admin,
         \/ Create(a) \/ StartUpdate(a) \/ Write(a) \/ WriteFails(a) \/ SetSecret(a)
         \/ Configure(a) \/ ConfigureFails(a) \/ Invalidate(a) \/ StartDelete(a)
         \/ DeleteRow(a) \/ Unset(a)
  PROVE  UNCHANGED <<caller, need>> /\ (cache' = cache \/ cache' = NoEntry)
  BY DEF Create, StartUpdate, Write, WriteFails, SetSecret, Configure, ConfigureFails,
         Invalidate, Invalidated, StartDelete, DeleteRow, Unset

LEMMA CallersStep == IInv /\ [CacheNext]_cacheVars => CallersKnow'
<1> SUFFICES ASSUME IInv, [CacheNext]_cacheVars, NEW q \in Caller
             PROVE  caller'[q].pc \in {"look", "resolve", "insert"} =>
                      need'[q] <= written'[caller'[q].stamp]
  BY DEF CallersKnow
<1> DEFINE Fits == caller'[q].pc \in {"look", "resolve", "insert"} =>
                     need'[q] <= written'[caller'[q].stamp]
<1>0. /\ TypeOK /\ CallersKnow /\ VersionsKnow /\ Kept
      /\ row.state = "there" => row.stamp \in DOMAIN written
      /\ caller[q].pc \in {"look", "resolve", "insert"} => caller[q].stamp \in DOMAIN written
  BY EveryStepKeeps DEF IInv, TypeOK, RowType, CallerType
<1>1. CASE /\ need'[q] = need[q] /\ caller'[q].stamp = caller[q].stamp
           /\ \/ caller'[q].pc \notin {"look", "resolve", "insert"}
              \/ caller[q].pc \in {"look", "resolve", "insert"}
  BY <1>0, <1>1 DEF CallersKnow, Kept
<1>2. CASE caller'[q].pc \notin {"look", "resolve", "insert"}
  BY <1>2
<1>3. CASE UNCHANGED <<caller, need>>
  BY <1>1, <1>3
<1>4. ASSUME NEW r \in Caller, ReadRow(r) PROVE Fits
  <2>1. /\ row.state = "there" /\ UNCHANGED <<written>>
        /\ q = r => caller'[q].stamp = row.stamp /\ need'[q] = settled
        /\ q # r => caller'[q] = caller[q] /\ need'[q] = need[q]
    BY <1>0, <1>4 DEF ReadRow, TypeOK, CallerType
  <2> QED
    BY <1>0, <1>1, <2>1 DEF VersionsKnow
<1>5. ASSUME NEW r \in Caller, Hit(r) \/ Insert(r) PROVE Fits
  <2>1. /\ need' = need
        /\ q = r => caller'[q].pc = "call"
        /\ q # r => caller'[q] = caller[q]
    BY <1>0, <1>5 DEF Hit, Insert, Holding, TypeOK, CallerType
  <2> QED
    BY <1>1, <1>2, <2>1
<1>6. ASSUME NEW r \in Caller, Miss(r) \/ Resolve(r) PROVE Fits
  <2>1. /\ need' = need /\ caller'[q].stamp = caller[q].stamp
        /\ caller[r].pc \in {"look", "resolve"}
        /\ q # r => caller'[q] = caller[q]
    BY <1>0, <1>6 DEF Miss, Resolve, TypeOK, CallerType
  <2> QED
    BY <1>1, <2>1
<1>7. ASSUME NEW r \in Caller, CallOver(r) \/ RecordHealth(r) PROVE Fits
  <2>1. IF q = r THEN caller'[q].pc = "idle"
                 ELSE caller'[q] = caller[q] /\ need'[q] = need[q]
    BY <1>0, <1>7 DEF CallOver, RecordHealth, Release, Waiting, TypeOK, CallerType
  <2> QED
    BY <1>1, <1>2, <2>1
<1>8. CASE Restart
  BY <1>2, <1>8 DEF Restart, Waiting
<1>9. CASE UNCHANGED cacheVars
  BY <1>3, <1>9 DEF cacheVars
<1> QED
  BY <1>3, <1>4, <1>5, <1>6, <1>7, <1>8, <1>9, AdminsLeaveCallers DEF CacheNext

\* What is cached fits its version: a caller inserts what fits the version it read.
LEMMA EntryStep == IInv /\ [CacheNext]_cacheVars /\ Steady' =>
                     (cache'.stamp # 0 => /\ cache'.stamp \in DOMAIN written'
                                          /\ \/ cache'.cred = 0
                                             \/ cache'.cred >= written'[cache'.stamp])
<1> SUFFICES ASSUME IInv, [CacheNext]_cacheVars, Steady', cache'.stamp # 0
             PROVE  /\ cache'.stamp \in DOMAIN written'
                    /\ cache'.cred = 0 \/ cache'.cred >= written'[cache'.stamp]
  OBVIOUS
<1>0. /\ AdaptersFit /\ Steady
      /\ \A i \in DOMAIN written : i \in DOMAIN written' /\ written'[i] = written[i]
      /\ \A r \in Caller : caller[r].pc = "insert" => caller[r].stamp \in DOMAIN written
  BY EveryStepKeeps DEF IInv, TypeOK, CallerType, Kept
<1>1. CASE UNCHANGED cache
  BY <1>0, <1>1 DEF AdaptersFit, NotOlder
<1>2. cache' # NoEntry
  BY DEF NoEntry
<1>3. ASSUME NEW r \in Caller, Insert(r)
      PROVE  /\ cache'.stamp \in DOMAIN written'
             /\ cache'.cred = 0 \/ cache'.cred >= written'[cache'.stamp]
  <2>1. /\ cache'.stamp = caller[r].stamp /\ cache'.cred = caller[r].cred
        /\ caller[r].pc = "insert"
    BY <1>3 DEF Insert
  <2> QED
    BY <1>0, <2>1 DEF AdaptersFit, NotOlder
<1>4. CASE \E r \in Caller : \/ ReadRow(r) \/ Hit(r) \/ Miss(r) \/ Resolve(r)
                              \/ CallOver(r) \/ RecordHealth(r)
  BY <1>1, <1>4 DEF ReadRow, Hit, Miss, Resolve, CallOver, RecordHealth
<1>5. ~Restart
  BY <1>2 DEF Restart, Invalidated
<1>6. CASE UNCHANGED cacheVars
  BY <1>1, <1>6 DEF cacheVars
<1> QED
  BY <1>1, <1>2, <1>3, <1>4, <1>5, <1>6, AdminsLeaveCallers DEF CacheNext

\* What a caller is about to insert fits its version: the stores answer the newest
\* credential or none.
LEMMA InsertStep == IInv /\ [CacheNext]_cacheVars /\ Steady' =>
                      \A q \in Caller : caller'[q].pc = "insert" =>
                        \/ caller'[q].cred = 0
                        \/ caller'[q].cred >= written'[caller'[q].stamp]
<1> SUFFICES ASSUME IInv, [CacheNext]_cacheVars, Steady', NEW q \in Caller, caller'[q].pc = "insert"
             PROVE  caller'[q].cred = 0 \/ caller'[q].cred >= written'[caller'[q].stamp]
  OBVIOUS
<1>0. /\ TypeOK /\ AdaptersFit /\ Steady /\ StoresNewest
      /\ \A i \in DOMAIN written : /\ i \in DOMAIN written' /\ written'[i] = written[i]
                                   /\ written[i] <= issued
      /\ caller[q].pc \in {"look", "resolve", "insert"} => caller[q].stamp \in DOMAIN written
  BY EveryStepKeeps DEF IInv, TypeOK, CallerType, Kept, VersionsKnow
<1>1. CASE caller'[q] = caller[q]
  BY <1>0, <1>1 DEF AdaptersFit, NotOlder
<1>2. ASSUME NEW r \in Caller, \/ ReadRow(r) \/ Hit(r) \/ Miss(r) \/ Insert(r)
                              \/ CallOver(r) \/ RecordHealth(r)
      PROVE  caller'[q] = caller[q]
  BY <1>0, <1>2 DEF ReadRow, Hit, Holding, Miss, Insert, CallOver, RecordHealth, Release,
                    Waiting, TypeOK, CallerType
<1>3. ASSUME NEW r \in Caller, Resolve(r), q = r
      PROVE  caller'[q].cred = 0 \/ caller'[q].cred >= written'[caller'[q].stamp]
  <2>1. PICK value \in {0, keyring, memory} :
          /\ GetSecret(value)
          /\ caller' = [caller EXCEPT ![r].pc = "insert", ![r].cred = value]
    BY <1>3 DEF Resolve
  <2>2. value = 0 \/ value = issued
    BY <1>0 DEF StoresNewest
  <2>3. caller'[q].cred = value /\ caller'[q].stamp = caller[q].stamp
    BY <1>0, <1>3, <2>1 DEF TypeOK, CallerType
  <2>4. caller[q].stamp \in DOMAIN written
    BY <1>0, <1>3 DEF Resolve
  <2>5. /\ written'[caller[q].stamp] <= issued
        /\ issued \in Nat /\ written'[caller[q].stamp] \in Nat
    BY <1>0, <2>4 DEF TypeOK, HistoryType, RowType
  <2> QED
    BY <2>2, <2>3, <2>5
<1>4. ASSUME NEW r \in Caller, Resolve(r), q # r PROVE caller'[q] = caller[q]
  BY <1>0, <1>4 DEF Resolve, TypeOK, CallerType
<1>5. ~Restart
  BY DEF Restart, Waiting
<1>6. CASE UNCHANGED cacheVars
  BY <1>1, <1>6 DEF cacheVars
<1> QED
  BY <1>1, <1>2, <1>3, <1>4, <1>5, <1>6, AdminsLeaveCallers DEF CacheNext

\* A caller whose credential fits a version has all it needs if the version has.
LEMMA Chain ==
  ASSUME NEW cred \in Nat, NEW known \in Nat, NEW needed \in Nat,
         cred = 0 \/ cred >= known, needed <= known
  PROVE  cred = 0 \/ cred >= needed
  OBVIOUS

\* CallsUseRotated: a caller gets to call with what fits the version it read,
\* and that version knew all that it needs.
LEMMA CallsStep == IInv /\ [CacheNext]_cacheVars => CallsUseRotated'
<1> SUFFICES ASSUME IInv, [CacheNext]_cacheVars, Steady', NEW q \in Caller, caller'[q].pc = "call"
             PROVE  caller'[q].cred = 0 \/ caller'[q].cred >= need'[q]
  BY DEF CallsUseRotated
<1>0. /\ TypeOK /\ Steady /\ CallsUseRotated /\ AdaptersFit /\ CallersKnow
  BY EveryStepKeeps DEF IInv, Kept
<1>1. CASE caller'[q] = caller[q] /\ need'[q] = need[q]
  BY <1>0, <1>1 DEF CallsUseRotated
<1>2. ASSUME caller[q].pc \in {"look", "resolve", "insert"}
      PROVE  /\ caller[q].stamp \in DOMAIN written /\ caller[q].stamp # 0
             /\ need[q] \in Nat /\ written[caller[q].stamp] \in Nat
             /\ need[q] <= written[caller[q].stamp]
  <2>1. caller[q].stamp \in DOMAIN written /\ need[q] \in Nat
    BY <1>0, <1>2 DEF TypeOK, CallerType
  <2>2. caller[q].stamp # 0 /\ written[caller[q].stamp] \in Nat
    BY <1>0, <2>1 DEF TypeOK, RowType
  <2> QED
    BY <1>0, <1>2, <2>1, <2>2 DEF CallersKnow
<1>3. ASSUME Hit(q) PROVE caller'[q].cred = 0 \/ caller'[q].cred >= need'[q]
  <2>1. /\ need'[q] = need[q] /\ caller[q].pc = "look" /\ cache.stamp = caller[q].stamp
        /\ caller'[q].cred = cache.cred
    BY <1>0, <1>3 DEF Hit, Matches, Holding, TypeOK, CallerType
  <2>2. cache.cred \in Nat /\ (cache.cred = 0 \/ cache.cred >= written[caller[q].stamp])
    BY <1>0, <1>2, <2>1 DEF AdaptersFit, NotOlder, TypeOK, CacheType
  <2> QED
    BY <1>2, <2>1, <2>2, Chain
<1>4. ASSUME Insert(q) PROVE caller'[q].cred = 0 \/ caller'[q].cred >= need'[q]
  <2>1. /\ need'[q] = need[q] /\ caller[q].pc = "insert"
        /\ caller'[q].cred = caller[q].cred
    BY <1>0, <1>4 DEF Insert, Holding, TypeOK, CallerType
  <2>2. /\ caller[q].cred \in Nat
        /\ caller[q].cred = 0 \/ caller[q].cred >= written[caller[q].stamp]
    BY <1>0, <2>1 DEF AdaptersFit, NotOlder, TypeOK, CallerType
  <2> QED
    BY <1>2, <2>1, <2>2, Chain
<1>5. ASSUME NEW r \in Caller, Hit(r) \/ Insert(r), q # r
      PROVE  caller'[q] = caller[q] /\ need'[q] = need[q]
  BY <1>0, <1>5 DEF Hit, Insert, TypeOK, CallerType
<1>6. ASSUME NEW r \in Caller,
             ReadRow(r) \/ Miss(r) \/ Resolve(r) \/ CallOver(r) \/ RecordHealth(r)
      PROVE  caller'[q] = caller[q] /\ need'[q] = need[q]
  <2>1. q # r
    BY <1>0, <1>6 DEF ReadRow, Miss, Resolve, CallOver, RecordHealth, Release, Waiting,
                      TypeOK, CallerType
  <2> QED
    BY <1>0, <1>6, <2>1 DEF ReadRow, Miss, Resolve, CallOver, RecordHealth, Release,
                            TypeOK, CallerType
<1>7. ~Restart
  BY DEF Restart, Waiting
<1>8. CASE UNCHANGED cacheVars
  BY <1>1, <1>8 DEF cacheVars
<1> QED
  BY <1>1, <1>3, <1>4, <1>5, <1>6, <1>7, <1>8, AdminsLeaveCallers DEF CacheNext

-----------------------------------------------------------------------------

\* Row, stores, cache, calls and callers keep their types whatever overlaps,
\* fails or restarts.
THEOREM TypeCorrect == CacheSpec => []TypeOK
<1>1. CacheInit => TypeOK
  BY InitInvariant DEF IInv
<1>2. TypeOK /\ [CacheNext]_cacheVars => TypeOK'
  BY TypeStep
<1> QED
  BY <1>1, <1>2, PTL DEF CacheSpec

\* Every step keeps the invariant.
LEMMA StepInvariant == IInv /\ [CacheNext]_cacheVars => IInv'
<1> SUFFICES ASSUME IInv, [CacheNext]_cacheVars PROVE IInv'
  OBVIOUS
<1>1. TypeOK' /\ StoresNewest'
  BY TypeStep, StoresStep DEF IInv
<1>2. VersionsKnow' /\ TasksKnow' /\ CallersKnow'
  BY VersionsStep, TasksStep, CallersStep
<1>3. AdaptersFit'
  BY EntryStep, InsertStep DEF AdaptersFit, NotOlder
<1>4. CallsUseRotated'
  BY CallsStep
<1> QED
  BY <1>1, <1>2, <1>3, <1>4 DEF IInv

LEMMA Invariant == CacheSpec => []IInv
<1> QED
  BY InitInvariant, StepInvariant, PTL DEF CacheSpec

\* For any number of administrators and callers, a caller that reads the row
\* after a rotation has returned never calls with an older credential.
THEOREM CallsUseRotatedAlways == CacheSpec => []CallsUseRotated
<1>1. IInv => CallsUseRotated
  BY DEF IInv
<1> QED
  BY <1>1, Invariant, PTL

-----------------------------------------------------------------------------
(* The console's mark.                                                     *)

Has == keyring # 0 \/ memory # 0
Marked == row.state = "there" /\ row.configured
Agree == Has <=> Marked

\* What a call under way knows: it keeps the mark it read, it has stored the
\* credential it will mark, it drops the credential of a row that is gone.
Told(a) ==
  /\ task[a].pc \in {"write", "delete", "invalidate"} => Agree
  /\ task[a].pc = "write" => (task[a].kept <=> row.configured)
  /\ task[a].pc = "configure" => Has
  /\ task[a].pc = "unset" => row.state = "gone"

\* MarkAgrees speaks of the times between two calls only.
MarkInv == clean /\ Steady =>
  /\ \A a, b \in Admin : task[a].pc # "idle" /\ task[b].pc # "idle" => a = b
  /\ (\A a \in Admin : task[a].pc = "idle") => Agree
  /\ \A a \in Admin : Told(a)

LEMMA MarkInit == CacheInit => MarkInv
<1> SUFFICES ASSUME CacheInit PROVE MarkInv
  OBVIOUS
<1>1. \A a \in Admin : task[a].pc = "idle"
  BY DEF CacheInit, Idle
<1>2. Agree
  <2>1. CASE issued = 0 /\ row.state = "absent"
    BY <2>1 DEF CacheInit, Agree, Has, Marked
  <2>2. CASE issued = 1 /\ row = [state |-> "there", stamp |-> 1, configured |-> TRUE]
    BY <2>2 DEF CacheInit, Agree, Has, Marked
  <2> QED BY <2>1, <2>2 DEF CacheInit
<1> QED BY <1>1, <1>2 DEF MarkInv, Told

\* While only one call is under way its next step answers for all.
LEMMA OneCall ==
  ASSUME NEW a \in Admin, Told(a)', task'[a].pc = "idle" => Agree',
         \A b \in Admin : b # a => task[b].pc = "idle" /\ task'[b] = task[b]
  PROVE  MarkInv'
<1>1. \A b \in Admin : b # a => task'[b].pc = "idle"
  OBVIOUS
<1>2. \A b \in Admin : Told(b)'
  BY <1>1 DEF Told
<1> QED BY <1>1, <1>2 DEF MarkInv

\* A step of a call finds all others idle, unless calls overlapped.
LEMMA Alone ==
  ASSUME MarkInv, clean, Steady, NEW a \in Admin, task[a].pc # "idle"
  PROVE  /\ \A b \in Admin : b # a => task[b].pc = "idle"
         /\ Told(a)
  BY DEF MarkInv

\* What a new call finds.
LEMMA AloneNew ==
  ASSUME MarkInv, Steady, NEW a \in Admin, NewCall(a), clean'
  PROVE  (\A b \in Admin : task[b].pc = "idle") /\ Agree
  BY DEF MarkInv, NewCall

\* A step that leaves the calls, the stores and what the mark says.
LEMMA MarkStays ==
  ASSUME MarkInv, UNCHANGED <<keyring, memory, task>>, clean' => clean, Steady' => Steady,
         row'.state = row.state, row'.configured = row.configured
  PROVE  MarkInv'
<1>1. Agree' <=> Agree
  BY DEF Agree, Has, Marked
<1>2. \A a \in Admin : Told(a) => Told(a)'
  BY <1>1 DEF Told, Has
<1> QED BY <1>1, <1>2 DEF MarkInv

\* What each step of a call makes of the mark.
LEMMA CallMarks ==
  ASSUME IInv, MarkInv, [CacheNext]_cacheVars, clean', Steady', NEW a \in Admin,
         \/ Create(a) \/ StartUpdate(a) \/ Write(a) \/ WriteFails(a) \/ SetSecret(a)
         \/ Configure(a) \/ Invalidate(a) \/ StartDelete(a) \/ DeleteRow(a) \/ Unset(a)
  PROVE  MarkInv'
<1>0. /\ RowType /\ TaskType /\ HistoryType /\ StoresNewest /\ Steady
  BY EveryStepKeeps DEF IInv, TypeOK, Kept
<1>1. /\ row \in [state : {"absent", "there", "gone"}, stamp : Nat, configured : BOOLEAN]
      /\ Len(written) + 1 \in Nat /\ issued \in Nat
      /\ task[a].kept \in BOOLEAN
  BY <1>0 DEF RowType, TaskType, HistoryType
<1>2. CASE Create(a)
  <2>1. (\A b \in Admin : task[b].pc = "idle") /\ Agree
    BY <1>0, <1>2, AloneNew DEF Create
  <2>2. /\ \A b \in Admin : b # a => task'[b] = task[b]
        /\ task'[a].pc \in {"set", "invalidate"}
    BY <1>0, <1>2 DEF Create, Goto, TaskType
  <2>3. ~Marked /\ ~Marked' /\ UNCHANGED <<keyring, memory>>
    BY <1>2 DEF Create, Marked, stores
  <2>4. Agree'
    BY <2>1, <2>3 DEF Agree, Has
  <2> QED BY <2>1, <2>2, <2>4, OneCall DEF Told
<1>3. CASE StartUpdate(a)
  <2>1. (\A b \in Admin : task[b].pc = "idle") /\ Agree
    BY <1>0, <1>3, AloneNew DEF StartUpdate
  <2>2. PICK rotates \in BOOLEAN :
          task' = [task EXCEPT ![a] = [Idle EXCEPT !.pc = "write", !.rotates = rotates,
                                                   !.kept = row.configured]]
    BY <1>3 DEF StartUpdate
  <2>3. /\ \A b \in Admin : b # a => task'[b] = task[b]
        /\ task'[a].pc = "write" /\ task'[a].kept = row.configured
    BY <1>0, <2>2 DEF TaskType, Idle
  <2>4. Agree' /\ row' = row
    BY <1>3, <2>1 DEF StartUpdate, Agree, Has, Marked, stores
  <2> QED BY <2>1, <2>3, <2>4, OneCall DEF Told
<1>4. CASE Write(a)
  <2>1. (\A b \in Admin : b # a => task[b].pc = "idle") /\ Told(a) /\ task[a].pc = "write"
    BY <1>0, <1>4, Alone DEF Write
  <2>2. /\ \A b \in Admin : b # a => task'[b] = task[b]
        /\ task'[a].pc \in {"set", "invalidate"}
    BY <1>0, <1>4 DEF Write, Idle, TaskType
  <2>3. Agree /\ (task[a].kept <=> row.configured)
    BY <2>1 DEF Told
  <2>4. row'.state = row.state /\ row'.configured = task[a].kept
    BY <1>1, <1>4 DEF Write, WriteRow
  <2>5. Agree'
    BY <1>4, <2>3, <2>4 DEF Write, Agree, Has, Marked, stores
  <2> QED BY <2>1, <2>2, <2>5, OneCall DEF Told
<1>5. CASE WriteFails(a)
  <2>1. (\A b \in Admin : b # a => task[b].pc = "idle") /\ Told(a)
        /\ task[a].pc \in {"write", "delete"}
    BY <1>0, <1>5, Alone DEF WriteFails
  <2>2. (\A b \in Admin : b # a => task'[b] = task[b]) /\ task'[a].pc = "idle"
    BY <1>0, <1>5 DEF WriteFails, EndCall, Idle, TaskType
  <2>3. Agree'
    BY <1>5, <2>1 DEF WriteFails, Told, Agree, Has, Marked, stores
  <2> QED BY <2>1, <2>2, <2>3, OneCall DEF Told
<1>6. CASE SetSecret(a)
  <2>1. (\A b \in Admin : b # a => task[b].pc = "idle") /\ Told(a)
    BY <1>0, <1>6, Alone DEF SetSecret
  <2>2. (\A b \in Admin : b # a => task'[b] = task[b]) /\ task'[a].pc = "configure"
    BY <1>0, <1>6 DEF SetSecret, Idle, TaskType
  <2>3. Has'
    BY <1>1, <1>6 DEF SetSecret, StoreSecret, Has
  <2> QED BY <2>1, <2>2, <2>3, OneCall DEF Told
<1>7. CASE Configure(a)
  <2>1. (\A b \in Admin : b # a => task[b].pc = "idle") /\ Told(a) /\ task[a].pc = "configure"
    BY <1>0, <1>7, Alone DEF Configure
  <2>2. (\A b \in Admin : b # a => task'[b] = task[b]) /\ task'[a].pc = "invalidate"
    BY <1>0, <1>7 DEF Configure, Goto, TaskType
  <2>3. row'.state = "there" /\ row'.configured = TRUE
    BY <1>1, <1>7 DEF Configure, ConfiguredBy, WriteRow
  <2>4. Agree'
    BY <1>7, <2>1, <2>3 DEF Configure, Told, Agree, Has, Marked, stores
  <2> QED BY <2>1, <2>2, <2>4, OneCall DEF Told
<1>8. CASE Invalidate(a)
  <2>1. (\A b \in Admin : b # a => task[b].pc = "idle") /\ Told(a) /\ task[a].pc = "invalidate"
    BY <1>0, <1>8, Alone DEF Invalidate
  <2>2. (\A b \in Admin : b # a => task'[b] = task[b]) /\ task'[a].pc = "idle"
    BY <1>0, <1>8 DEF Invalidate, EndCall, Idle, TaskType
  <2>3. Agree'
    BY <1>8, <2>1 DEF Invalidate, Told, Agree, Has, Marked, stores
  <2> QED BY <2>1, <2>2, <2>3, OneCall DEF Told
<1>9. CASE StartDelete(a)
  <2>1. (\A b \in Admin : task[b].pc = "idle") /\ Agree
    BY <1>0, <1>9, AloneNew DEF StartDelete
  <2>2. (\A b \in Admin : b # a => task'[b] = task[b]) /\ task'[a].pc = "delete"
    BY <1>0, <1>9 DEF StartDelete, Goto, TaskType
  <2>3. Agree'
    BY <1>9, <2>1 DEF StartDelete, Agree, Has, Marked, stores
  <2> QED BY <2>1, <2>2, <2>3, OneCall DEF Told
<1>10. CASE DeleteRow(a)
  <2>1. \A b \in Admin : b # a => task[b].pc = "idle"
    BY <1>0, <1>10, Alone DEF DeleteRow
  <2>2. (\A b \in Admin : b # a => task'[b] = task[b]) /\ task'[a].pc = "unset"
    BY <1>0, <1>10 DEF DeleteRow, Goto, TaskType
  <2>3. row'.state = "gone"
    BY <1>1, <1>10 DEF DeleteRow
  <2> QED BY <2>1, <2>2, <2>3, OneCall DEF Told
<1>11. CASE Unset(a)
  <2>1. (\A b \in Admin : b # a => task[b].pc = "idle") /\ Told(a) /\ task[a].pc = "unset"
    BY <1>0, <1>11, Alone DEF Unset
  <2>2. (\A b \in Admin : b # a => task'[b] = task[b]) /\ task'[a].pc = "invalidate"
    BY <1>0, <1>11 DEF Unset, Goto, TaskType
  <2>3. ~Marked'
    BY <1>11, <2>1 DEF Unset, Told, Marked
  <2>4. ~Has'
    BY <1>0, <1>11 DEF Unset, DropSecret, KeyringUp, KeyringDown, Steady, StoresNewest, Has
  <2> QED BY <2>1, <2>2, <2>3, <2>4, OneCall DEF Told, Agree
<1> QED BY <1>2, <1>3, <1>4, <1>5, <1>6, <1>7, <1>8, <1>9, <1>10, <1>11

\* Every step keeps what the mark says.
LEMMA MarkStep == IInv /\ MarkInv /\ [CacheNext]_cacheVars => MarkInv'
<1> SUFFICES ASSUME IInv, MarkInv, [CacheNext]_cacheVars, clean', Steady' PROVE MarkInv'
  BY DEF MarkInv
<1>0. Steady /\ TypeOK
  BY EveryStepKeeps DEF IInv, Kept
<1>1. ASSUME NEW a \in Admin, ConfigureFails(a) PROVE MarkInv'
  BY <1>1 DEF ConfigureFails
<1>2. ASSUME NEW r \in Caller,
             ReadRow(r) \/ Hit(r) \/ Miss(r) \/ Resolve(r) \/ Insert(r) \/ CallOver(r)
      PROVE  MarkInv'
  <2>1. UNCHANGED <<row, keyring, memory, task, clean>>
    BY <1>2 DEF ReadRow, Hit, Miss, Resolve, GetSecret, Insert, CallOver, stores
  <2> QED BY <1>0, <2>1, MarkStays
<1>3. ASSUME NEW r \in Caller, RecordHealth(r) PROVE MarkInv'
  <2>1. UNCHANGED <<keyring, memory, task, clean>>
    BY <1>3 DEF RecordHealth, stores
  <2>2. row'.state = row.state /\ row'.configured = row.configured
    BY <1>0, <1>3 DEF RecordHealth, WriteRow, TypeOK, RowType
  <2> QED BY <1>0, <2>1, <2>2, MarkStays
<1>4. CASE Restart
  <2>1. /\ clean /\ memory = 0 /\ \A a \in Admin : task[a].pc = "idle"
        /\ memory' = 0 /\ UNCHANGED <<row, keyring>>
        /\ \A a \in Admin : task'[a].pc = "idle"
    BY <1>4 DEF Restart, Idle
  <2>2. Agree'
    BY <1>0, <2>1 DEF MarkInv, Agree, Has, Marked
  <2> QED BY <2>1, <2>2 DEF MarkInv, Told
<1>5. CASE UNCHANGED cacheVars
  BY <1>0, <1>5, MarkStays DEF cacheVars, stores
<1> QED BY <1>1, <1>2, <1>3, <1>4, <1>5, CallMarks DEF CacheNext

\* Between two calls that neither overlapped nor ended half way the stores have a
\* credential exactly if the console says so, whatever restarted in between.
THEOREM MarkTellsTheTruth == CacheSpec => []MarkAgrees
<1>1. MarkInv => MarkAgrees
  BY DEF MarkInv, MarkAgrees, Agree, Has, Marked
<1>2. IInv /\ [CacheNext]_cacheVars => IInv'
  BY StepInvariant
<1> QED
  BY <1>1, <1>2, InitInvariant, MarkInit, MarkStep, PTL DEF CacheSpec

-----------------------------------------------------------------------------
(* The frames of a vendor's stream.                                        *)

Usages == [input : Nat, output : Nat, cached : Nat]
Report == {{}} \union {{u} : u \in Usages}

\* A frame has its fields, and carries neither a reason to stop nor usage.
Framed(f) == {"type", "index", "delta", "text", "id", "reason", "usage"} \subseteq DOMAIN f
Plain(f) == Framed(f) /\ f.reason = "" /\ f.usage = {}

LEMMA PlainFrame ==
  ASSUME NEW t
  PROVE  /\ Plain(Frame(t))
         /\ Frame(t).type = t /\ Frame(t).delta = "none" /\ Frame(t).text = <<>>
BY DEF Frame, Framed, Plain

LEMMA PieceFrame ==
  ASSUME NEW t, NEW d, NEW i, NEW p
  PROVE  /\ Plain(Piece(t, d, i, p))
         /\ Piece(t, d, i, p).type = t /\ Piece(t, d, i, p).delta = d
         /\ Piece(t, d, i, p).index = i
BY DEF Piece, Frame, Framed, Plain

LEMMA AnnouncedFrame ==
  ASSUME NEW t, NEW i, NEW b
  PROVE  /\ Plain(Announced(t, i, b))
         /\ Announced(t, i, b).type = t /\ Announced(t, i, b).index = i
         /\ Announced(t, i, b).delta = IF b.kind = "call" THEN "call" ELSE "none"
BY DEF Announced, Frame, Framed, Plain

\* What arrives as the n-th frame of part k.
Sent(k, n) == FramesOf(k)[n]
BlockAt(k) == answer.blocks[k]
InBlocks(k) == k \in 1 .. Ending - 1

LEMMA PartsOfAnswer ==
  ASSUME answer \in AnswerType
  PROVE  /\ Len(answer.blocks) \in Nat /\ Ending = Len(answer.blocks) + 1
         /\ \A k : InBlocks(k) => /\ k \in Nat \ {0} /\ k # Ending /\ BlockAt(k) \in Block
                                  /\ BlockAt(k).kind \in {"text", "think", "call"}
                                  /\ BlockAt(k).pieces \in Seq(STRING)
                                  /\ Len(BlockAt(k).pieces) \in Nat
                                  /\ FramesOf(k) = BlockFrames(k)
         /\ FramesOf(0) = HeadFrames /\ FramesOf(Ending) = TailFrames
<1>1. answer.blocks \in Seq(Block)
  BY DEF AnswerType
<1>2. Len(answer.blocks) \in Nat
  BY <1>1
<1>3. ASSUME NEW k, InBlocks(k)
      PROVE  k \in Nat \ {0} /\ k # Ending /\ BlockAt(k) \in Block /\ FramesOf(k) = BlockFrames(k)
  BY <1>1, <1>2, <1>3 DEF InBlocks, Ending, BlockAt, FramesOf
<1>4. \A b \in Block : /\ b.kind \in {"text", "think", "call"}
                       /\ b.pieces \in Seq(STRING) /\ Len(b.pieces) \in Nat
  BY DEF Block
<1>5. FramesOf(0) = HeadFrames /\ FramesOf(Ending) = TailFrames
  BY <1>2 DEF FramesOf, Ending
<1> QED BY <1>2, <1>3, <1>4, <1>5 DEF Ending

\* The pieces of a block, one frame each.
LEMMA PieceFrames ==
  ASSUME NEW t, NEW d, NEW i, NEW b \in Block
  PROVE  /\ \E S : Pieces(t, d, i, b) \in Seq(S)
         /\ Len(Pieces(t, d, i, b)) = Len(b.pieces)
         /\ \A n \in 1 .. Len(b.pieces) : /\ Plain(Pieces(t, d, i, b)[n])
                                          /\ Pieces(t, d, i, b)[n].type = t
                                          /\ Pieces(t, d, i, b)[n].delta = d
                                          /\ Pieces(t, d, i, b)[n].index = i
<1> DEFINE m == Len(b.pieces)
<1> DEFINE S == {Piece(t, d, i, b.pieces[n]) : n \in 1 .. m}
<1>1. m \in Nat
  BY DEF Block
<1>2. Pieces(t, d, i, b) \in Seq(S) /\ Len(Pieces(t, d, i, b)) = m
  BY <1>1 DEF Pieces
<1>3. \A n \in 1 .. m : Pieces(t, d, i, b)[n] = Piece(t, d, i, b.pieces[n])
  BY DEF Pieces
<1> QED BY <1>2, <1>3, PieceFrame

LEMMA CallsAreNumbered ==
  ASSUME answer \in AnswerType
  PROVE  /\ \A k : InBlocks(k) => CallsBefore(k) \in Nat
         /\ \A j, k : IsCall(j) /\ IsCall(k) /\ CallsBefore(j) = CallsBefore(k) => j = k
<1> DEFINE S(k) == {j \in 1 .. k - 1 : answer.blocks[j].kind = "call"}
<1>1. \A k : InBlocks(k) => k \in Nat
  BY PartsOfAnswer
<1>2. ASSUME NEW k \in Nat PROVE IsFiniteSet(S(k)) /\ Cardinality(S(k)) \in Nat
  <2>1. IsFiniteSet(1 .. k - 1)
    BY FS_Interval
  <2>2. IsFiniteSet(S(k))
    BY <2>1, FS_Subset
  <2> QED BY <2>2, FS_CardinalityType
<1>3. ASSUME NEW j \in Nat, NEW k \in Nat, IsCall(j), j < k
      PROVE  Cardinality(S(j)) < Cardinality(S(k))
  <2>1. S(j) \subseteq S(k) /\ j \in S(k) /\ j \notin S(j)
    BY <1>3 DEF IsCall
  <2>2. S(j) \subseteq S(k) /\ S(j) # S(k)
    BY <2>1
  <2>3. IsFiniteSet(S(k))
    BY <1>2
  <2>4. IsFiniteSet(S(j)) /\ Cardinality(S(j)) \in Nat
    BY <1>2
  <2>5. Cardinality(S(j) \union {j}) = Cardinality(S(j)) + 1
    BY <2>1, <2>4, FS_AddElement
  <2>6. Cardinality(S(j) \union {j}) <= Cardinality(S(k))
    <3>1. S(j) \union {j} \subseteq S(k)
      BY <2>1
    <3> HIDE DEF S
    <3> QED BY <2>3, <3>1, FS_Subset
  <2>7. Cardinality(S(k)) \in Nat
    BY <1>2
  <2> HIDE DEF S
  <2> QED BY <2>4, <2>5, <2>6, <2>7
<1>4. \A k : CallsBefore(k) = Cardinality(S(k))
  BY DEF CallsBefore
<1>5. \A k : IsCall(k) => k \in Nat
  BY <1>1 DEF IsCall, InBlocks
<1> HIDE DEF S
<1>6. ASSUME NEW j, NEW k, IsCall(j), IsCall(k), CallsBefore(j) = CallsBefore(k) PROVE j = k
  <2>1. j \in Nat /\ k \in Nat
    BY <1>5, <1>6
  <2>2. Cardinality(S(j)) = Cardinality(S(k)) /\ Cardinality(S(j)) \in Nat
    BY <1>2, <1>4, <1>6, <2>1
  <2>3. ~(j < k) /\ ~(k < j)
    BY <1>3, <1>6, <2>1, <2>2
  <2> QED BY <2>1, <2>3
<1> QED BY <1>1, <1>2, <1>4, <1>6

\* What arrives of the parts of an answer.
Heads(f) == /\ Framed(f) /\ f.delta = "none" /\ f.reason = ""
            /\ protocol \in {"openai", "gemini"} => f.type = "chunk"
            /\ protocol = "responses" => f.type = "response.created"
            /\ protocol = "anthropic" => f.type = "message_start"
Tails(n, f) ==
  /\ Framed(f) /\ f.delta = "none"
  /\ protocol \in {"openai", "gemini"} => f.type = "chunk"
  /\ protocol = "responses" =>
       f.type = IF Reason(protocol, answer.reason) = "completed" THEN "response.completed"
                ELSE "response.incomplete"
  /\ protocol = "anthropic" => f.type = IF n = 1 THEN "message_delta" ELSE "message_stop"

\* One frame announces a block, the others are its pieces; a message closes it,
\* too, and a generated call is one frame.
Chunked(k, n, f) ==
  LET call == BlockAt(k).kind = "call" IN
  /\ f.delta = IF ~call THEN BlockAt(k).kind ELSE IF n = 1 THEN "call" ELSE "args"
  /\ call => f.index = CallsBefore(k)
  /\ f.type = "chunk" \/ (call /\ n > 1 /\ f.type = "untyped")
Itemised(k, n, f) ==
  LET call == BlockAt(k).kind = "call" IN
  /\ f.index = k - 1
  /\ n = 1 => f.type = "response.output_item.added" /\ f.delta = IF call THEN "call" ELSE "none"
  /\ n > 1 => f.type = CASE call -> "response.function_call_arguments.delta"
                         [] BlockAt(k).kind = "text" -> "response.output_text.delta"
                         [] OTHER -> "response.reasoning_summary_text.delta"
Opening(k, n, f) ==
  LET call == BlockAt(k).kind = "call" IN
  IF n = 1 THEN /\ f.type = "content_block_start" /\ f.index = k - 1
                /\ f.delta = IF call THEN "call" ELSE "none"
  ELSE IF n < Len(FramesOf(k))
  THEN f.type = "content_block_delta" /\ f.delta = IF call THEN "args" ELSE BlockAt(k).kind
  ELSE f.type = "content_block_stop"
Generated(k, f) ==
  /\ f.type = "chunk"
  /\ f.delta = BlockAt(k).kind

LEMMA HeadSent ==
  ASSUME answer \in AnswerType, protocol \in Protocol
  PROVE  Len(FramesOf(0)) = 1 /\ Heads(Sent(0, 1)) /\ Sent(0, 1).usage \in Report
         /\ (protocol \in {"openai", "responses"} => Sent(0, 1).usage = {})
<1>1. FramesOf(0) = HeadFrames
  BY PartsOfAnswer
<1> DEFINE u == [input |-> 2, output |-> 1, cached |-> 1]
<1> DEFINE v == [input |-> 2, output |-> 0, cached |-> 1]
<1>2. {u} \in Report /\ {v} \in Report /\ {} \in Report
  BY DEF Report, Usages
<1>3. CASE protocol = "openai"
  <2>1. HeadFrames = <<Frame("chunk")>>
    BY <1>3 DEF HeadFrames
  <2>2. Sent(0, 1) = Frame("chunk") /\ Len(FramesOf(0)) = 1
    BY <1>1, <2>1 DEF Sent
  <2>3. Plain(Sent(0, 1)) /\ Sent(0, 1).type = "chunk" /\ Sent(0, 1).delta = "none"
    BY <2>2, PlainFrame
  <2> HIDE DEF u, v
  <2> QED BY <1>2, <1>3, <2>2, <2>3 DEF Heads, Plain
<1>4. CASE protocol = "responses"
  <2>1. HeadFrames = <<Frame("response.created")>>
    BY <1>4 DEF HeadFrames
  <2>2. Sent(0, 1) = Frame("response.created") /\ Len(FramesOf(0)) = 1
    BY <1>1, <2>1 DEF Sent
  <2>3. Plain(Sent(0, 1)) /\ Sent(0, 1).type = "response.created" /\ Sent(0, 1).delta = "none"
    BY <2>2, PlainFrame
  <2> HIDE DEF u, v
  <2> QED BY <1>2, <1>4, <2>2, <2>3 DEF Heads, Plain
<1>5. CASE protocol = "anthropic"
  <2> DEFINE f == [Frame("message_start") EXCEPT !.usage = {u}]
  <2>1. HeadFrames = <<f>>
    BY <1>5 DEF HeadFrames, Usage
  <2>2. f.type = "message_start" /\ f.delta = "none" /\ f.reason = "" /\ f.usage = {u} /\ Framed(f)
    BY DEF Frame, Framed
  <2> HIDE DEF u, v, f
  <2>3. Sent(0, 1) = f /\ Len(FramesOf(0)) = 1
    BY <1>1, <2>1 DEF Sent
  <2> QED BY <1>2, <1>5, <2>2, <2>3 DEF Heads
<1>6. CASE protocol = "gemini"
  <2> DEFINE f == [Frame("chunk") EXCEPT !.usage = {v}]
  <2>1. HeadFrames = <<f>>
    BY <1>6 DEF HeadFrames, Usage
  <2>2. f.type = "chunk" /\ f.delta = "none" /\ f.reason = "" /\ f.usage = {v} /\ Framed(f)
    BY DEF Frame, Framed
  <2> HIDE DEF u, v, f
  <2>3. Sent(0, 1) = f /\ Len(FramesOf(0)) = 1
    BY <1>1, <2>1 DEF Sent
  <2> QED BY <1>2, <1>6, <2>2, <2>3 DEF Heads
<1> QED BY <1>3, <1>4, <1>5, <1>6 DEF Protocol

LEMMA TailSent ==
  ASSUME answer \in AnswerType, protocol \in Protocol
  PROVE  /\ Len(FramesOf(Ending)) = IF protocol \in {"openai", "anthropic"} THEN 2 ELSE 1
         /\ \A n \in 1 .. Len(FramesOf(Ending)) :
              /\ Tails(n, Sent(Ending, n)) /\ Sent(Ending, n).usage \in Report
              /\ protocol = "anthropic" => IF n = 1 THEN Sent(Ending, n).usage # {}
                                           ELSE Plain(Sent(Ending, n))
<1>1. FramesOf(Ending) = TailFrames
  BY PartsOfAnswer
<1> DEFINE reason == Reason(protocol, answer.reason)
<1> DEFINE u == [input |-> 2, output |-> 3, cached |-> 1]
<1> DEFINE v == [input |-> 0, output |-> 3, cached |-> 0]
<1>2. {u} \in Report /\ {v} \in Report /\ {} \in Report
  BY DEF Report, Usages
<1>3. CASE protocol = "openai"
  <2> DEFINE f == [Frame("chunk") EXCEPT !.reason = reason]
  <2> DEFINE g == [Frame("chunk") EXCEPT !.usage = {u}]
  <2>1. TailFrames = <<f, g>>
    BY <1>3 DEF TailFrames, Usage
  <2>2. f.type = "chunk" /\ f.delta = "none" /\ f.usage = {} /\ Framed(f)
    BY DEF Frame, Framed
  <2>3. g.type = "chunk" /\ g.delta = "none" /\ g.usage = {u} /\ Framed(g)
    BY DEF Frame, Framed
  <2> HIDE DEF reason, u, v, f, g
  <2>4. Len(FramesOf(Ending)) = 2 /\ Sent(Ending, 1) = f /\ Sent(Ending, 2) = g
    BY <1>1, <2>1 DEF Sent
  <2>5. \A n \in 1 .. 2 : n = 1 \/ n = 2
    OBVIOUS
  <2> QED BY <1>2, <1>3, <2>2, <2>3, <2>4, <2>5 DEF Tails
<1>4. CASE protocol = "responses"
  <2> DEFINE t == IF reason = "completed" THEN "response.completed" ELSE "response.incomplete"
  <2> DEFINE f == [Frame(t) EXCEPT !.reason = reason, !.usage = {u}]
  <2>1. TailFrames = <<f>>
    BY <1>4 DEF TailFrames, Usage
  <2>2. f.type = t /\ f.delta = "none" /\ f.usage = {u} /\ Framed(f)
    BY DEF Frame, Framed
  <2> HIDE DEF u, v, f
  <2>3. Len(FramesOf(Ending)) = 1 /\ Sent(Ending, 1) = f
    BY <1>1, <2>1 DEF Sent
  <2>4. \A n \in 1 .. 1 : n = 1
    OBVIOUS
  <2> QED BY <1>2, <1>4, <2>2, <2>3, <2>4 DEF Tails
<1>5. CASE protocol = "anthropic"
  <2> DEFINE f == [Frame("message_delta") EXCEPT !.reason = reason, !.usage = {v}]
  <2> DEFINE g == Frame("message_stop")
  <2>1. TailFrames = <<f, g>>
    BY <1>5 DEF TailFrames, Usage
  <2>2. f.type = "message_delta" /\ f.delta = "none" /\ f.usage = {v} /\ Framed(f)
    BY DEF Frame, Framed
  <2>3. g.type = "message_stop" /\ g.delta = "none" /\ g.usage = {} /\ Plain(g)
    BY DEF Frame, Framed, Plain
  <2> HIDE DEF reason, u, v, f, g
  <2>4. Len(FramesOf(Ending)) = 2 /\ Sent(Ending, 1) = f /\ Sent(Ending, 2) = g
    BY <1>1, <2>1 DEF Sent
  <2>5. \A n \in 1 .. 2 : n = 1 \/ n = 2
    OBVIOUS
  <2> QED BY <1>2, <1>5, <2>2, <2>3, <2>4, <2>5 DEF Tails, Plain
<1>6. CASE protocol = "gemini"
  <2> DEFINE f == [Frame("chunk") EXCEPT !.reason = reason, !.usage = {u}]
  <2>1. TailFrames = <<f>>
    BY <1>6 DEF TailFrames, Usage
  <2>2. f.type = "chunk" /\ f.delta = "none" /\ f.usage = {u} /\ Framed(f)
    BY DEF Frame, Framed
  <2> HIDE DEF reason, u, v, f
  <2>3. Len(FramesOf(Ending)) = 1 /\ Sent(Ending, 1) = f
    BY <1>1, <2>1 DEF Sent
  <2>4. \A n \in 1 .. 1 : n = 1
    OBVIOUS
  <2> QED BY <1>2, <1>6, <2>2, <2>3, <2>4 DEF Tails
<1> QED BY <1>3, <1>4, <1>5, <1>6 DEF Protocol

\* A list put behind one frame, or between two.
LEMMA Behind ==
  ASSUME NEW f, NEW S, NEW list \in Seq(S)
  PROVE  /\ Len(<<f>> \o list) = Len(list) + 1
         /\ \A n \in 1 .. Len(list) + 1 : (<<f>> \o list)[n] = IF n = 1 THEN f ELSE list[n - 1]
<1> DEFINE T == S \union {f}
<1>1. <<f>> \in Seq(T) /\ list \in Seq(T) /\ Len(<<f>>) = 1 /\ <<f>>[1] = f /\ Len(list) \in Nat
  OBVIOUS
<1> HIDE DEF T
<1>2. /\ Len(<<f>> \o list) = 1 + Len(list)
      /\ \A n \in 1 .. 1 + Len(list) :
           (<<f>> \o list)[n] = IF n <= 1 THEN <<f>>[n] ELSE list[n - 1]
  BY <1>1, ConcatProperties
<1> QED BY <1>1, <1>2

LEMMA Between ==
  ASSUME NEW f, NEW S, NEW list \in Seq(S), NEW g
  PROVE  /\ Len(<<f>> \o list \o <<g>>) = Len(list) + 2
         /\ \A n \in 1 .. Len(list) + 2 :
              (<<f>> \o list \o <<g>>)[n] =
                 IF n = 1 THEN f ELSE IF n < Len(list) + 2 THEN list[n - 1] ELSE g
<1> DEFINE T == S \union {f, g}
<1> DEFINE h == <<f>> \o list
<1>1. <<f>> \in Seq(T) /\ list \in Seq(T) /\ <<g>> \in Seq(T) /\ Len(<<g>>) = 1 /\ <<g>>[1] = g
      /\ Len(list) \in Nat
  OBVIOUS
<1> HIDE DEF T
<1>2. h \in Seq(T) /\ Len(h) = Len(list) + 1
  BY <1>1, ConcatProperties, Behind
<1>3. \A n \in 1 .. Len(list) + 1 : h[n] = IF n = 1 THEN f ELSE list[n - 1]
  BY Behind
<1> HIDE DEF h
<1>4. /\ Len(h \o <<g>>) = Len(h) + 1
      /\ \A n \in 1 .. Len(h) + 1 : (h \o <<g>>)[n] = IF n <= Len(h) THEN h[n] ELSE <<g>>[n - Len(h)]
  BY <1>1, <1>2, ConcatProperties
<1>5. \A n \in 1 .. Len(list) + 2 :
         (h \o <<g>>)[n] = IF n = 1 THEN f ELSE IF n < Len(list) + 2 THEN list[n - 1] ELSE g
  <2> TAKE n \in 1 .. Len(list) + 2
  <2>1. CASE n = Len(list) + 2
    BY <1>1, <1>2, <1>4, <2>1
  <2>2. CASE n < Len(list) + 2
    BY <1>1, <1>2, <1>3, <1>4, <2>2
  <2>3. n = Len(list) + 2 \/ n < Len(list) + 2
    BY <1>1
  <2> QED BY <2>1, <2>2, <2>3
<1> QED BY <1>1, <1>2, <1>4, <1>5 DEF h

LEMMA BlockSent ==
  ASSUME answer \in AnswerType, protocol \in Protocol, NEW k, InBlocks(k)
  PROVE  /\ Len(FramesOf(k)) \in Nat
         /\ \A n \in 1 .. Len(FramesOf(k)) :
              /\ Plain(Sent(k, n))
              /\ protocol = "openai" => Chunked(k, n, Sent(k, n))
              /\ protocol = "responses" => Itemised(k, n, Sent(k, n))
              /\ protocol = "anthropic" => Opening(k, n, Sent(k, n))
              /\ protocol = "gemini" => Generated(k, Sent(k, n))
         /\ protocol = "anthropic" => Len(FramesOf(k)) > 1
<1> DEFINE b == BlockAt(k)
<1> DEFINE m == Len(b.pieces)
<1>1. /\ k \in Nat \ {0} /\ b \in Block /\ b.kind \in {"text", "think", "call"}
      /\ m \in Nat /\ FramesOf(k) = BlockFrames(k)
  BY PartsOfAnswer
<1>2. \A n : Sent(k, n) = BlockFrames(k)[n]
  BY <1>1 DEF Sent
<1>3. CASE protocol = "openai" /\ b.kind = "call"
  <2> DEFINE x == CallsBefore(k)
  <2> DEFINE t == IF answer.typed THEN "chunk" ELSE "untyped"
  <2> DEFINE list == Pieces(t, "args", x, b)
  <2>1. BlockFrames(k) = <<Announced("chunk", x, b)>> \o list
    BY <1>3 DEF BlockFrames, BlockAt
  <2>2. PICK S : list \in Seq(S)
    BY <1>1, PieceFrames
  <2>3. /\ Len(list) = m
        /\ \A n \in 1 .. m : /\ Plain(list[n]) /\ list[n].type = t /\ list[n].delta = "args"
                             /\ list[n].index = x
    BY <1>1, PieceFrames
  <2> HIDE DEF list, x, t
  <2>4. /\ Len(FramesOf(k)) = m + 1
        /\ \A n \in 1 .. m + 1 :
             Sent(k, n) = IF n = 1 THEN Announced("chunk", x, b) ELSE list[n - 1]
    <3> DEFINE all == <<Announced("chunk", x, b)>> \o list
    <3>1. /\ Len(all) = Len(list) + 1
          /\ \A n \in 1 .. Len(list) + 1 :
               all[n] = IF n = 1 THEN Announced("chunk", x, b) ELSE list[n - 1]
      BY <2>2, Behind
    <3> HIDE DEF all
    <3> QED BY <1>1, <1>2, <2>1, <2>3, <3>1 DEF all
  <2>5. \A n \in 1 .. m + 1 : Plain(Sent(k, n)) /\ Chunked(k, n, Sent(k, n))
    <3> TAKE n \in 1 .. m + 1
    <3>1. CASE n = 1
      <4>1. Sent(k, n) = Announced("chunk", x, b)
        BY <2>4, <3>1
      <4> QED BY <1>3, <3>1, <4>1, AnnouncedFrame DEF Chunked, x
    <3>2. CASE n > 1
      <4>1. Sent(k, n) = list[n - 1] /\ n - 1 \in 1 .. m /\ n # 1
        BY <1>1, <2>4, <3>2
      <4>2. t \in {"chunk", "untyped"}
        BY DEF t
      <4> QED BY <1>3, <2>3, <3>2, <4>1, <4>2 DEF Chunked, x
    <3> QED BY <1>1, <3>1, <3>2
  <2> QED BY <1>1, <1>3, <2>4, <2>5
<1>4. CASE protocol = "openai" /\ b.kind # "call"
  <2> DEFINE list == Pieces("chunk", b.kind, 0, b)
  <2>1. BlockFrames(k) = list
    BY <1>4 DEF BlockFrames, BlockAt
  <2>2. /\ Len(list) = m
        /\ \A n \in 1 .. m : /\ Plain(list[n]) /\ list[n].type = "chunk" /\ list[n].delta = b.kind
    BY <1>1, PieceFrames
  <2> HIDE DEF list
  <2>3. \A n \in 1 .. m : Plain(Sent(k, n)) /\ Chunked(k, n, Sent(k, n))
    BY <1>2, <1>4, <2>1, <2>2 DEF Chunked
  <2> QED BY <1>1, <1>4, <2>1, <2>2, <2>3
<1>5. CASE protocol = "responses"
  <2> DEFINE t == [text |-> "response.output_text.delta",
                   think |-> "response.reasoning_summary_text.delta",
                   call |-> "response.function_call_arguments.delta"][b.kind]
  <2> DEFINE d == IF b.kind = "call" THEN "args" ELSE b.kind
  <2> DEFINE list == Pieces(t, d, k - 1, b)
  <2> DEFINE f == Announced("response.output_item.added", k - 1, b)
  <2>1. BlockFrames(k) = <<f>> \o list
    BY <1>5 DEF BlockFrames, BlockAt
  <2>2. PICK S : list \in Seq(S)
    BY <1>1, PieceFrames
  <2>3. /\ Len(list) = m
        /\ \A n \in 1 .. m : /\ Plain(list[n]) /\ list[n].type = t /\ list[n].index = k - 1
    BY <1>1, PieceFrames
  <2>4. t = CASE b.kind = "call" -> "response.function_call_arguments.delta"
              [] b.kind = "text" -> "response.output_text.delta"
              [] OTHER -> "response.reasoning_summary_text.delta"
    BY <1>1
  <2> HIDE DEF list, t, d
  <2>5. /\ Len(FramesOf(k)) = m + 1
        /\ \A n \in 1 .. m + 1 : Sent(k, n) = IF n = 1 THEN f ELSE list[n - 1]
    <3> DEFINE all == <<f>> \o list
    <3>1. /\ Len(all) = Len(list) + 1
          /\ \A n \in 1 .. Len(list) + 1 : all[n] = IF n = 1 THEN f ELSE list[n - 1]
      BY <2>2, Behind
    <3> HIDE DEF all
    <3> QED BY <1>1, <1>2, <2>1, <2>3, <3>1 DEF all
  <2>6. \A n \in 1 .. m + 1 : Plain(Sent(k, n)) /\ Itemised(k, n, Sent(k, n))
    <3> TAKE n \in 1 .. m + 1
    <3>1. CASE n = 1
      <4>1. Sent(k, n) = f
        BY <2>5, <3>1
      <4> QED BY <3>1, <4>1, AnnouncedFrame DEF Itemised
    <3>2. CASE n > 1
      <4>1. Sent(k, n) = list[n - 1] /\ n - 1 \in 1 .. m /\ n # 1
        BY <1>1, <2>5, <3>2
      <4> QED BY <2>3, <2>4, <3>2, <4>1 DEF Itemised
    <3> QED BY <1>1, <3>1, <3>2
  <2> QED BY <1>1, <1>5, <2>5, <2>6
<1>6. CASE protocol = "anthropic"
  <2> DEFINE d == IF b.kind = "call" THEN "args" ELSE b.kind
  <2> DEFINE list == Pieces("content_block_delta", d, k - 1, b)
  <2> DEFINE f == Announced("content_block_start", k - 1, b)
  <2> DEFINE g == Frame("content_block_stop")
  <2>1. BlockFrames(k) = <<f>> \o list \o <<g>>
    BY <1>6 DEF BlockFrames, BlockAt
  <2>2. PICK S : list \in Seq(S)
    BY <1>1, PieceFrames
  <2>3. /\ Len(list) = m
        /\ \A n \in 1 .. m : /\ Plain(list[n]) /\ list[n].type = "content_block_delta"
                             /\ list[n].delta = d
    BY <1>1, PieceFrames
  <2> HIDE DEF list, d
  <2>4. /\ Len(FramesOf(k)) = m + 2
        /\ \A n \in 1 .. m + 2 :
             Sent(k, n) = IF n = 1 THEN f ELSE IF n < m + 2 THEN list[n - 1] ELSE g
    <3> DEFINE all == <<f>> \o list \o <<g>>
    <3>1. /\ Len(all) = Len(list) + 2
          /\ \A n \in 1 .. Len(list) + 2 :
               all[n] = IF n = 1 THEN f ELSE IF n < Len(list) + 2 THEN list[n - 1] ELSE g
      BY <2>2, Between
    <3>2. BlockFrames(k) = all
      BY <2>1
    <3> HIDE DEF all, f, g
    <3> QED BY <1>1, <1>2, <2>3, <3>1, <3>2
  <2>5. \A n \in 1 .. m + 2 : Plain(Sent(k, n)) /\ Opening(k, n, Sent(k, n))
    <3> TAKE n \in 1 .. m + 2
    <3>1. CASE n = 1
      <4>1. Sent(k, n) = f
        BY <2>4, <3>1
      <4> QED BY <3>1, <4>1, AnnouncedFrame DEF Opening
    <3>2. CASE n > 1 /\ n < m + 2
      <4>1. Sent(k, n) = list[n - 1] /\ n - 1 \in 1 .. m /\ n # 1 /\ n < Len(FramesOf(k))
        BY <1>1, <2>4, <3>2
      <4> QED BY <2>3, <4>1 DEF Opening, d
    <3>3. CASE n = m + 2
      <4>1. Sent(k, n) = g /\ n # 1 /\ ~(n < Len(FramesOf(k)))
        BY <1>1, <2>4, <3>3
      <4> QED BY <4>1, PlainFrame DEF Opening
    <3> QED BY <1>1, <3>1, <3>2, <3>3
  <2> QED BY <1>1, <1>6, <2>4, <2>5
<1>7. CASE protocol = "gemini" /\ b.kind = "call"
  <2> DEFINE f == [Announced("chunk", 0, b) EXCEPT !.text = b.pieces]
  <2>1. BlockFrames(k) = <<f>>
    BY <1>7 DEF BlockFrames, BlockAt
  <2>2. Plain(f) /\ f.type = "chunk" /\ f.delta = "call"
    BY <1>7 DEF Announced, Frame, Framed, Plain
  <2> HIDE DEF f
  <2>3. Len(FramesOf(k)) = 1 /\ Sent(k, 1) = f
    BY <1>1, <1>2, <2>1
  <2>4. \A n \in 1 .. 1 : Plain(Sent(k, n)) /\ Generated(k, Sent(k, n))
    BY <1>7, <2>2, <2>3 DEF Generated
  <2> QED BY <1>7, <2>3, <2>4
<1>8. CASE protocol = "gemini" /\ b.kind # "call"
  <2> DEFINE list == Pieces("chunk", b.kind, 0, b)
  <2>1. BlockFrames(k) = list
    BY <1>8 DEF BlockFrames, BlockAt
  <2>2. /\ Len(list) = m
        /\ \A n \in 1 .. m : /\ Plain(list[n]) /\ list[n].type = "chunk" /\ list[n].delta = b.kind
    BY <1>1, PieceFrames
  <2> HIDE DEF list
  <2>3. \A n \in 1 .. m : Plain(Sent(k, n)) /\ Generated(k, Sent(k, n))
    BY <1>2, <1>8, <2>1, <2>2 DEF Generated
  <2> QED BY <1>1, <1>8, <2>1, <2>2, <2>3
<1> QED BY <1>3, <1>4, <1>5, <1>6, <1>7, <1>8 DEF Protocol

-----------------------------------------------------------------------------
(* The events of an adapter's stream.                                      *)

IsSeq(s) == \E S : s \in Seq(S)

LEMMA OneMore ==
  ASSUME NEW s, IsSeq(s), NEW e
  PROVE  /\ IsSeq(Append(s, e)) /\ Len(s) \in Nat /\ Len(Append(s, e)) = Len(s) + 1
         /\ \A i \in 1 .. Len(s) : Append(s, e)[i] = s[i]
         /\ Append(s, e)[Len(s) + 1] = e
         /\ s \o <<e>> = Append(s, e) /\ s \o <<>> = s
<1>1. PICK S : s \in Seq(S)
  BY DEF IsSeq
<1> DEFINE T == S \union {e}
<1>2. s \in Seq(T) /\ e \in T
  BY <1>1
<1> HIDE DEF T
<1>3. IsSeq(Append(s, e))
  BY <1>2 DEF IsSeq
<1> QED BY <1>2, <1>3, AppendProperties, AppendIsConcat, ConcatEmptySeq

LEMMA Regroup ==
  ASSUME NEW s, NEW t, NEW u, IsSeq(s), IsSeq(t), IsSeq(u)
  PROVE  IsSeq(s \o t) /\ s \o (t \o u) = (s \o t) \o u
<1>1. PICK S : s \in Seq(S)
  BY DEF IsSeq
<1>2. PICK T : t \in Seq(T)
  BY DEF IsSeq
<1>3. PICK U : u \in Seq(U)
  BY DEF IsSeq
<1> DEFINE A == S \union T \union U
<1>4. s \in Seq(A) /\ t \in Seq(A) /\ u \in Seq(A)
  BY <1>1, <1>2, <1>3
<1> HIDE DEF A
<1>5. s \o t \in Seq(A)
  BY <1>4
<1> QED BY <1>4, <1>5, ConcatAssociative DEF IsSeq

LEMMA Short == IsSeq(<<>>) /\ \A e : IsSeq(<<e>>)
<1>1. <<>> \in Seq({}) /\ \A e : <<e>> \in Seq({e})
  OBVIOUS
<1> QED BY <1>1 DEF IsSeq

\* The frames of a part are a sequence.
LEMMA FramesAreListed ==
  ASSUME answer \in AnswerType, protocol \in Protocol, NEW k \in 0 .. Ending
  PROVE  IsSeq(FramesOf(k)) /\ Len(FramesOf(k)) \in Nat
<1>1. IsSeq(HeadFrames)
  BY Short DEF HeadFrames, Protocol
<1>2. IsSeq(TailFrames)
  <2>1. \A f, g : <<f, g>> \in Seq({f, g})
    OBVIOUS
  <2>2. \A f, g : IsSeq(<<f, g>>)
    BY <2>1 DEF IsSeq
  <2>3. (\E f, g : TailFrames = <<f, g>>) \/ (\E f : TailFrames = <<f>>)
    BY DEF TailFrames, Protocol
  <2> QED BY <2>2, <2>3, Short
<1>3. ASSUME InBlocks(k) PROVE IsSeq(BlockFrames(k))
  <2> DEFINE b == BlockAt(k)
  <2>1. b \in Block
    BY <1>3, PartsOfAnswer
  <2>2. \A t, d, i : IsSeq(Pieces(t, d, i, b))
    BY <2>1, PieceFrames DEF IsSeq
  <2>3. \A f, t, d, i : IsSeq(<<f>> \o Pieces(t, d, i, b))
    BY <2>2, Short, Regroup
  <2>4. \A f, t, d, i, g : IsSeq(<<f>> \o Pieces(t, d, i, b) \o <<g>>)
    BY <2>3, Short, Regroup
  <2>5. \/ \E f, t, d, i, g : BlockFrames(k) = <<f>> \o Pieces(t, d, i, b) \o <<g>>
        \/ \E f, t, d, i : BlockFrames(k) = <<f>> \o Pieces(t, d, i, b)
        \/ \E t, d, i : BlockFrames(k) = Pieces(t, d, i, b)
        \/ \E f : BlockFrames(k) = <<f>>
    BY Zenon DEF BlockFrames, BlockAt, Protocol
  <2> QED BY <2>2, <2>3, <2>4, <2>5, Short
<1>4. IsSeq(FramesOf(k))
  <2>1. Len(answer.blocks) \in Nat /\ Ending = Len(answer.blocks) + 1
    BY PartsOfAnswer
  <2>2. k = 0 \/ k = Ending \/ InBlocks(k)
    BY <2>1 DEF InBlocks
  <2> QED BY <1>1, <1>2, <1>3, <2>2, PartsOfAnswer
<1>5. \A s : IsSeq(s) => Len(s) \in Nat
  BY DEF IsSeq
<1> QED BY <1>4, <1>5

\* The calls announced so far, and the order of a stream that has not ended.
Opened(s) == {s[i].index : i \in {j \in 1 .. Len(s) : s[j].kind = "call"}}
InOrder(s) ==
  \A i \in 1 .. Len(s) :
    /\ s[i].kind \notin {"completed", "error"}
    /\ s[i].kind = "started" <=> i = 1
    /\ s[i].kind = "args" =>
         \E j \in 1 .. i - 1 : s[j].kind = "call" /\ s[j].index = s[i].index
    /\ s[i].kind = "call" =>
         \A j \in 1 .. i - 1 : s[j].kind = "call" => s[j].index # s[i].index
Stream(s) == IsSeq(s) /\ InOrder(s)
Fits(s, e) ==
  /\ e.kind \notin {"completed", "error"}
  /\ e.kind = "started" <=> s = <<>>
  /\ e.kind = "args" => e.index \in Opened(s)
  /\ e.kind = "call" => e.index \notin Opened(s)

LEMMA Follows ==
  ASSUME NEW s, Stream(s), NEW e, Fits(s, e)
  PROVE  /\ Stream(Append(s, e)) /\ Append(s, e) # <<>>
         /\ Opened(Append(s, e)) = Opened(s) \union (IF e.kind = "call" THEN {e.index} ELSE {})
<1> DEFINE t == Append(s, e)
<1> DEFINE n == Len(s)
<1>1. /\ IsSeq(t) /\ n \in Nat /\ Len(t) = n + 1 /\ t[n + 1] = e
      /\ \A i \in 1 .. n : t[i] = s[i]
  BY OneMore DEF Stream
<1>2. s = <<>> <=> n = 0
  BY DEF Stream, IsSeq
<1> HIDE DEF t, n
<1>3. InOrder(t)
  <2> SUFFICES ASSUME NEW i \in 1 .. n + 1
               PROVE  /\ t[i].kind \notin {"completed", "error"}
                      /\ t[i].kind = "started" <=> i = 1
                      /\ t[i].kind = "args" =>
                           \E j \in 1 .. i - 1 : t[j].kind = "call" /\ t[j].index = t[i].index
                      /\ t[i].kind = "call" =>
                           \A j \in 1 .. i - 1 : t[j].kind = "call" => t[j].index # t[i].index
    BY <1>1 DEF InOrder
  <2>1. CASE i \in 1 .. n
    <3>1. t[i] = s[i] /\ \A j \in 1 .. i - 1 : t[j] = s[j] /\ j \in 1 .. n
      BY <1>1, <2>1
    <3>2. InOrder(s)
      BY DEF Stream
    <3> QED BY <2>1, <3>1, <3>2 DEF InOrder, n
  <2>2. CASE i = n + 1
    <3>1. t[i] = e /\ (i = 1 <=> s = <<>>) /\ \A j \in 1 .. i - 1 : t[j] = s[j] /\ j \in 1 .. n
      BY <1>1, <1>2, <2>2
    <3>2. e.kind = "args" => \E j \in 1 .. i - 1 : t[j].kind = "call" /\ t[j].index = e.index
      <4> SUFFICES ASSUME e.kind = "args"
                   PROVE  \E j \in 1 .. i - 1 : t[j].kind = "call" /\ t[j].index = e.index
        OBVIOUS
      <4>1. PICK j \in 1 .. n : s[j].kind = "call" /\ s[j].index = e.index
        BY DEF Fits, Opened, n
      <4> QED BY <1>1, <2>2, <4>1
    <3>3. e.kind = "call" => \A j \in 1 .. i - 1 : t[j].kind = "call" => t[j].index # e.index
      BY <1>1, <2>2, <3>1 DEF Fits, Opened, n
    <3> QED BY <3>1, <3>2, <3>3 DEF Fits
  <2> QED BY <1>1, <2>1, <2>2
<1>4. Opened(t) = Opened(s) \union (IF e.kind = "call" THEN {e.index} ELSE {})
  <2>1. ASSUME NEW x \in Opened(t)
        PROVE  x \in Opened(s) \union (IF e.kind = "call" THEN {e.index} ELSE {})
    <3>1. PICK j \in 1 .. n + 1 : t[j].kind = "call" /\ x = t[j].index
      BY <1>1 DEF Opened
    <3>2. CASE j \in 1 .. n
      <4>1. t[j] = s[j]
        BY <1>1, <3>2
      <4> QED BY <3>1, <3>2, <4>1 DEF Opened, n
    <3>3. CASE j = n + 1
      BY <1>1, <3>1, <3>3
    <3> QED BY <1>1, <3>2, <3>3
  <2>2. ASSUME NEW x \in Opened(s) PROVE x \in Opened(t)
    <3>1. PICK j \in 1 .. n : s[j].kind = "call" /\ x = s[j].index
      BY DEF Opened, n
    <3>2. t[j] = s[j] /\ j \in 1 .. Len(t)
      BY <1>1
    <3> QED BY <3>1, <3>2 DEF Opened
  <2>3. e.kind = "call" => e.index \in Opened(t)
    BY <1>1 DEF Opened
  <2> QED BY <2>1, <2>2, <2>3
<1> QED BY <1>1, <1>3, <1>4 DEF Stream, t, IsSeq

\* The events have the kind and the index they are made with.
LEMMA Events ==
  ASSUME NEW k, NEW i, NEW t
  PROVE  /\ Event(k).kind = k
         /\ \E e : Delta(k, i, t) = <<e>> /\ e.kind = k /\ e.index = i
         /\ \E e : CallStarted(i, t) = <<e>> /\ e.kind = "call" /\ e.index = i
         /\ UsageUpdated(t) = <<>> \/ \E e : UsageUpdated(t) = <<e>> /\ e.kind = "usage"
<1>1. Event(k).kind = k
  BY DEF Event
<1> DEFINE d == [Event(k) EXCEPT !.index = i, !.text = t]
<1> DEFINE c == [Event("call") EXCEPT !.index = i, !.id = t]
<1> DEFINE u == [Event("usage") EXCEPT !.usage = t]
<1>2. d.kind = k /\ d.index = i
  BY DEF Event
<1>3. c.kind = "call" /\ c.index = i
  BY DEF Event
<1>4. u.kind = "usage"
  BY DEF Event
<1>5. Delta(k, i, t) = <<d>> /\ CallStarted(i, t) = <<c>>
  BY DEF Delta, CallStarted
<1>6. UsageUpdated(t) = <<>> \/ UsageUpdated(t) = <<u>>
  BY DEF UsageUpdated
<1> HIDE DEF d, c, u
<1> QED BY <1>1, <1>2, <1>3, <1>4, <1>5, <1>6

\* An event of a list that comes before any of its calls' arguments.
LEMMA Started ==
  ASSUME NEW s, Stream(s), NEW flag, flag <=> s # <<>>
  PROVE  /\ Stream(s \o StartedUnless(flag)) /\ s \o StartedUnless(flag) # <<>>
         /\ Opened(s \o StartedUnless(flag)) = Opened(s) /\ IsSeq(StartedUnless(flag))
<1>1. CASE flag
  <2>1. StartedUnless(flag) = <<>>
    BY <1>1 DEF StartedUnless
  <2>2. s \o StartedUnless(flag) = s
    BY <2>1, OneMore DEF Stream
  <2> QED BY <1>1, <2>1, <2>2, Short
<1>2. CASE ~flag
  <2>1. StartedUnless(flag) = <<Event("started")>> /\ Event("started").kind = "started"
    BY <1>2, Events DEF StartedUnless
  <2>2. Fits(s, Event("started"))
    BY <1>2, <2>1 DEF Fits
  <2>3. s \o StartedUnless(flag) = Append(s, Event("started"))
    BY <2>1, OneMore DEF Stream
  <2> QED BY <2>1, <2>2, <2>3, Follows, Short
<1> QED BY <1>1, <1>2

LEMMA Reported ==
  ASSUME NEW s, Stream(s), s # <<>>, NEW u
  PROVE  /\ Stream(s \o UsageUpdated(u)) /\ s \o UsageUpdated(u) # <<>>
         /\ Opened(s \o UsageUpdated(u)) = Opened(s) /\ IsSeq(UsageUpdated(u))
<1>1. CASE UsageUpdated(u) = <<>>
  BY <1>1, OneMore, Short DEF Stream
<1>2. CASE UsageUpdated(u) # <<>>
  <2>1. PICK e : UsageUpdated(u) = <<e>> /\ e.kind = "usage"
    BY <1>2, Events
  <2>2. Fits(s, e)
    BY <2>1 DEF Fits
  <2>3. s \o UsageUpdated(u) = Append(s, e)
    BY <2>1, OneMore DEF Stream
  <2> QED BY <2>1, <2>2, <2>3, Follows, Short
<1> QED BY <1>1, <1>2

\* The locals of the loop, whatever reasons to stop the vendor knows.
Parsers(F) ==
  [started : BOOLEAN, finish : F, usage : Report, current : Int, indexes : Seq(Int), next : Nat]
IsParser(s) == \E F : s \in Parsers(F)

\* The usage that was reported is covered by what the parser keeps.
Covers(kept, reports) ==
  \A u \in reports : \E v \in kept : u.input <= v.input /\ u.output <= v.output

LEMMA MaxOfTwo ==
  ASSUME NEW x \in Nat, NEW T \in SUBSET Nat, T = {} \/ \E y : T = {y}
  PROVE  /\ Max({x} \union T) \in Nat /\ x <= Max({x} \union T)
         /\ \A y \in T : y <= Max({x} \union T)
<1>1. \E m \in {x} \union T : \A y \in {x} \union T : m >= y
  <2>1. CASE T = {}
    BY <2>1
  <2>2. CASE \E y : T = {y}
    <3>1. PICK y : T = {y}
      BY <2>2
    <3>2. y \in Nat
      BY <3>1
    <3>3. CASE x >= y
      BY <3>1, <3>2, <3>3
    <3>4. CASE y >= x
      BY <3>1, <3>2, <3>4
    <3> QED BY <3>2, <3>3, <3>4
  <2> QED BY <2>1, <2>2
<1> DEFINE m == CHOOSE z \in {x} \union T : \A y \in {x} \union T : z >= y
<1>2. m \in {x} \union T /\ \A y \in {x} \union T : m >= y
  BY <1>1
<1>3. Max({x} \union T) = m
  BY DEF Max
<1> HIDE DEF m
<1> QED BY <1>2, <1>3

LEMMA Merged ==
  ASSUME NEW old \in Report, NEW new \in Report
  PROVE  /\ MergedUsage(old, new) \in Report
         /\ Covers(MergedUsage(old, new), new)
         /\ new # {} => Covers(MergedUsage(old, new), old)
<1>1. CASE new = {}
  <2>1. MergedUsage(old, new) = {}
    BY <1>1 DEF MergedUsage
  <2> QED BY <1>1, <2>1 DEF Covers, Report
<1>2. CASE new # {}
  <2>1. PICK w \in Usages : new = {w}
    BY <1>2 DEF Report
  <2> DEFINE I == {o.input : o \in old}
  <2> DEFINE O == {o.output : o \in old}
  <2> DEFINE i == Max({w.input} \union I)
  <2> DEFINE o == Max({w.output} \union O)
  <2> DEFINE v == [w EXCEPT !.input = i, !.output = o]
  <2>2. MergedUsage(old, new) = {v}
    BY <2>1 DEF MergedUsage
  <2>3. w.input \in Nat /\ w.output \in Nat
    BY <2>1 DEF Usages
  <2>4. /\ I \in SUBSET Nat /\ (I = {} \/ \E y : I = {y})
        /\ O \in SUBSET Nat /\ (O = {} \/ \E y : O = {y})
    <3>1. CASE old = {}
      BY <3>1
    <3>2. CASE old # {}
      <4>1. PICK z \in Usages : old = {z}
        BY <3>2 DEF Report
      <4>2. I = {z.input} /\ O = {z.output} /\ z.input \in Nat /\ z.output \in Nat
        BY <4>1 DEF Usages
      <4> QED BY <4>2
    <3> QED BY <3>1, <3>2
  <2>5. /\ i \in Nat /\ w.input <= i /\ \A y \in I : y <= i
        /\ o \in Nat /\ w.output <= o /\ \A y \in O : y <= o
    <3> HIDE DEF I, O
    <3> QED BY <2>3, <2>4, MaxOfTwo
  <2> HIDE DEF i, o
  <2>6. v \in Usages /\ v.input = i /\ v.output = o
    BY <2>1, <2>5 DEF Usages
  <2> HIDE DEF v
  <2>7. {v} \in Report
    BY <2>6 DEF Report
  <2>8. Covers({v}, new)
    BY <2>1, <2>5, <2>6 DEF Covers
  <2>9. Covers({v}, old)
    BY <2>5, <2>6 DEF Covers
  <2> QED BY <2>2, <2>7, <2>8, <2>9
<1> QED BY <1>1, <1>2

LEMMA Taken ==
  ASSUME NEW old \in Report, NEW new \in Report
  PROVE  /\ TakeUsage(old, new) \in Report
         /\ Covers(TakeUsage(old, new), new) /\ Covers(TakeUsage(old, new), old)
<1>1. CASE new = {}
  <2>1. TakeUsage(old, new) = old
    BY <1>1 DEF TakeUsage
  <2>2. \A u \in old : u.input <= u.input /\ u.output <= u.output
    BY DEF Report, Usages
  <2> QED BY <1>1, <2>1, <2>2 DEF Covers
<1>2. CASE new # {}
  <2>1. TakeUsage(old, new) = MergedUsage(old, new)
    BY <1>2 DEF TakeUsage
  <2> QED BY <1>2, <2>1, Merged
<1> QED BY <1>1, <1>2

-----------------------------------------------------------------------------
(* One frame is read.                                                      *)

\* What reading adds to the events, and what it makes of the parser.
Wrote(out, x, more) ==
  /\ IsSeq(out) /\ Stream(x \o out)
  /\ Opened(x \o out) = Opened(x) \union more
ReadBy(s, f, after) ==
  /\ IsParser(after)
  /\ Covers(after.usage, f.usage) /\ Covers(after.usage, s.usage)

LEMMA Nothing ==
  ASSUME NEW x, Stream(x)
  PROVE  Wrote(<<>>, x, {})
<1>1. x \o <<>> = x
  BY OneMore DEF Stream
<1> QED BY <1>1, Short DEF Wrote

LEMMA OneEvent ==
  ASSUME NEW x, Stream(x), NEW e, Fits(x, e)
  PROVE  /\ Wrote(<<e>>, x, IF e.kind = "call" THEN {e.index} ELSE {})
         /\ x \o <<e>> # <<>>
<1>1. x \o <<e>> = Append(x, e)
  BY OneMore DEF Stream
<1> QED BY <1>1, Follows, Short DEF Wrote

\* Events are written one after the other.
LEMMA OneAfterOther ==
  ASSUME NEW x, Stream(x), NEW a, NEW some, Wrote(a, x, some), NEW b, NEW more,
         Wrote(b, x \o a, more)
  PROVE  Wrote(a \o b, x, some \union more)
<1>1. IsSeq(x) /\ IsSeq(a) /\ IsSeq(b)
  BY DEF Wrote, Stream
<1>2. x \o (a \o b) = (x \o a) \o b /\ IsSeq(a \o b)
  BY <1>1, Regroup
<1> QED BY <1>2 DEF Wrote

LEMMA CoveredAlready ==
  ASSUME NEW u \in Report
  PROVE  Covers(u, u) /\ Covers(u, {})
BY DEF Covers, Report, Usages

LEMMA ChunkRead ==
  ASSUME NEW s, IsParser(s), NEW x, Stream(x), s.started <=> x # <<>>,
         NEW f, f.usage \in Report, f.type \notin {"error", "untyped"},
         f.delta = "args" => f.index \in Opened(x),
         f.delta = "call" => f.index \notin Opened(x)
  PROVE  /\ ReadBy(s, f, OnChunk(s, f).parser) /\ OnChunk(s, f).parser.started
         /\ f.reason = "" => OnChunk(s, f).parser.finish = s.finish
         /\ Wrote(OnChunk(s, f).out, x, IF f.delta = "call" THEN {f.index} ELSE {})
         /\ x \o OnChunk(s, f).out # <<>>
<1> DEFINE p == OnChunk(s, f).parser
<1> DEFINE middle == CASE f.delta = "think" -> Delta("reasoning", 0, f.text)
                       [] f.delta = "text" -> Delta("content", 0, f.text)
                       [] f.delta = "call" -> CallStarted(f.index, f.id)
                       [] f.delta = "args" -> Delta("args", f.index, f.text)
                       [] OTHER -> <<>>
<1> DEFINE used == IF f.usage = {} THEN {} ELSE MergedUsage(s.usage, f.usage)
<1> DEFINE last == UsageUpdated(used)
<1> DEFINE more == IF f.delta = "call" THEN {f.index} ELSE {}
<1>1. PICK F : s \in Parsers(F)
  BY DEF IsParser
<1>2. /\ p = [s EXCEPT !.started = TRUE, !.finish = IF f.reason = "" THEN @ ELSE f.reason,
                       !.usage = TakeUsage(@, f.usage)]
      /\ OnChunk(s, f).out = StartedUnless(s.started) \o middle \o last
  BY DEF OnChunk
<1>3. ReadBy(s, f, p) /\ p.started /\ (f.reason = "" => p.finish = s.finish)
  <2>1. /\ TakeUsage(s.usage, f.usage) \in Report
        /\ Covers(TakeUsage(s.usage, f.usage), f.usage) /\ Covers(TakeUsage(s.usage, f.usage), s.usage)
    BY <1>1, Taken DEF Parsers
  <2> DEFINE G == F \union {f.reason}
  <2>2. p \in Parsers(G)
    BY <1>1, <1>2, <2>1 DEF Parsers
  <2>3. /\ p.started /\ p.usage = TakeUsage(s.usage, f.usage)
        /\ f.reason = "" => p.finish = s.finish
    BY <1>1, <1>2 DEF Parsers
  <2> HIDE DEF p, G
  <2>4. ReadBy(s, f, p)
    BY <2>1, <2>2, <2>3 DEF ReadBy, IsParser
  <2> QED BY <2>3, <2>4
<1> DEFINE y == x \o StartedUnless(s.started)
<1>4. Wrote(StartedUnless(s.started), x, {}) /\ Stream(y) /\ y # <<>> /\ Opened(y) = Opened(x)
  BY Started DEF Wrote
<1> HIDE DEF y
<1>5. Wrote(middle, y, more) /\ y \o middle # <<>>
  <2>1. CASE middle = <<>> /\ more = {}
    <3>1. y \o <<>> = y
      BY <1>4, OneMore DEF Stream
    <3> QED BY <1>4, <2>1, <3>1, Nothing
  <2>2. CASE \E e : /\ middle = <<e>> /\ e.kind \in {"reasoning", "content", "call", "args"}
                    /\ e.kind = "call" <=> f.delta = "call"
                    /\ e.kind \in {"call", "args"} => e.index = f.index /\ f.delta = e.kind
    <3>1. PICK e : /\ middle = <<e>> /\ e.kind \in {"reasoning", "content", "call", "args"}
                   /\ e.kind = "call" <=> f.delta = "call"
                   /\ e.kind \in {"call", "args"} => e.index = f.index /\ f.delta = e.kind
      BY <2>2
    <3> HIDE DEF middle
    <3>2. Fits(y, e)
      BY <1>4, <3>1 DEF Fits
    <3>3. more = IF e.kind = "call" THEN {e.index} ELSE {}
      BY <3>1
    <3> QED BY <1>4, <3>1, <3>2, <3>3, OneEvent
  <2>3. CASE f.delta = "think"
    <3>1. middle = Delta("reasoning", 0, f.text)
      BY <2>3
    <3> HIDE DEF middle
    <3>2. PICK e : middle = <<e>> /\ e.kind = "reasoning"
      BY <3>1, Events
    <3> QED BY <2>2, <2>3, <3>2
  <2>4. CASE f.delta = "text"
    <3>1. middle = Delta("content", 0, f.text)
      BY <2>4
    <3> HIDE DEF middle
    <3>2. PICK e : middle = <<e>> /\ e.kind = "content"
      BY <3>1, Events
    <3> QED BY <2>2, <2>4, <3>2
  <2>5. CASE f.delta = "call"
    <3>1. middle = CallStarted(f.index, f.id)
      BY <2>5
    <3> HIDE DEF middle
    <3>2. PICK e : middle = <<e>> /\ e.kind = "call" /\ e.index = f.index
      BY <3>1, Events
    <3> QED BY <2>2, <2>5, <3>2
  <2>6. CASE f.delta = "args"
    <3>1. middle = Delta("args", f.index, f.text)
      BY <2>6
    <3> HIDE DEF middle
    <3>2. PICK e : middle = <<e>> /\ e.kind = "args" /\ e.index = f.index
      BY <3>1, Events
    <3> QED BY <2>2, <2>6, <3>2
  <2> QED BY <2>1, <2>3, <2>4, <2>5, <2>6
<1> HIDE DEF middle, used, more
<1>6. Stream(y \o middle) /\ Wrote(last, y \o middle, {}) /\ (y \o middle) \o last # <<>>
  <2>1. Stream(y \o middle)
    BY <1>5 DEF Wrote
  <2>2. /\ Stream((y \o middle) \o last) /\ (y \o middle) \o last # <<>>
        /\ Opened((y \o middle) \o last) = Opened(y \o middle) /\ IsSeq(last)
    BY <1>5, <2>1, Reported
  <2> HIDE DEF last
  <2> QED BY <2>1, <2>2 DEF Wrote
<1> HIDE DEF last
<1>7. Wrote(StartedUnless(s.started) \o middle, x, {} \union more)
  BY <1>4, <1>5, OneAfterOther DEF y
<1>8. x \o (StartedUnless(s.started) \o middle) = y \o middle
  BY <1>4, <1>5, Regroup DEF y, Wrote, Stream
<1>9. Wrote(StartedUnless(s.started) \o middle \o last, x, ({} \union more) \union {})
  BY <1>6, <1>7, <1>8, OneAfterOther
<1>10. x \o (StartedUnless(s.started) \o middle \o last) # <<>>
  <2>1. x \o (StartedUnless(s.started) \o middle \o last) = (y \o middle) \o last
    <3>1. IsSeq(x) /\ IsSeq(StartedUnless(s.started) \o middle) /\ IsSeq(last)
      BY <1>6, <1>7 DEF Wrote, Stream
    <3>2. x \o ((StartedUnless(s.started) \o middle) \o last)
            = (x \o (StartedUnless(s.started) \o middle)) \o last
      BY <3>1, Regroup
    <3> QED BY <1>8, <3>2
  <2> QED BY <1>6, <2>1
<1> QED BY <1>2, <1>3, <1>9, <1>10 DEF more

LEMMA GeneratedRead ==
  ASSUME NEW s, IsParser(s), NEW x, Stream(x), s.started <=> x # <<>>, s.next \in Nat,
         Opened(x) = 0 .. s.next - 1, NEW f, f.usage \in Report
  PROVE  /\ ReadBy(s, f, OnGenerated(s, f).parser) /\ OnGenerated(s, f).parser.started
         /\ f.reason = "" => OnGenerated(s, f).parser.finish = s.finish
         /\ OnGenerated(s, f).parser.next \in Nat
         /\ Stream(x \o OnGenerated(s, f).out) /\ x \o OnGenerated(s, f).out # <<>>
         /\ IsSeq(OnGenerated(s, f).out)
         /\ Opened(x \o OnGenerated(s, f).out) = 0 .. OnGenerated(s, f).parser.next - 1
<1> DEFINE p == OnGenerated(s, f).parser
<1> DEFINE args == IF f.text = <<>> THEN <<>> ELSE Delta("args", s.next, f.text)
<1> DEFINE start == CallStarted(s.next, GeminiCallId(s.next))
<1> DEFINE last == CASE f.delta = "think" -> Delta("reasoning", 0, f.text)
                     [] f.delta = "text" -> Delta("content", 0, f.text)
                     [] f.delta = "call" -> start \o args
                     [] OTHER -> <<>>
<1> DEFINE used == IF f.usage = {} THEN {} ELSE MergedUsage(s.usage, f.usage)
<1> DEFINE report == UsageUpdated(used)
<1> DEFINE more == IF f.delta = "call" THEN {s.next} ELSE {}
<1>1. PICK F : s \in Parsers(F)
  BY DEF IsParser
<1>2. /\ p = [s EXCEPT !.started = TRUE,
                       !.finish = IF f.reason = "" THEN @ ELSE MapFinishReason[f.reason],
                       !.usage = TakeUsage(@, f.usage),
                       !.next = IF f.delta = "call" THEN NextCall(s) ELSE @]
      /\ OnGenerated(s, f).out = StartedUnless(s.started) \o report \o last
  BY DEF OnGenerated
<1>3. /\ ReadBy(s, f, p) /\ p.started /\ p.next = IF f.delta = "call" THEN s.next + 1 ELSE s.next
      /\ f.reason = "" => p.finish = s.finish
  <2>1. /\ TakeUsage(s.usage, f.usage) \in Report
        /\ Covers(TakeUsage(s.usage, f.usage), f.usage) /\ Covers(TakeUsage(s.usage, f.usage), s.usage)
    BY <1>1, Taken DEF Parsers
  <2> DEFINE finish == IF f.reason = "" THEN s.finish ELSE MapFinishReason[f.reason]
  <2> DEFINE next == IF f.delta = "call" THEN NextCall(s) ELSE s.next
  <2> DEFINE usage == TakeUsage(s.usage, f.usage)
  <2> DEFINE G == F \union {finish}
  <2>2. next \in Nat /\ next = IF f.delta = "call" THEN s.next + 1 ELSE s.next
    BY DEF NextCall
  <2>3. p = [s EXCEPT !.started = TRUE, !.finish = finish, !.usage = usage, !.next = next]
    BY <1>2
  <2>4. f.reason = "" => finish = s.finish
    BY Zenon
  <2> HIDE DEF p, finish, next, usage
  <2>5. s \in Parsers(G) /\ finish \in G /\ usage \in Report
    BY <1>1, <2>1 DEF Parsers, usage
  <2> HIDE DEF G
  <2>6. p \in Parsers(G)
    BY <2>2, <2>3, <2>5 DEF Parsers
  <2>7. p.started /\ p.usage = usage /\ p.finish = finish /\ p.next = next
    BY <2>3, <2>5 DEF Parsers
  <2>8. Covers(p.usage, f.usage) /\ Covers(p.usage, s.usage)
    BY <2>1, <2>7 DEF usage
  <2>9. f.reason = "" => p.finish = s.finish
    BY <2>4, <2>7, Zenon
  <2>10. ReadBy(s, f, p)
    BY <2>6, <2>8, Zenon DEF ReadBy, IsParser
  <2> QED BY <2>2, <2>7, <2>9, <2>10
<1> DEFINE y == x \o StartedUnless(s.started)
<1>4. Wrote(StartedUnless(s.started), x, {}) /\ Stream(y) /\ y # <<>> /\ Opened(y) = Opened(x)
  BY Started DEF Wrote
<1> HIDE DEF y, used
<1> DEFINE z == y \o report
<1>5. Stream(z) /\ z # <<>> /\ Opened(z) = Opened(y) /\ IsSeq(report)
  BY <1>4, Reported
<1>6. Wrote(report, y, {})
  <2> HIDE DEF report
  <2> QED BY <1>5 DEF Wrote
<1> HIDE DEF z, report
<1>7. Wrote(last, z, more)
  <2>1. CASE last = <<>> /\ more = {}
    BY <1>5, <2>1, Nothing
  <2>2. CASE \E e : last = <<e>> /\ e.kind \in {"reasoning", "content"} /\ more = {}
    <3>1. PICK e : last = <<e>> /\ e.kind \in {"reasoning", "content"} /\ more = {}
      BY <2>2
    <3> HIDE DEF last, more
    <3>2. Fits(z, e)
      BY <1>5, <3>1 DEF Fits
    <3> QED BY <1>5, <3>1, <3>2, OneEvent
  <2>3. CASE f.delta = "think"
    <3>1. last = Delta("reasoning", 0, f.text) /\ more = {}
      BY <2>3
    <3> HIDE DEF last, more
    <3> QED BY <2>2, <3>1, Events
  <2>4. CASE f.delta = "text"
    <3>1. last = Delta("content", 0, f.text) /\ more = {}
      BY <2>4
    <3> HIDE DEF last, more
    <3> QED BY <2>2, <3>1, Events
  <2>5. CASE f.delta = "call"
    <3>1. last = start \o args /\ more = {s.next}
      BY <2>5
    <3>2. PICK e : start = <<e>> /\ e.kind = "call" /\ e.index = s.next
      BY Events
    <3> HIDE DEF last, more, start
    <3>3. Fits(z, e)
      BY <1>4, <1>5, <3>2 DEF Fits
    <3>4. Wrote(start, z, {s.next}) /\ z \o start # <<>>
      BY <1>5, <3>2, <3>3, OneEvent
    <3> DEFINE w == z \o start
    <3>5. Stream(w) /\ w # <<>> /\ s.next \in Opened(w)
      BY <3>4 DEF Wrote
    <3> HIDE DEF w
    <3>6. Wrote(args, w, {})
      <4>1. CASE args = <<>>
        BY <3>5, <4>1, Nothing
      <4>2. CASE args = Delta("args", s.next, f.text)
        <5>1. PICK a : args = <<a>> /\ a.kind = "args" /\ a.index = s.next
          BY <4>2, Events
        <5> HIDE DEF args
        <5>2. Fits(w, a)
          BY <3>5, <5>1 DEF Fits
        <5> QED BY <3>5, <5>1, <5>2, OneEvent
      <4> QED BY <4>1, <4>2
    <3> HIDE DEF args
    <3>7. Wrote(start \o args, z, {s.next} \union {})
      BY <1>5, <3>4, <3>6, OneAfterOther DEF w
    <3> QED BY <3>1, <3>7
  <2> QED BY <2>1, <2>3, <2>4, <2>5
<1> HIDE DEF last
<1>8. Wrote(StartedUnless(s.started) \o report, x, {} \union {})
  BY <1>4, <1>6, OneAfterOther DEF y
<1>9. x \o (StartedUnless(s.started) \o report) = z
  BY <1>4, <1>5, Regroup DEF y, z, Wrote, Stream
<1>10. Wrote(StartedUnless(s.started) \o report \o last, x, ({} \union {}) \union more)
  BY <1>7, <1>8, <1>9, OneAfterOther
<1>11. x \o (StartedUnless(s.started) \o report \o last) # <<>>
  <2>1. IsSeq(x) /\ IsSeq(StartedUnless(s.started) \o report) /\ IsSeq(last)
    BY <1>7, <1>8 DEF Wrote, Stream
  <2>2. x \o ((StartedUnless(s.started) \o report) \o last)
          = (x \o (StartedUnless(s.started) \o report)) \o last
    BY <2>1, Regroup
  <2>3. z \o last # <<>>
    <3>1. IsSeq(z) /\ IsSeq(last)
      BY <1>5, <1>7 DEF Wrote, Stream
    <3>2. PICK S, T : z \in Seq(S) /\ last \in Seq(T)
      BY <3>1 DEF IsSeq
    <3>3. z \in Seq(S \union T) /\ last \in Seq(S \union T)
      BY <3>2
    <3> QED BY <1>5, <3>3, ConcatEqualIffEmpty
  <2> QED BY <1>9, <2>2, <2>3
<1>12. Opened(x) \union more = 0 .. p.next - 1 /\ p.next \in Nat
  <2>1. p.next = IF f.delta = "call" THEN s.next + 1 ELSE s.next
    BY <1>3, Zenon
  <2> HIDE DEF p
  <2> QED BY <2>1 DEF more
<1>13. /\ Stream(x \o OnGenerated(s, f).out) /\ IsSeq(OnGenerated(s, f).out)
       /\ Opened(x \o OnGenerated(s, f).out) = Opened(x) \union more
  BY <1>2, <1>10 DEF Wrote
<1>14. x \o OnGenerated(s, f).out # <<>>
  BY <1>2, <1>11
<1> HIDE DEF more
<1> QED BY <1>3, <1>12, <1>13, <1>14, Zenon

LEMMA MessageRead ==
  ASSUME NEW s, IsParser(s), NEW x, Stream(x), s.started <=> x # <<>>,
         NEW f, f.usage \in Report,
         \/ f.type = "message_start" /\ ~s.started /\ s.usage = {}
         \/ /\ f.type = "content_block_start" /\ s.started /\ f.usage = {} /\ f.index \in Int
            /\ f.delta = "call" => f.index \notin Opened(x)
         \/ /\ f.type = "content_block_delta" /\ s.started /\ f.usage = {}
            /\ f.delta \in {"text", "think"} \/ (s.current \in Opened(x) /\ s.current # -1)
         \/ f.type \in {"content_block_stop", "message_stop"} /\ s.started /\ f.usage = {}
         \/ f.type = "message_delta" /\ s.started /\ f.usage # {}
  PROVE  /\ ReadBy(s, f, OnMessageEvent(s, f).parser) /\ OnMessageEvent(s, f).parser.started
         /\ f.type # "message_delta" => OnMessageEvent(s, f).parser.finish = s.finish
         /\ OnMessageEvent(s, f).parser.current =
              CASE f.type = "content_block_start" -> f.index
                [] f.type = "content_block_stop" -> -1
                [] OTHER -> s.current
         /\ Wrote(OnMessageEvent(s, f).out, x,
                  IF f.type = "content_block_start" /\ f.delta = "call" THEN {f.index} ELSE {})
         /\ x \o OnMessageEvent(s, f).out # <<>>
<1> DEFINE p == OnMessageEvent(s, f).parser
<1> DEFINE out == OnMessageEvent(s, f).out
<1>1. PICK F : s \in Parsers(F)
  BY DEF IsParser
<1>2. s.usage \in Report /\ Covers(s.usage, s.usage) /\ Covers(s.usage, {})
  BY <1>1, CoveredAlready DEF Parsers
<1>3. ASSUME s.started PROVE Wrote(<<>>, x, {}) /\ x \o <<>> # <<>>
  BY <1>3, Nothing, OneMore DEF Stream
<1>4. CASE f.type = "message_start"
  <2>1. p = [s EXCEPT !.started = TRUE, !.usage = f.usage] /\ out = <<Event("started")>>
    BY <1>4 DEF OnMessageEvent
  <2>2. /\ p \in Parsers(F) /\ p.started /\ p.usage = f.usage
        /\ p.finish = s.finish /\ p.current = s.current
    <3> HIDE DEF p, out
    <3> QED BY <1>1, <2>1 DEF Parsers
  <2>3. Covers(f.usage, f.usage) /\ Covers(f.usage, s.usage)
    BY <1>4, CoveredAlready
  <2>4. ReadBy(s, f, p)
    <3> HIDE DEF p, out
    <3> QED BY <2>2, <2>3 DEF ReadBy, IsParser
  <2>5. Fits(x, Event("started")) /\ Event("started").kind # "call"
    BY <1>4, Events DEF Fits
  <2>6. Wrote(out, x, {}) /\ x \o out # <<>>
    <3> HIDE DEF p, out
    <3> QED BY <2>1, <2>5, OneEvent
  <2> QED BY <1>4, <2>2, <2>4, <2>6
<1>5. CASE f.type = "content_block_start"
  <2>1. /\ p = [s EXCEPT !.current = f.index]
        /\ out = IF f.delta = "call" THEN CallStarted(f.index, f.id) ELSE <<>>
    BY <1>5 DEF OnMessageEvent
  <2>2. /\ p \in Parsers(F) /\ p.started /\ p.usage = s.usage
        /\ p.finish = s.finish /\ p.current = f.index
    <3> HIDE DEF p, out
    <3> QED BY <1>1, <1>5, <2>1 DEF Parsers
  <2>3. ReadBy(s, f, p)
    <3> HIDE DEF p, out
    <3> QED BY <1>2, <1>5, <2>2 DEF ReadBy, IsParser
  <2>4. Wrote(out, x, IF f.delta = "call" THEN {f.index} ELSE {}) /\ x \o out # <<>>
    <3>1. CASE f.delta = "call"
      <4>1. PICK e : CallStarted(f.index, f.id) = <<e>> /\ e.kind = "call" /\ e.index = f.index
        BY Events
      <4>2. Fits(x, e)
        BY <1>5, <3>1, <4>1 DEF Fits
      <4> HIDE DEF p, out
      <4> QED BY <2>1, <3>1, <4>1, <4>2, OneEvent
    <3> HIDE DEF p, out
    <3> QED BY <1>3, <1>5, <2>1, <3>1
  <2> QED BY <1>5, <2>2, <2>3, <2>4
<1>6. CASE f.type = "content_block_delta"
  <2> DEFINE y == CASE f.delta = "text" -> Delta("content", 0, f.text)
                    [] f.delta = "think" -> Delta("reasoning", 0, f.text)
                    [] OTHER -> Delta("args", IF s.current = -1 THEN 0 ELSE s.current, f.text)
  <2>1. p = s /\ out = y
    BY <1>6 DEF OnMessageEvent
  <2>2. ReadBy(s, f, p)
    <3> HIDE DEF p, out
    <3> QED BY <1>2, <1>6, <2>1 DEF ReadBy
  <2>3. \E e : y = <<e>> /\ e.kind # "call" /\ Fits(x, e)
    <3>1. CASE f.delta = "text"
      <4>1. PICK e : Delta("content", 0, f.text) = <<e>> /\ e.kind = "content"
        BY Events
      <4>2. Fits(x, e) /\ y = <<e>>
        BY <1>6, <3>1, <4>1 DEF Fits
      <4> QED BY <4>1, <4>2
    <3>2. CASE f.delta = "think"
      <4>1. PICK e : Delta("reasoning", 0, f.text) = <<e>> /\ e.kind = "reasoning"
        BY Events
      <4>2. Fits(x, e) /\ y = <<e>>
        BY <1>6, <3>2, <4>1 DEF Fits
      <4> QED BY <4>1, <4>2
    <3>3. CASE f.delta \notin {"text", "think"}
      <4>1. s.current \in Opened(x) /\ y = Delta("args", s.current, f.text)
        BY <1>6, <3>3
      <4>2. PICK e : Delta("args", s.current, f.text) = <<e>> /\ e.kind = "args"
                     /\ e.index = s.current
        BY Events
      <4>3. Fits(x, e)
        BY <1>6, <4>1, <4>2 DEF Fits
      <4> HIDE DEF y
      <4> QED BY <4>1, <4>2, <4>3
    <3> QED BY <3>1, <3>2, <3>3
  <2> HIDE DEF p, out, y
  <2>4. Wrote(out, x, {}) /\ x \o out # <<>>
    BY <2>1, <2>3, OneEvent
  <2> QED BY <1>6, <2>1, <2>2, <2>4 DEF p, out
<1>7. CASE f.type = "content_block_stop"
  <2>1. p = [s EXCEPT !.current = -1] /\ out = <<>>
    BY <1>7 DEF OnMessageEvent
  <2>2. /\ p \in Parsers(F) /\ p.started /\ p.usage = s.usage
        /\ p.finish = s.finish /\ p.current = -1
    <3> HIDE DEF p, out
    <3> QED BY <1>1, <1>7, <2>1 DEF Parsers
  <2> HIDE DEF p, out
  <2>3. ReadBy(s, f, p)
    BY <1>2, <1>7, <2>2 DEF ReadBy, IsParser
  <2> QED BY <1>3, <1>7, <2>1, <2>2, <2>3 DEF p, out
<1>8. CASE f.type = "message_stop"
  <2>1. p = s /\ out = <<>>
    BY <1>8 DEF OnMessageEvent
  <2> HIDE DEF p, out
  <2>2. ReadBy(s, f, p)
    BY <1>2, <1>8, <2>1 DEF ReadBy
  <2> QED BY <1>3, <1>8, <2>1, <2>2 DEF p, out
<1>9. CASE f.type = "message_delta"
  <2> DEFINE m == MapStopReason[f.reason]
  <2> DEFINE u == MergedUsage(s.usage, f.usage)
  <2>1. p = [s EXCEPT !.finish = m, !.usage = u] /\ out = UsageUpdated(u)
    BY <1>9 DEF OnMessageEvent
  <2>2. u \in Report /\ Covers(u, f.usage) /\ Covers(u, s.usage)
    BY <1>2, <1>9, Merged
  <2> DEFINE G == F \union {m}
  <2> HIDE DEF p, out, m, u
  <2>3. s \in Parsers(G) /\ m \in G
    BY <1>1 DEF Parsers
  <2> HIDE DEF G
  <2>4. p \in Parsers(G) /\ p.started /\ p.usage = u /\ p.current = s.current
    BY <1>9, <2>1, <2>2, <2>3 DEF Parsers
  <2>5. ReadBy(s, f, p)
    BY <2>2, <2>4 DEF ReadBy, IsParser
  <2>6. Wrote(out, x, {}) /\ x \o out # <<>>
    <3>1. /\ Stream(x \o UsageUpdated(u)) /\ x \o UsageUpdated(u) # <<>>
          /\ Opened(x \o UsageUpdated(u)) = Opened(x) /\ IsSeq(UsageUpdated(u))
      BY <1>9, Reported
    <3> QED BY <2>1, <3>1 DEF Wrote
  <2> QED BY <1>9, <2>4, <2>5, <2>6 DEF p, out
<1> QED BY <1>4, <1>5, <1>6, <1>7, <1>8, <1>9

Announces(f) == f.type = "response.output_item.added" /\ f.delta = "call"

LEMMA ResponseRead ==
  ASSUME NEW s, IsParser(s), NEW x, Stream(x), s.started <=> x # <<>>,
         s.next = Len(s.indexes), Opened(x) = 0 .. s.next - 1, NEW f, f.usage \in Report,
         \/ f.type = "response.created" /\ ~s.started /\ f.usage = {}
         \/ f.type = "response.output_item.added" /\ s.started /\ f.usage = {} /\ f.index \in Int
         \/ /\ f.type \in {"response.output_text.delta", "response.reasoning_summary_text.delta"}
            /\ s.started /\ f.usage = {}
         \/ /\ f.type = "response.function_call_arguments.delta" /\ s.started /\ f.usage = {}
            /\ \E n \in 1 .. Len(s.indexes) : s.indexes[n] = f.index
         \/ f.type = "response.completed" /\ s.started /\ s.usage = {}
         \/ f.type = "response.incomplete" /\ s.started
  PROVE  /\ IsParser(OnResponseEvent(s, f).parser) /\ OnResponseEvent(s, f).parser.started
         /\ Covers(OnResponseEvent(s, f).parser.usage, s.usage)
         /\ f.type # "response.incomplete" => Covers(OnResponseEvent(s, f).parser.usage, f.usage)
         /\ f.type # "response.completed" => /\ OnResponseEvent(s, f).parser.finish = s.finish
                                             /\ OnResponseEvent(s, f).parser.usage = s.usage
         /\ OnResponseEvent(s, f).parser.next = Len(OnResponseEvent(s, f).parser.indexes)
         /\ OnResponseEvent(s, f).parser.indexes =
              IF Announces(f) THEN Append(s.indexes, f.index) ELSE s.indexes
         /\ Wrote(OnResponseEvent(s, f).out, x, IF Announces(f) THEN {s.next} ELSE {})
         /\ x \o OnResponseEvent(s, f).out # <<>>
<1> DEFINE p == OnResponseEvent(s, f).parser
<1> DEFINE out == OnResponseEvent(s, f).out
<1>1. PICK F : s \in Parsers(F)
  BY DEF IsParser
<1>2. /\ s.usage \in Report /\ Covers(s.usage, s.usage) /\ Covers(s.usage, {})
      /\ s.next \in Nat /\ s.indexes \in Seq(Int) /\ Len(s.indexes) \in Nat
  BY <1>1, CoveredAlready DEF Parsers
<1>3. ASSUME s.started PROVE Wrote(<<>>, x, {}) /\ x \o <<>> # <<>>
  BY <1>3, Nothing, OneMore DEF Stream
<1>4. CASE f.type = "response.created"
  <2>1. p = [s EXCEPT !.started = TRUE] /\ out = <<Event("started")>>
    BY <1>4 DEF OnResponseEvent
  <2>2. /\ p \in Parsers(F) /\ p.started /\ p.usage = s.usage
        /\ p.finish = s.finish /\ p.next = s.next /\ p.indexes = s.indexes
    <3> HIDE DEF p, out
    <3> QED BY <1>1, <2>1 DEF Parsers
  <2>3. Fits(x, Event("started")) /\ Event("started").kind # "call"
    BY <1>4, Events DEF Fits
  <2>4. Wrote(out, x, {}) /\ x \o out # <<>>
    <3> HIDE DEF p, out
    <3> QED BY <2>1, <2>3, OneEvent
  <2>5. IsParser(p) /\ ~Announces(f)
    BY <1>4, <2>2 DEF IsParser, Announces
  <2> QED BY <1>2, <1>4, <2>2, <2>4, <2>5 DEF p, out
<1>5. CASE Announces(f)
  <2>1. /\ p = [s EXCEPT !.indexes = Append(s.indexes, f.index), !.next = s.next + 1]
        /\ out = CallStarted(s.next, f.id) /\ s.started /\ f.usage = {} /\ f.index \in Int
        /\ f.type = "response.output_item.added"
    BY <1>5 DEF OnResponseEvent, Announces
  <2>2. Append(s.indexes, f.index) \in Seq(Int) /\ Len(Append(s.indexes, f.index)) = s.next + 1
    BY <1>2, <2>1
  <2>3. /\ p \in Parsers(F) /\ p.started /\ p.usage = s.usage /\ p.finish = s.finish
        /\ p.next = s.next + 1 /\ p.indexes = Append(s.indexes, f.index)
    <3> DEFINE list == Append(s.indexes, f.index)
    <3> DEFINE m == s.next + 1
    <3>1. p = [s EXCEPT !.indexes = list, !.next = m] /\ list \in Seq(Int) /\ m \in Nat
      BY <1>2, <2>1, <2>2
    <3>2. s.started
      BY <2>1
    <3> HIDE DEF p, out, list, m
    <3>3. p \in Parsers(F) /\ p.usage = s.usage /\ p.finish = s.finish /\ p.next = m /\ p.indexes = list
      BY <1>1, <3>1 DEF Parsers
    <3>4. p.started
      BY <1>1, <3>1, <3>2 DEF Parsers
    <3> QED BY <3>3, <3>4 DEF list, m
  <2>4. PICK e : CallStarted(s.next, f.id) = <<e>> /\ e.kind = "call" /\ e.index = s.next
    BY Events
  <2>5. Fits(x, e)
    BY <1>2, <2>1, <2>4 DEF Fits
  <2>6. Wrote(out, x, {s.next}) /\ x \o out # <<>>
    <3> HIDE DEF p, out
    <3> QED BY <2>1, <2>4, <2>5, OneEvent
  <2>7. IsParser(p)
    BY <2>3 DEF IsParser
  <2> QED BY <1>2, <1>5, <2>1, <2>2, <2>3, <2>6, <2>7 DEF p, out
<1>6. CASE f.type = "response.output_item.added" /\ ~Announces(f)
  <2>1. p = s /\ out = <<>>
    BY <1>6 DEF OnResponseEvent, Announces
  <2> QED BY <1>2, <1>3, <1>6, <2>1 DEF p, out
<1>7. CASE f.type = "response.incomplete"
  <2>1. p = s /\ out = <<>> /\ ~Announces(f)
    BY <1>7 DEF OnResponseEvent, Announces
  <2> QED BY <1>2, <1>3, <1>7, <2>1 DEF p, out
<1>8. CASE f.type \in {"response.output_text.delta", "response.reasoning_summary_text.delta",
                       "response.function_call_arguments.delta"}
  <2>1. p = s /\ ~Announces(f) /\ f.usage = {} /\ s.started
    BY <1>8 DEF OnResponseEvent, Announces
  <2>2. \E e : out = <<e>> /\ e.kind # "call" /\ Fits(x, e)
    <3>1. CASE f.type = "response.output_text.delta"
      <4>1. PICK e : Delta("content", 0, f.text) = <<e>> /\ e.kind = "content"
        BY Events
      <4>2. Fits(x, e) /\ out = <<e>>
        BY <2>1, <3>1, <4>1 DEF Fits, OnResponseEvent
      <4> QED BY <4>1, <4>2
    <3>2. CASE f.type = "response.reasoning_summary_text.delta"
      <4>1. PICK e : Delta("reasoning", 0, f.text) = <<e>> /\ e.kind = "reasoning"
        BY Events
      <4>2. Fits(x, e) /\ out = <<e>>
        BY <2>1, <3>2, <4>1 DEF Fits, OnResponseEvent
      <4> QED BY <4>1, <4>2
    <3>3. CASE f.type = "response.function_call_arguments.delta"
      <4> DEFINE t == ToolIndex(s, f.index)
      <4>1. t \in Opened(x)
        <5>1. \E n \in 1 .. Len(s.indexes) : s.indexes[n] = f.index
          BY <3>3
        <5> DEFINE n == CHOOSE n \in 1 .. Len(s.indexes) : s.indexes[n] = f.index
        <5>2. n \in 1 .. Len(s.indexes)
          BY <5>1
        <5>3. t = n - 1
          BY <5>1 DEF ToolIndex, Contains
        <5> HIDE DEF n, t
        <5> QED BY <1>2, <5>2, <5>3
      <4>2. out = Delta("args", t, f.text)
        BY <3>3 DEF OnResponseEvent
      <4> HIDE DEF t, out
      <4>3. PICK e : Delta("args", t, f.text) = <<e>> /\ e.kind = "args" /\ e.index = t
        BY Events
      <4>4. Fits(x, e)
        BY <2>1, <4>1, <4>3 DEF Fits
      <4> QED BY <4>2, <4>3, <4>4
    <3> QED BY <1>8, <3>1, <3>2, <3>3
  <2>3. Wrote(out, x, {}) /\ x \o out # <<>>
    <3> HIDE DEF p, out
    <3> QED BY <2>2, OneEvent
  <2> QED BY <1>2, <1>8, <2>1, <2>3 DEF p, out
<1>9. CASE f.type = "response.completed"
  <2> DEFINE m == ResponsesFinish(s.next > 0, f.reason)
  <2>1. p = [s EXCEPT !.usage = f.usage, !.finish = m] /\ out = UsageUpdated(f.usage)
    BY <1>9 DEF OnResponseEvent
  <2> DEFINE G == F \union {m}
  <2> HIDE DEF m
  <2>2. s \in Parsers(G) /\ m \in G
    BY <1>1 DEF Parsers
  <2>3. /\ p \in Parsers(G) /\ p.started /\ p.usage = f.usage
        /\ p.next = s.next /\ p.indexes = s.indexes
    <3> HIDE DEF p, out, G
    <3> QED BY <1>9, <2>1, <2>2 DEF Parsers
  <2>4. IsParser(p) /\ ~Announces(f)
    BY <1>9, <2>3 DEF IsParser, Announces
  <2>5. Covers(p.usage, f.usage) /\ Covers(p.usage, s.usage)
    <3> HIDE DEF p, out
    <3> QED BY <1>9, <2>3, CoveredAlready
  <2>6. Wrote(out, x, {}) /\ x \o out # <<>>
    <3>1. /\ Stream(x \o UsageUpdated(f.usage)) /\ x \o UsageUpdated(f.usage) # <<>>
          /\ Opened(x \o UsageUpdated(f.usage)) = Opened(x) /\ IsSeq(UsageUpdated(f.usage))
      BY <1>9, Reported
    <3> HIDE DEF p, out
    <3> QED BY <2>1, <3>1 DEF Wrote
  <2> QED BY <1>2, <1>9, <2>3, <2>4, <2>5, <2>6 DEF p, out
<1> QED BY <1>4, <1>5, <1>6, <1>7, <1>8, <1>9

-----------------------------------------------------------------------------
(* The stream of a call.                                                   *)

\* What has arrived is a part of the answer, and its parts in their turn.
Counted == /\ protocol \in Protocol /\ answer \in AnswerType
           /\ arrived \in [0 .. Ending -> Nat]
           /\ \A k \in 0 .. Ending : arrived[k] = 0 \/ arrived[k] <= Len(FramesOf(k))
InTurn ==
  \A k \in 0 .. Ending : arrived[k] > 0 =>
    \A j \in 0 .. k - 1 :
      Through(j) \/ (Interleaves /\ IsCall(j) /\ IsCall(k) /\ arrived[j] > 0)

\* The parser knows what has arrived: the reason and the usage.
Unread == protocol = "responses" /\ Reason(protocol, answer.reason) = "incomplete"
Billed == ~Unread => \A k \in 0 .. Ending : \A n \in 1 .. arrived[k] :
                       Covers(parser.usage, Sent(k, n).usage)
ReasonIsLast == parser.finish # "none" => arrived[Ending] > 0

Heard == Counted /\ InTurn /\ IsParser(parser) /\ Billed /\ ReasonIsLast

\* The calls whose announcement has arrived, and what each adapter keeps of them.
Answering == {k \in 1 .. Ending - 1 : IsCall(k) /\ arrived[k] > 0}
Numbers(K) == {CallsBefore(k) : k \in K}
Places(K) == {k - 1 : k \in K}

Open ==
  /\ Stream(emitted) /\ (parser.started <=> emitted # <<>>)
  /\ arrived[0] > 0 => parser.started
  /\ protocol = "openai" => Opened(emitted) = Numbers(Answering)
  /\ protocol = "gemini" => Opened(emitted) = 0 .. parser.next - 1
  /\ protocol = "anthropic" =>
       /\ parser.started => arrived[0] > 0
       /\ ~parser.started => parser.usage = {}
       /\ Opened(emitted) = Places(Answering)
       /\ \A k \in 1 .. Ending - 1 : arrived[k] > 0 /\ ~Through(k) => parser.current = k - 1
  /\ protocol = "responses" =>
       /\ parser.started => arrived[0] > 0
       /\ parser.next = Len(parser.indexes) /\ Opened(emitted) = 0 .. parser.next - 1
       /\ \A k \in Answering : \E n \in 1 .. Len(parser.indexes) : parser.indexes[n] = k - 1
       /\ arrived[Ending] = 0 => parser.usage = {}

\* The stream has ended, and a completion says what the parser knew.
Closed ==
  \E s, e : /\ Stream(s) /\ emitted = Append(s, e)
            /\ e.kind \in {"completed", "error"}
            /\ e.kind = "completed" => e.finish = parser.finish /\ e.usage = parser.usage

\* No stream has been opened.
Silent == emitted = <<>> /\ arrived = <<>> /\ answer = NoAnswer /\ parser = NewParser

StreamInv ==
  /\ protocol \in Protocol
  /\ \/ phase \in {"idle", "sent"} /\ Silent
     \/ phase = "reading" /\ Heard /\ Open
     \/ phase = "done" /\ (Silent \/ (Heard /\ Closed))

\* Two frames that differ in their text alone.
Alike(f, g) == /\ f.type = g.type /\ f.index = g.index /\ f.delta = g.delta
               /\ f.reason = g.reason /\ f.usage = g.usage

LEMMA GarbledAlike ==
  ASSUME NEW f, Framed(f)
  PROVE  Alike(Garbled(f), f)
<1>1. CASE f.text = <<>>
  BY <1>1 DEF Garbled, Alike
<1>2. CASE f.text # <<>>
  <2>1. Garbled(f) = [f EXCEPT !.text = <<"?">>]
    BY <1>2 DEF Garbled
  <2> QED BY <2>1 DEF Framed, Alike
<1> QED BY <1>1, <1>2

\* What may arrive next.
LEMMA NextInTurn ==
  ASSUME Counted, InTurn, NEW k \in 0 .. Ending, CanSend(k)
  PROVE  /\ arrived[k] + 1 \in 1 .. Len(FramesOf(k)) /\ NextFrame(k) = Sent(k, arrived[k] + 1)
         /\ k = 0 => arrived[0] = 0
         /\ k # 0 => arrived[0] > 0
         /\ ~Interleaves => \A j \in 0 .. Ending : j # k /\ arrived[j] > 0 => Through(j)
<1>1. Ending \in Nat /\ k \in Nat /\ \A j \in 0 .. Ending : j \in Nat
  <2>1. Len(answer.blocks) \in Nat /\ Ending = Len(answer.blocks) + 1
    BY PartsOfAnswer DEF Counted
  <2> QED BY <2>1
<1>2. \A j \in 0 .. Ending : /\ arrived[j] \in Nat /\ arrived[j] <= Len(FramesOf(j))
                             /\ Len(FramesOf(j)) \in Nat
  BY FramesAreListed DEF Counted
<1>3. arrived[k] + 1 \in 1 .. Len(FramesOf(k))
  <2>1. arrived[k] # Len(FramesOf(k))
    BY DEF CanSend, Through
  <2> QED BY <1>2, <2>1
<1>4. NextFrame(k) = Sent(k, arrived[k] + 1)
  BY DEF NextFrame, Sent
<1>5. Len(FramesOf(0)) = 1
  BY HeadSent DEF Counted
<1>6. ASSUME k = 0 PROVE arrived[0] = 0
  <2>1. arrived[0] + 1 \in 1 .. Len(FramesOf(0))
    BY <1>3, <1>6
  <2>2. arrived[0] \in Nat
    BY <1>1, <1>2
  <2> DEFINE a == arrived[0]
  <2>3. a + 1 \in 1 .. 1 /\ a \in Nat
    BY <1>5, <2>1, <2>2
  <2> HIDE DEF a
  <2>4. a = 0
    BY <2>3
  <2> QED BY <2>4 DEF a
<1>7. ASSUME k # 0 PROVE arrived[0] > 0
  <2>1. 0 \in 0 .. k - 1 /\ ~IsCall(0)
    BY <1>1, <1>7 DEF IsCall
  <2>2. Through(0)
    BY <2>1 DEF CanSend
  <2> QED BY <1>5, <2>2 DEF Through
<1>8. ASSUME ~Interleaves, NEW j \in 0 .. Ending, j # k, arrived[j] > 0 PROVE Through(j)
  <2>1. CASE j < k
    <3>1. j \in 0 .. k - 1
      BY <1>1, <2>1
    <3> QED BY <1>8, <3>1 DEF CanSend
  <2>2. CASE k < j
    <3>1. k \in 0 .. j - 1
      BY <1>1, <2>2
    <3>2. Through(k)
      BY <1>8, <3>1 DEF InTurn
    <3> QED BY <3>2 DEF CanSend
  <2> QED BY <1>1, <1>8, <2>1, <2>2
<1> QED BY <1>3, <1>4, <1>6, <1>7, <1>8

\* What reading frame f of part k, with result r, comes to for every adapter.
Answered(k) == Answering \union {j \in {k} : IsCall(j)}
Reads(k, f, r) ==
  /\ IsParser(r.parser) /\ r.parser.started
  /\ Covers(r.parser.usage, parser.usage)
  /\ ~Unread => Covers(r.parser.usage, f.usage)
  /\ k # Ending => r.parser.finish = parser.finish
  /\ IsSeq(r.out) /\ Stream(emitted \o r.out) /\ emitted \o r.out # <<>>

LEMMA AnsweredSets ==
  ASSUME Counted, NEW k
  PROVE  /\ ~IsCall(k) \/ (k \in 0 .. Ending /\ arrived[k] > 0) => Answered(k) = Answering
         /\ IsCall(k) => /\ Numbers(Answered(k)) = Numbers(Answering) \union {CallsBefore(k)}
                         /\ Places(Answered(k)) = Places(Answering) \union {k - 1}
         /\ IsCall(k) => InBlocks(k)
<1>1. IsCall(k) => InBlocks(k) /\ Answered(k) = Answering \union {k}
  BY DEF IsCall, InBlocks, Answered
<1>2. ~IsCall(k) => Answered(k) = Answering
  BY DEF Answered
<1>3. IsCall(k) /\ arrived[k] > 0 => k \in Answering
  BY <1>1 DEF Answering, InBlocks
<1>4. \A K : /\ Numbers(K \union {k}) = Numbers(K) \union {CallsBefore(k)}
             /\ Places(K \union {k}) = Places(K) \union {k - 1}
  BY DEF Numbers, Places
<1> QED BY <1>1, <1>2, <1>3, <1>4

\* The kinds of the parts.
LEMMA PartKinds ==
  ASSUME Counted, NEW k \in 0 .. Ending
  PROVE  /\ k = 0 \/ k = Ending \/ InBlocks(k)
         /\ ~IsCall(0) /\ ~IsCall(Ending) /\ 0 # Ending
         /\ InBlocks(k) => /\ IsCall(k) <=> BlockAt(k).kind = "call"
                           /\ k # 0 /\ k # Ending /\ k \in Nat
                           /\ BlockAt(k).kind \in {"text", "think", "call"}
<1>1. Len(answer.blocks) \in Nat /\ Ending = Len(answer.blocks) + 1
  BY PartsOfAnswer DEF Counted
<1>2. InBlocks(k) => BlockAt(k).kind \in {"text", "think", "call"}
  BY PartsOfAnswer DEF Counted
<1> QED BY <1>1, <1>2 DEF InBlocks, IsCall, BlockAt

LEMMA ReadChunk ==
  ASSUME Heard, Open, protocol = "openai", NEW k \in 0 .. Ending, CanSend(k),
         NEW f, Alike(f, NextFrame(k))
  PROVE  /\ Reads(k, f, OnChunk(parser, f))
         /\ Opened(emitted \o OnChunk(parser, f).out) = Numbers(Answered(k))
<1> DEFINE n == arrived[k] + 1
<1> DEFINE g == Sent(k, n)
<1>1. /\ n \in 1 .. Len(FramesOf(k)) /\ Alike(f, g) /\ Counted
      /\ answer \in AnswerType /\ protocol \in Protocol
  BY NextInTurn DEF Heard, Counted
<1>2. /\ IsParser(parser) /\ Stream(emitted) /\ (parser.started <=> emitted # <<>>)
      /\ Opened(emitted) = Numbers(Answering) /\ (k # 0 => arrived[0] > 0 /\ parser.started)
  BY NextInTurn DEF Heard, Open
<1>6. k = 0 => n = 1
  BY NextInTurn DEF Heard
<1>3. arrived[k] \in Nat /\ (n > 1 <=> arrived[k] > 0) /\ (n = 1 <=> ~(arrived[k] > 0))
  BY <1>1 DEF Counted
<1> HIDE DEF n, g
<1>4. CASE ~InBlocks(k)
  <2>1. f.delta = "none" /\ f.type = "chunk" /\ f.usage \in Report
    <3>1. CASE k = 0
      <4>1. n = 1
        BY <1>6, <3>1
      <4> QED BY <1>1, <3>1, <4>1, HeadSent DEF g, Heads, Alike
    <3>2. CASE k = Ending
      BY <1>1, <3>2, TailSent DEF g, Tails, Alike
    <3> QED BY <1>1, <1>4, <3>1, <3>2, PartKinds
  <2>2. k = 0 => f.reason = ""
    <3> SUFFICES ASSUME k = 0 PROVE f.reason = ""
      OBVIOUS
    <3>1. n = 1
      BY <1>6
    <3>2. Heads(g)
      BY <1>1, <3>1, HeadSent DEF g
    <3> QED BY <1>1, <3>2, Zenon DEF Heads, Alike
  <2> DEFINE r == OnChunk(parser, f)
  <2>3. /\ ReadBy(parser, f, r.parser) /\ r.parser.started
        /\ f.reason = "" => r.parser.finish = parser.finish
        /\ Wrote(r.out, emitted, {}) /\ emitted \o r.out # <<>>
    <3>1. /\ f.type \notin {"error", "untyped"}
          /\ f.delta = "args" => f.index \in Opened(emitted)
          /\ f.delta = "call" => f.index \notin Opened(emitted)
      BY <2>1
    <3> DEFINE more == IF f.delta = "call" THEN {f.index} ELSE {}
    <3>2. more = {}
      BY <2>1
    <3>3. /\ ReadBy(parser, f, r.parser) /\ r.parser.started
          /\ f.reason = "" => r.parser.finish = parser.finish
          /\ Wrote(r.out, emitted, more) /\ emitted \o r.out # <<>>
      BY <1>2, <2>1, <3>1, ChunkRead
    <3> HIDE DEF more, r
    <3> QED BY <3>2, <3>3, Zenon
  <2> HIDE DEF r
  <2>4. k # Ending => r.parser.finish = parser.finish
    BY <1>1, <1>4, <2>2, <2>3, PartKinds, Zenon
  <2>5. Answered(k) = Answering
    BY <1>1, <1>4, AnsweredSets
  <2> QED BY <1>2, <2>3, <2>4, <2>5, Zenon DEF Reads, ReadBy, Wrote, r
<1>5. CASE InBlocks(k)
  <2>1. Plain(g) /\ Chunked(k, n, g) /\ k # 0 /\ k # Ending /\ (IsCall(k) <=> BlockAt(k).kind = "call")
    BY <1>1, <1>5, BlockSent, PartKinds DEF g
  <2>2. f.reason = "" /\ f.usage = {}
    BY <1>1, <2>1, Zenon DEF Plain, Alike
  <2>3. BlockAt(k).kind \in {"text", "think", "call"}
    BY <1>1, <1>5, PartKinds
  <2>4. /\ f.delta = "call" <=> IsCall(k) /\ n = 1
        /\ f.delta = "args" <=> IsCall(k) /\ n # 1
        /\ IsCall(k) => f.index = CallsBefore(k)
        /\ f.type = "chunk" \/ (f.type = "untyped" /\ IsCall(k) /\ n > 1)
    BY <1>1, <1>3, <2>1, <2>3 DEF Chunked, Alike
  <2>5. f.usage \in Report
    BY <2>2, Zenon DEF Report
  <2> DEFINE r == OnChunk(parser, f)
  <2>6. CASE f.type = "untyped"
    <3>1. r.parser = parser /\ r.out = <<>>
      BY <2>6 DEF OnChunk
    <3>2. Covers(parser.usage, parser.usage) /\ Covers(parser.usage, {})
      <4>1. parser.usage \in Report
        BY <1>2 DEF IsParser, Parsers
      <4> QED BY <4>1, CoveredAlready
    <3>3. Answered(k) = Answering
      BY <1>1, <1>3, <2>4, <2>6, AnsweredSets
    <3>4. emitted \o <<>> = emitted /\ emitted # <<>> /\ IsSeq(<<>>)
      BY <1>2, <2>1, OneMore, Short DEF Stream
    <3> HIDE DEF r
    <3> QED BY <1>2, <2>1, <2>2, <3>1, <3>2, <3>3, <3>4, Zenon DEF Reads, r
  <2>7. CASE f.type # "untyped"
    <3>1. f.delta = "args" => f.index \in Opened(emitted)
      <4> SUFFICES ASSUME f.delta = "args" PROVE f.index \in Opened(emitted)
        OBVIOUS
      <4>1. k \in Answering
        BY <1>3, <1>5, <2>4 DEF Answering, InBlocks
      <4> QED BY <1>2, <2>4, <4>1 DEF Numbers
    <3>2. f.delta = "call" => f.index \notin Opened(emitted)
      <4> SUFFICES ASSUME f.delta = "call", f.index \in Opened(emitted) PROVE FALSE
        OBVIOUS
      <4>1. PICK j \in Answering : CallsBefore(j) = f.index
        BY <1>2 DEF Numbers
      <4>2. j = k
        BY <1>1, <2>4, <4>1, CallsAreNumbered DEF Answering
      <4> QED BY <1>3, <2>4, <4>1, <4>2 DEF Answering
    <3>3. /\ ReadBy(parser, f, r.parser) /\ r.parser.started
          /\ f.reason = "" => r.parser.finish = parser.finish
          /\ Wrote(r.out, emitted, IF f.delta = "call" THEN {f.index} ELSE {})
          /\ emitted \o r.out # <<>>
      BY <1>2, <2>4, <2>5, <2>7, <3>1, <3>2, ChunkRead
    <3> HIDE DEF r
    <3>4. Opened(emitted \o r.out) = Numbers(Answered(k))
      <4>1. Opened(emitted \o r.out) = Numbers(Answering) \union (IF f.delta = "call" THEN {f.index} ELSE {})
        BY <1>2, <3>3, Zenon DEF Wrote
      <4>2. CASE ~IsCall(k)
        <5>1. Answered(k) = Answering
          BY <1>1, <4>2, AnsweredSets
        <5> QED BY <2>4, <4>1, <4>2, <5>1
      <4>3. CASE IsCall(k) /\ n = 1
        <5>1. Numbers(Answered(k)) = Numbers(Answering) \union {CallsBefore(k)}
          BY <1>1, <4>3, AnsweredSets
        <5> QED BY <2>4, <4>1, <4>3, <5>1
      <4>4. CASE IsCall(k) /\ n # 1
        <5>1. Answered(k) = Answering
          BY <1>1, <1>3, <4>4, AnsweredSets
        <5> QED BY <2>4, <4>1, <4>4, <5>1
      <4> QED BY <4>2, <4>3, <4>4
    <3>5. r.parser.finish = parser.finish
      BY <2>2, <3>3, Zenon
    <3> QED BY <3>3, <3>4, <3>5, Zenon DEF Reads, ReadBy, Wrote, r
  <2> QED BY <2>6, <2>7
<1> QED BY <1>4, <1>5

LEMMA ReadGenerated ==
  ASSUME Heard, Open, protocol = "gemini", NEW k \in 0 .. Ending, CanSend(k),
         NEW f, Alike(f, NextFrame(k))
  PROVE  /\ Reads(k, f, OnGenerated(parser, f))
         /\ Opened(emitted \o OnGenerated(parser, f).out)
              = 0 .. OnGenerated(parser, f).parser.next - 1
<1> DEFINE n == arrived[k] + 1
<1> DEFINE g == Sent(k, n)
<1> DEFINE r == OnGenerated(parser, f)
<1>1. /\ n \in 1 .. Len(FramesOf(k)) /\ Alike(f, g) /\ Counted
      /\ answer \in AnswerType /\ protocol \in Protocol /\ (k = 0 => n = 1)
  BY NextInTurn DEF Heard, Counted
<1>2. /\ IsParser(parser) /\ Stream(emitted) /\ (parser.started <=> emitted # <<>>)
      /\ Opened(emitted) = 0 .. parser.next - 1
  BY DEF Heard, Open
<1>3. parser.next \in Nat
  BY <1>2 DEF IsParser, Parsers
<1> HIDE DEF n, g
<1>4. g.usage \in Report /\ (k # Ending => g.reason = "")
  <2>1. CASE k = 0
    <3>1. n = 1
      BY <1>1, <2>1
    <3>2. Heads(g) /\ g.usage \in Report
      BY <1>1, <2>1, <3>1, HeadSent DEF g
    <3> QED BY <3>2, Zenon DEF Heads
  <2>2. CASE k = Ending
    BY <1>1, <2>2, TailSent DEF g
  <2>3. CASE InBlocks(k)
    <3>1. Plain(g)
      BY <1>1, <2>3, BlockSent DEF g
    <3> QED BY <3>1, Zenon DEF Plain, Report
  <2> QED BY <1>1, <2>1, <2>2, <2>3, PartKinds
<1>5. f.usage \in Report /\ (k # Ending => f.reason = "")
  BY <1>1, <1>4, Zenon DEF Alike
<1>6. /\ ReadBy(parser, f, r.parser) /\ r.parser.started
      /\ f.reason = "" => r.parser.finish = parser.finish
      /\ Stream(emitted \o r.out) /\ emitted \o r.out # <<>> /\ IsSeq(r.out)
      /\ Opened(emitted \o r.out) = 0 .. r.parser.next - 1
  BY <1>2, <1>3, <1>5, GeneratedRead, Zenon
<1> HIDE DEF r
<1> QED BY <1>5, <1>6, Zenon DEF Reads, ReadBy, r

LEMMA ReadMessage ==
  ASSUME Heard, Open, protocol = "anthropic", NEW k \in 0 .. Ending, CanSend(k),
         NEW f, Alike(f, NextFrame(k))
  PROVE  /\ Reads(k, f, OnMessageEvent(parser, f))
         /\ Opened(emitted \o OnMessageEvent(parser, f).out) = Places(Answered(k))
         /\ InBlocks(k) /\ arrived[k] + 1 < Len(FramesOf(k))
              => OnMessageEvent(parser, f).parser.current = k - 1
<1> DEFINE n == arrived[k] + 1
<1> DEFINE g == Sent(k, n)
<1> DEFINE r == OnMessageEvent(parser, f)
<1>1. /\ n \in 1 .. Len(FramesOf(k)) /\ Alike(f, g) /\ Counted
      /\ answer \in AnswerType /\ protocol \in Protocol /\ (k = 0 => n = 1)
      /\ k \in Nat /\ Len(FramesOf(k)) \in Nat
  BY NextInTurn, FramesAreListed DEF Heard, Counted
<1>2. /\ IsParser(parser) /\ Stream(emitted) /\ (parser.started <=> emitted # <<>>)
      /\ Opened(emitted) = Places(Answering)
  BY DEF Heard, Open
<1>3. arrived[k] \in Nat /\ (n > 1 <=> arrived[k] > 0) /\ (n = 1 <=> ~(arrived[k] > 0))
  BY <1>1 DEF Counted
<1>4. /\ k # 0 => parser.started
      /\ k = 0 => ~parser.started /\ parser.usage = {}
  <2>1. /\ arrived[0] > 0 => parser.started
        /\ parser.started => arrived[0] > 0
        /\ ~parser.started => parser.usage = {}
    BY DEF Open
  <2>2. k = 0 => arrived[0] = 0
    BY NextInTurn DEF Heard
  <2>3. k # 0 => arrived[0] > 0
    BY NextInTurn DEF Heard
  <2> QED BY <2>1, <2>2, <2>3
<1>5. InBlocks(k) /\ n > 1 /\ n < Len(FramesOf(k)) => parser.current = k - 1
  <2> SUFFICES ASSUME InBlocks(k), n > 1, n < Len(FramesOf(k)) PROVE parser.current = k - 1
    OBVIOUS
  <2>1. arrived[k] > 0 /\ ~Through(k)
    BY <1>3 DEF Through
  <2> QED BY <2>1 DEF Open, InBlocks
<1> DEFINE more == IF f.type = "content_block_start" /\ f.delta = "call" THEN {f.index} ELSE {}
<1> HIDE DEF n, g
<1>6. /\ f.usage \in Report
      /\ \/ f.type = "message_start" /\ ~parser.started /\ parser.usage = {}
         \/ /\ f.type = "content_block_start" /\ parser.started /\ f.usage = {} /\ f.index \in Int
            /\ f.delta = "call" => f.index \notin Opened(emitted)
         \/ /\ f.type = "content_block_delta" /\ parser.started /\ f.usage = {}
            /\ \/ f.delta \in {"text", "think"}
               \/ parser.current \in Opened(emitted) /\ parser.current # -1
         \/ f.type \in {"content_block_stop", "message_stop"} /\ parser.started /\ f.usage = {}
         \/ f.type = "message_delta" /\ parser.started /\ f.usage # {}
      /\ k # Ending => f.type # "message_delta"
      /\ more = IF IsCall(k) /\ n = 1 THEN {k - 1} ELSE {}
      /\ InBlocks(k) /\ n < Len(FramesOf(k)) =>
           IF n = 1 THEN f.type = "content_block_start" /\ f.index = k - 1
           ELSE f.type = "content_block_delta"
  <2>1. CASE k = 0
    <3>1. Heads(g) /\ g.usage \in Report
      BY <1>1, <2>1, HeadSent DEF g
    <3>2. f.usage \in Report /\ f.type = "message_start"
      BY <1>1, <3>1 DEF Heads, Alike
    <3>3. ~InBlocks(k) /\ ~IsCall(k)
      BY <1>1, <2>1, PartKinds
    <3> QED BY <1>4, <2>1, <3>2, <3>3
  <2>2. CASE k = Ending
    <3>1. /\ Tails(n, g) /\ g.usage \in Report
          /\ IF n = 1 THEN g.usage # {} ELSE Plain(g)
      BY <1>1, <2>2, TailSent DEF g
    <3>2. n # 1 => g.usage = {}
      BY <3>1, Zenon DEF Plain
    <3>3. /\ f.usage \in Report
          /\ IF n = 1 THEN f.type = "message_delta" /\ f.usage # {}
                      ELSE f.type = "message_stop" /\ f.usage = {}
      BY <1>1, <3>1, <3>2 DEF Tails, Alike
    <3>4. ~InBlocks(k) /\ ~IsCall(k) /\ k # 0
      BY <1>1, <2>2, PartKinds
    <3> QED BY <1>4, <2>2, <3>3, <3>4
  <2>3. CASE InBlocks(k)
    <3>1. Plain(g) /\ Opening(k, n, g)
      BY <1>1, <2>3, BlockSent DEF g
    <3>2. g.usage = {}
      BY <3>1, Zenon DEF Plain
    <3>3. f.usage = {} /\ f.usage \in Report /\ Opening(k, n, f)
      BY <1>1, <3>1, <3>2 DEF Alike, Opening, Report
    <3>4. /\ k # 0 /\ k # Ending /\ (IsCall(k) <=> BlockAt(k).kind = "call")
          /\ BlockAt(k).kind \in {"text", "think", "call"} /\ parser.started
      BY <1>1, <1>4, <2>3, PartKinds
    <3>5. CASE n = 1
      <4>1. /\ f.type = "content_block_start" /\ f.index = k - 1
            /\ f.delta = IF IsCall(k) THEN "call" ELSE "none"
        BY <3>3, <3>4, <3>5 DEF Opening
      <4>2. ASSUME IsCall(k), k - 1 \in Opened(emitted) PROVE FALSE
        <5>1. PICK j \in Answering : j - 1 = k - 1
          BY <1>2, <4>2 DEF Places
        <5>2. j = k
          BY <1>1, <5>1 DEF Answering
        <5> QED BY <1>3, <3>5, <5>2 DEF Answering
      <4> QED BY <1>1, <3>3, <3>4, <3>5, <4>1, <4>2
    <3>6. CASE n # 1 /\ n < Len(FramesOf(k))
      <4>1. /\ f.type = "content_block_delta"
            /\ f.delta = IF IsCall(k) THEN "args" ELSE BlockAt(k).kind
        BY <3>3, <3>4, <3>6 DEF Opening
      <4>2. parser.current = k - 1
        BY <1>1, <1>5, <2>3, <3>6
      <4>3. IsCall(k) => k - 1 \in Opened(emitted)
        BY <1>1, <1>2, <1>3, <2>3, <3>6 DEF Places, Answering, InBlocks
      <4> QED BY <1>1, <3>3, <3>4, <3>6, <4>1, <4>2, <4>3
    <3>7. CASE n # 1 /\ ~(n < Len(FramesOf(k)))
      <4>1. f.type = "content_block_stop"
        BY <3>3, <3>7 DEF Opening
      <4> QED BY <3>3, <3>4, <3>7, <4>1
    <3> QED BY <3>5, <3>6, <3>7
  <2> QED BY <1>1, <2>1, <2>2, <2>3, PartKinds
<1>7. /\ ReadBy(parser, f, r.parser) /\ r.parser.started
      /\ f.type # "message_delta" => r.parser.finish = parser.finish
      /\ r.parser.current = CASE f.type = "content_block_start" -> f.index
                              [] f.type = "content_block_stop" -> -1
                              [] OTHER -> parser.current
      /\ Wrote(r.out, emitted, more) /\ emitted \o r.out # <<>>
  BY <1>2, <1>6, MessageRead
<1>8. Reads(k, f, r)
  <2> HIDE DEF r, more
  <2> QED BY <1>6, <1>7 DEF Reads, ReadBy, Wrote
<1>9. Opened(emitted \o r.out) = Places(Answered(k))
  <2>1. Opened(emitted \o r.out) = Places(Answering) \union more
    BY <1>2, <1>7 DEF Wrote
  <2>2. more = IF IsCall(k) /\ n = 1 THEN {k - 1} ELSE {}
    BY <1>6
  <2> HIDE DEF r, more
  <2>3. CASE ~IsCall(k)
    BY <1>1, <2>1, <2>2, <2>3, AnsweredSets
  <2>4. CASE IsCall(k) /\ n = 1
    BY <1>1, <2>1, <2>2, <2>4, AnsweredSets
  <2>5. CASE IsCall(k) /\ n # 1
    BY <1>1, <1>3, <2>1, <2>2, <2>5, AnsweredSets
  <2> QED BY <2>3, <2>4, <2>5
<1>10. InBlocks(k) /\ n < Len(FramesOf(k)) => r.parser.current = k - 1
  <2> SUFFICES ASSUME InBlocks(k), n < Len(FramesOf(k)) PROVE r.parser.current = k - 1
    OBVIOUS
  <2>1. CASE n = 1
    <3>1. f.type = "content_block_start" /\ f.index = k - 1
      BY <1>6, <2>1
    <3> HIDE DEF r
    <3> QED BY <1>7, <3>1
  <2>2. CASE n # 1
    <3>1. f.type = "content_block_delta" /\ parser.current = k - 1
      BY <1>1, <1>5, <1>6, <2>2
    <3> HIDE DEF r
    <3> QED BY <1>7, <3>1
  <2> QED BY <2>1, <2>2
<1> QED BY <1>8, <1>9, <1>10 DEF n

LEMMA ReadResponse ==
  ASSUME Heard, Open, protocol = "responses", NEW k \in 0 .. Ending, CanSend(k),
         NEW f, Alike(f, NextFrame(k))
  PROVE  LET r == OnResponseEvent(parser, f) IN
         /\ Reads(k, f, r)
         /\ Opened(emitted \o r.out) = 0 .. r.parser.next - 1
         /\ r.parser.next = Len(r.parser.indexes)
         /\ \A j \in Answered(k) : \E m \in 1 .. Len(r.parser.indexes) : r.parser.indexes[m] = j - 1
         /\ k # Ending => (arrived[Ending] = 0 => r.parser.usage = {})
<1> DEFINE n == arrived[k] + 1
<1> DEFINE g == Sent(k, n)
<1> DEFINE r == OnResponseEvent(parser, f)
<1>1. /\ n \in 1 .. Len(FramesOf(k)) /\ Alike(f, g) /\ Counted
      /\ answer \in AnswerType /\ protocol \in Protocol /\ (k = 0 => n = 1)
      /\ k \in Nat /\ Len(FramesOf(k)) \in Nat
  BY NextInTurn, FramesAreListed DEF Heard, Counted
<1>2. /\ IsParser(parser) /\ Stream(emitted) /\ (parser.started <=> emitted # <<>>)
      /\ Opened(emitted) = 0 .. parser.next - 1 /\ parser.next = Len(parser.indexes)
      /\ \A j \in Answering : \E m \in 1 .. Len(parser.indexes) : parser.indexes[m] = j - 1
      /\ arrived[Ending] = 0 => parser.usage = {}
  BY DEF Heard, Open
<1>3. arrived[k] \in Nat /\ (n > 1 <=> arrived[k] > 0) /\ (n = 1 <=> ~(arrived[k] > 0))
  BY <1>1 DEF Counted
<1>4. (k # 0 => parser.started) /\ (k = 0 => ~parser.started)
  <2>1. (arrived[0] > 0 => parser.started) /\ (parser.started => arrived[0] > 0)
    BY DEF Open
  <2>2. k = 0 => arrived[0] = 0
    BY NextInTurn DEF Heard
  <2>3. k # 0 => arrived[0] > 0
    BY NextInTurn DEF Heard
  <2> QED BY <2>1, <2>2, <2>3
<1>5. Reason(protocol, answer.reason) \in {"completed", "incomplete"}
  <2>1. answer.reason \in {"stop", "tool_calls", "length", "content_filter"}
    BY <1>1 DEF AnswerType
  <2> QED BY <2>1 DEF Reason
<1>6. k = Ending => arrived[Ending] = 0
  <2> SUFFICES ASSUME k = Ending PROVE arrived[k] = 0
    OBVIOUS
  <2>1. Len(FramesOf(k)) = 1
    BY <1>1, TailSent
  <2> QED BY <1>1, <1>3, <2>1
<1> HIDE DEF n, g
<1>7. /\ f.usage \in Report
      /\ \/ f.type = "response.created" /\ ~parser.started /\ f.usage = {}
         \/ /\ f.type = "response.output_item.added" /\ parser.started /\ f.usage = {}
            /\ f.index \in Int
         \/ /\ f.type \in {"response.output_text.delta", "response.reasoning_summary_text.delta"}
            /\ parser.started /\ f.usage = {}
         \/ /\ f.type = "response.function_call_arguments.delta" /\ parser.started /\ f.usage = {}
            /\ \E m \in 1 .. Len(parser.indexes) : parser.indexes[m] = f.index
         \/ f.type = "response.completed" /\ parser.started /\ parser.usage = {}
         \/ f.type = "response.incomplete" /\ parser.started
      /\ k # Ending => f.type \notin {"response.completed", "response.incomplete"}
      /\ ~Unread => f.type # "response.incomplete"
      /\ Announces(f) <=> IsCall(k) /\ n = 1
      /\ Announces(f) => f.index = k - 1
  <2>1. CASE k = 0
    <3>1. Heads(g) /\ g.usage = {} /\ g.usage \in Report
      BY <1>1, <2>1, HeadSent DEF g
    <3>2. f.usage \in Report /\ f.type = "response.created" /\ f.usage = {}
      BY <1>1, <3>1 DEF Heads, Alike
    <3>3. ~IsCall(k)
      BY <1>1, <2>1, PartKinds
    <3> QED BY <1>4, <2>1, <3>2, <3>3 DEF Announces
  <2>2. CASE k = Ending
    <3>1. Tails(n, g) /\ g.usage \in Report
      BY <1>1, <2>2, TailSent DEF g
    <3>2. /\ f.usage \in Report
          /\ f.type = IF Reason(protocol, answer.reason) = "completed" THEN "response.completed"
                      ELSE "response.incomplete"
      BY <1>1, <3>1 DEF Tails, Alike
    <3>3. ~IsCall(k) /\ k # 0
      BY <1>1, <2>2, PartKinds
    <3> QED BY <1>2, <1>4, <1>5, <1>6, <2>2, <3>2, <3>3 DEF Announces, Unread
  <2>3. CASE InBlocks(k)
    <3>1. Plain(g) /\ Itemised(k, n, g)
      BY <1>1, <2>3, BlockSent DEF g
    <3>2. g.usage = {}
      BY <3>1, Zenon DEF Plain
    <3>3. f.usage = {} /\ f.usage \in Report /\ Itemised(k, n, f)
      BY <1>1, <3>1, <3>2 DEF Alike, Itemised, Report
    <3>4. /\ k # 0 /\ k # Ending /\ (IsCall(k) <=> BlockAt(k).kind = "call")
          /\ BlockAt(k).kind \in {"text", "think", "call"} /\ parser.started
      BY <1>1, <1>4, <2>3, PartKinds
    <3>5. CASE n = 1
      <4>1. /\ f.type = "response.output_item.added" /\ f.index = k - 1
            /\ f.delta = IF IsCall(k) THEN "call" ELSE "none"
        BY <3>3, <3>4, <3>5 DEF Itemised
      <4> QED BY <1>1, <3>3, <3>4, <3>5, <4>1 DEF Announces
    <3>6. CASE n # 1
      <4>1. /\ f.index = k - 1
            /\ f.type = CASE IsCall(k) -> "response.function_call_arguments.delta"
                          [] BlockAt(k).kind = "text" -> "response.output_text.delta"
                          [] OTHER -> "response.reasoning_summary_text.delta"
        BY <1>1, <3>3, <3>4, <3>6 DEF Itemised
      <4>2. IsCall(k) => \E m \in 1 .. Len(parser.indexes) : parser.indexes[m] = f.index
        <5> SUFFICES ASSUME IsCall(k)
                     PROVE  \E m \in 1 .. Len(parser.indexes) : parser.indexes[m] = f.index
          OBVIOUS
        <5>1. k \in Answering
          BY <1>1, <1>3, <2>3, <3>6 DEF Answering, InBlocks
        <5> QED BY <1>2, <4>1, <5>1
      <4>3. /\ f.type \notin {"response.output_item.added", "response.completed", "response.incomplete"}
            /\ IsCall(k) \/ f.type \in {"response.output_text.delta",
                                        "response.reasoning_summary_text.delta"}
            /\ IsCall(k) => f.type = "response.function_call_arguments.delta"
        BY <3>4, <4>1
      <4> QED BY <3>3, <3>4, <3>6, <4>2, <4>3 DEF Announces
    <3> QED BY <3>5, <3>6
  <2> QED BY <1>1, <2>1, <2>2, <2>3, PartKinds
<1> DEFINE more == IF Announces(f) THEN {parser.next} ELSE {}
<1>8. /\ IsParser(r.parser) /\ r.parser.started
      /\ Covers(r.parser.usage, parser.usage)
      /\ f.type # "response.incomplete" => Covers(r.parser.usage, f.usage)
      /\ f.type # "response.completed" => /\ r.parser.finish = parser.finish
                                          /\ r.parser.usage = parser.usage
      /\ r.parser.next = Len(r.parser.indexes)
      /\ r.parser.indexes = IF Announces(f) THEN Append(parser.indexes, f.index) ELSE parser.indexes
      /\ Wrote(r.out, emitted, more) /\ emitted \o r.out # <<>>
  BY <1>2, <1>7, ResponseRead
<1> HIDE DEF r
<1>9. Reads(k, f, r)
  <2> HIDE DEF more
  <2> QED BY <1>7, <1>8 DEF Reads, Wrote
<1> DEFINE old == parser.indexes
<1>10. old \in Seq(Int) /\ parser.next = Len(old) /\ Len(old) \in Nat
  BY <1>2 DEF IsParser, Parsers
<1> DEFINE new == Append(old, f.index)
<1>11. Len(new) = Len(old) + 1 /\ new[Len(old) + 1] = f.index /\ \A m \in 1 .. Len(old) : new[m] = old[m]
  BY <1>10, AppendProperties
<1>12. Opened(emitted \o r.out) = 0 .. r.parser.next - 1
  <2>1. Opened(emitted \o r.out) = (0 .. parser.next - 1) \union more
    BY <1>2, <1>8 DEF Wrote
  <2>2. r.parser.next = IF Announces(f) THEN parser.next + 1 ELSE parser.next
    <3>1. r.parser.indexes = IF Announces(f) THEN new ELSE old
      BY <1>8
    <3>2. r.parser.next = Len(r.parser.indexes)
      BY <1>8
    <3> HIDE DEF new, old
    <3> QED BY <1>10, <1>11, <3>1, <3>2
  <2> QED BY <1>10, <2>1, <2>2
<1>13. \A j \in Answered(k) : \E m \in 1 .. Len(r.parser.indexes) : r.parser.indexes[m] = j - 1
  <2> TAKE j \in Answered(k)
  <2>1. CASE j \in Answering
    <3>1. PICK m \in 1 .. Len(old) : old[m] = j - 1
      BY <1>2, <2>1
    <3>2. r.parser.indexes = IF Announces(f) THEN new ELSE old
      BY <1>8
    <3> HIDE DEF new, old
    <3> QED BY <1>10, <1>11, <3>1, <3>2
  <2>2. CASE j \notin Answering
    <3>1. j = k /\ IsCall(k)
      BY <2>2 DEF Answered
    <3>2. n = 1
      BY <1>1, <1>3, <2>2, <3>1 DEF Answering, IsCall
    <3>3. Announces(f) /\ f.index = k - 1
      BY <1>7, <3>1, <3>2
    <3>4. r.parser.indexes = new
      BY <1>8, <3>3
    <3> HIDE DEF new, old
    <3> QED BY <1>10, <1>11, <3>1, <3>3, <3>4
  <2> QED BY <2>1, <2>2
<1>14. k # Ending => (arrived[Ending] = 0 => r.parser.usage = {})
  BY <1>2, <1>7, <1>8
<1> QED BY <1>8, <1>9, <1>12, <1>13, <1>14 DEF r

LEMMA ReadFrame ==
  ASSUME Heard, Open, NEW k \in 0 .. Ending, CanSend(k), NEW f, Alike(f, NextFrame(k))
  PROVE  LET r == OnFrame(protocol, parser, f) IN
         /\ Reads(k, f, r)
         /\ protocol = "openai" => Opened(emitted \o r.out) = Numbers(Answered(k))
         /\ protocol = "gemini" => Opened(emitted \o r.out) = 0 .. r.parser.next - 1
         /\ protocol = "anthropic" =>
              /\ Opened(emitted \o r.out) = Places(Answered(k))
              /\ InBlocks(k) /\ arrived[k] + 1 < Len(FramesOf(k)) => r.parser.current = k - 1
         /\ protocol = "responses" =>
              /\ Opened(emitted \o r.out) = 0 .. r.parser.next - 1
              /\ r.parser.next = Len(r.parser.indexes)
              /\ \A j \in Answered(k) :
                   \E m \in 1 .. Len(r.parser.indexes) : r.parser.indexes[m] = j - 1
              /\ k # Ending => (arrived[Ending] = 0 => r.parser.usage = {})
<1> DEFINE r == OnFrame(protocol, parser, f)
<1>1. CASE protocol = "openai"
  <2>1. r = OnChunk(parser, f)
    BY <1>1 DEF OnFrame
  <2> HIDE DEF r
  <2>2. Reads(k, f, r) /\ Opened(emitted \o r.out) = Numbers(Answered(k))
    BY <1>1, <2>1, ReadChunk
  <2> QED BY <1>1, <2>2 DEF r
<1>2. CASE protocol = "gemini"
  <2>1. r = OnGenerated(parser, f)
    BY <1>2 DEF OnFrame
  <2> HIDE DEF r
  <2>2. Reads(k, f, r) /\ Opened(emitted \o r.out) = 0 .. r.parser.next - 1
    BY <1>2, <2>1, ReadGenerated
  <2> QED BY <1>2, <2>2 DEF r
<1>3. CASE protocol = "anthropic"
  <2>1. r = OnMessageEvent(parser, f)
    BY <1>3 DEF OnFrame
  <2> HIDE DEF r
  <2>2. /\ Reads(k, f, r) /\ Opened(emitted \o r.out) = Places(Answered(k))
        /\ InBlocks(k) /\ arrived[k] + 1 < Len(FramesOf(k)) => r.parser.current = k - 1
    BY <1>3, <2>1, ReadMessage
  <2> QED BY <1>3, <2>2 DEF r
<1>4. CASE protocol = "responses"
  <2>1. r = OnResponseEvent(parser, f)
    BY <1>4 DEF OnFrame
  <2> HIDE DEF r
  <2>2. /\ Reads(k, f, r)
        /\ Opened(emitted \o r.out) = 0 .. r.parser.next - 1
        /\ r.parser.next = Len(r.parser.indexes)
        /\ \A j \in Answered(k) :
             \E m \in 1 .. Len(r.parser.indexes) : r.parser.indexes[m] = j - 1
        /\ k # Ending => (arrived[Ending] = 0 => r.parser.usage = {})
    BY <1>4, <2>1, ReadResponse
  <2> QED BY <1>4, <2>2 DEF r
<1> QED BY <1>1, <1>2, <1>3, <1>4 DEF Heard, Counted, Protocol

\* The vendor's side of a stream, whose answer and protocol do not change.
LEMMA SameAnswer ==
  ASSUME answer' = answer, protocol' = protocol
  PROVE  /\ Ending' = Ending /\ Interleaves' = Interleaves /\ Unread' = Unread
         /\ \A k : FramesOf(k)' = FramesOf(k)
         /\ \A k, n : Sent(k, n)' = Sent(k, n)
         /\ \A k : IsCall(k)' = IsCall(k)
         /\ \A k : CallsBefore(k)' = CallsBefore(k)
<1>1. Ending' = Ending /\ Interleaves' = Interleaves /\ Unread' = Unread
  BY DEF Ending, Interleaves, Unread
<1>2. ASSUME NEW k PROVE CallsBefore(k)' = CallsBefore(k)
  BY DEF CallsBefore
<1>3. ASSUME NEW k PROVE BlockFrames(k)' = BlockFrames(k)
  BY <1>2 DEF BlockFrames
<1>4. HeadFrames' = HeadFrames /\ TailFrames' = TailFrames
  BY DEF HeadFrames, TailFrames
<1>5. ASSUME NEW k PROVE FramesOf(k)' = FramesOf(k)
  BY <1>1, <1>3, <1>4 DEF FramesOf
<1>6. ASSUME NEW k, NEW n PROVE Sent(k, n)' = Sent(k, n)
  BY <1>5 DEF Sent
<1>7. ASSUME NEW k PROVE IsCall(k)' = IsCall(k)
  BY <1>1 DEF IsCall
<1> QED BY <1>1, <1>2, <1>5, <1>6, <1>7

\* Nothing that a stream's reader writes before the end is an error.
LEMMA NoError ==
  ASSUME NEW x, IsSeq(x), NEW out, IsSeq(out), Stream(x \o out)
  PROVE  Event("error") \notin ToSet(out)
<1> SUFFICES ASSUME Event("error") \in ToSet(out) PROVE FALSE
  OBVIOUS
<1>1. PICK S : x \in Seq(S)
  BY DEF IsSeq
<1>2. PICK T : out \in Seq(T)
  BY DEF IsSeq
<1> DEFINE A == S \union T
<1>3. x \in Seq(A) /\ out \in Seq(A)
  BY <1>1, <1>2
<1> HIDE DEF A
<1>4. PICK i \in 1 .. Len(out) : out[i] = Event("error")
  BY <1>3 DEF ToSet
<1>5. /\ Len(x) \in Nat /\ Len(out) \in Nat /\ Len(x \o out) = Len(x) + Len(out)
      /\ (x \o out)[Len(x) + i] = out[i]
  BY <1>3, ConcatProperties
<1>6. Len(x) + i \in 1 .. Len(x \o out)
  BY <1>5
<1>7. (x \o out)[Len(x) + i].kind = "error"
  BY <1>4, <1>5, Events
<1> QED BY <1>6, <1>7 DEF Stream, InOrder

\* Usage that covers more covers the less.
LEMMA CoversMore ==
  ASSUME NEW a \in Report, NEW b \in Report, NEW c \in Report, Covers(a, b), Covers(b, c)
  PROVE  Covers(a, c)
<1>1. \A z \in a : z.input \in Nat /\ z.output \in Nat
  BY DEF Report, Usages
<1>2. \A z \in b : z.input \in Nat /\ z.output \in Nat
  BY DEF Report, Usages
<1>3. \A z \in c : z.input \in Nat /\ z.output \in Nat
  BY DEF Report, Usages
<1> QED BY <1>1, <1>2, <1>3 DEF Covers

LEMMA FrameUsage ==
  ASSUME Counted, NEW k \in 0 .. Ending, NEW n \in 1 .. Len(FramesOf(k))
  PROVE  Framed(Sent(k, n)) /\ Sent(k, n).usage \in Report
<1>1. answer \in AnswerType /\ protocol \in Protocol
  BY DEF Counted
<1>2. CASE k = 0
  <2>1. n \in 1 .. 1
    <3>1. Len(FramesOf(k)) = 1
      BY <1>1, <1>2, HeadSent
    <3> QED BY <3>1
  <2>2. n = 1 /\ Heads(Sent(0, 1)) /\ Sent(0, 1).usage \in Report
    BY <1>1, <2>1, HeadSent
  <2> QED BY <1>2, <2>2 DEF Heads
<1>3. CASE k = Ending
  <2>1. Tails(n, Sent(k, n)) /\ Sent(k, n).usage \in Report
    BY <1>1, <1>3, TailSent
  <2> QED BY <2>1 DEF Tails
<1>4. CASE InBlocks(k)
  <2>1. Plain(Sent(k, n))
    BY <1>1, <1>4, BlockSent
  <2> QED BY <2>1, Zenon DEF Plain, Report
<1> QED BY <1>2, <1>3, <1>4, PartKinds

LEMMA ArriveKeeps ==
  ASSUME phase = "reading", Heard, Open, NEW k \in 0 .. Ending, Arrive(k)
  PROVE  phase' = phase /\ Heard' /\ Open' /\ UNCHANGED <<protocol, answer>>
<1> DEFINE f == IF cut.inside THEN Garbled(NextFrame(k)) ELSE NextFrame(k)
<1> DEFINE r == OnFrame(protocol, parser, f)
<1> DEFINE n == arrived[k] + 1
<1>1. /\ CanSend(k) /\ Counted /\ InTurn /\ IsParser(parser) /\ Billed /\ ReasonIsLast
      /\ arrived' = [arrived EXCEPT ![k] = n] /\ UNCHANGED <<protocol, answer>>
  BY DEF Arrive, Heard
<1>2. n \in 1 .. Len(FramesOf(k)) /\ NextFrame(k) = Sent(k, n)
  BY <1>1, NextInTurn
<1>3. Alike(f, NextFrame(k))
  <2>1. Framed(NextFrame(k))
    BY <1>1, <1>2, FrameUsage
  <2>2. Alike(NextFrame(k), NextFrame(k))
    BY DEF Alike
  <2> QED BY <2>1, <2>2, GarbledAlike
<1>4. /\ Reads(k, f, r)
      /\ protocol = "openai" => Opened(emitted \o r.out) = Numbers(Answered(k))
      /\ protocol = "gemini" => Opened(emitted \o r.out) = 0 .. r.parser.next - 1
      /\ protocol = "anthropic" =>
           /\ Opened(emitted \o r.out) = Places(Answered(k))
           /\ InBlocks(k) /\ arrived[k] + 1 < Len(FramesOf(k)) => r.parser.current = k - 1
      /\ protocol = "responses" =>
           /\ Opened(emitted \o r.out) = 0 .. r.parser.next - 1
           /\ r.parser.next = Len(r.parser.indexes)
           /\ \A j \in Answered(k) :
                \E m \in 1 .. Len(r.parser.indexes) : r.parser.indexes[m] = j - 1
           /\ k # Ending => (arrived[Ending] = 0 => r.parser.usage = {})
  <2> HIDE DEF f
  <2> QED BY <1>1, <1>3, ReadFrame
<1>5. parser' = r.parser /\ emitted' = emitted \o r.out /\ phase' = phase
  <2>1. Read(f)
    BY DEF Arrive
  <2> HIDE DEF f
  <2>2. Event("error") \notin ToSet(r.out)
    <3> HIDE DEF r
    <3>1. IsSeq(emitted) /\ IsSeq(r.out) /\ Stream(emitted \o r.out)
      BY <1>4 DEF Reads, Open, Stream
    <3> QED BY <3>1, NoError
  <2> QED BY <2>1, <2>2 DEF Read
<1>6. /\ Ending' = Ending /\ Interleaves' = Interleaves /\ Unread' = Unread
      /\ \A j : FramesOf(j)' = FramesOf(j)
      /\ \A j, m : Sent(j, m)' = Sent(j, m)
      /\ \A j : IsCall(j)' = IsCall(j)
      /\ \A j : CallsBefore(j)' = CallsBefore(j)
  BY <1>1, SameAnswer
<1>7. /\ Ending \in Nat /\ k \in Nat /\ \A j \in 0 .. Ending : j \in Nat /\ arrived[j] \in Nat
      /\ arrived \in [0 .. Ending -> Nat]
  <2>1. Len(answer.blocks) \in Nat /\ Ending = Len(answer.blocks) + 1
    BY <1>1, PartsOfAnswer DEF Counted
  <2> QED BY <1>1, <2>1 DEF Counted
<1> HIDE DEF f, r
<1>8. /\ arrived' \in [0 .. Ending -> Nat] /\ arrived'[k] = n /\ n \in Nat /\ n > 0
      /\ \A j \in 0 .. Ending : j # k => arrived'[j] = arrived[j]
  BY <1>1, <1>2, <1>7
<1> HIDE DEF n
<1>9. Counted'
  <2>1. \A j \in 0 .. Ending : arrived'[j] = 0 \/ arrived'[j] <= Len(FramesOf(j))
    BY <1>1, <1>2, <1>8 DEF Counted
  <2>2. protocol' \in Protocol /\ answer' \in AnswerType
    BY <1>1 DEF Counted
  <2> QED BY <1>6, <1>8, <2>1, <2>2 DEF Counted
<1>10. InTurn'
  <2> SUFFICES ASSUME NEW i \in 0 .. Ending, arrived'[i] > 0, NEW j \in 0 .. i - 1
               PROVE  \/ arrived'[j] = Len(FramesOf(j))
                      \/ Interleaves /\ IsCall(j) /\ IsCall(i) /\ arrived'[j] > 0
    BY <1>6 DEF InTurn, Through
  <2>1. j \in 0 .. Ending /\ i \in Nat /\ j # i
    BY <1>7
  <2>2. CASE i = k
    <3>1. Through(j) \/ (Interleaves /\ IsCall(j) /\ IsCall(k) /\ arrived[j] > 0)
      BY <1>1, <2>2 DEF CanSend
    <3> QED BY <1>8, <2>1, <2>2, <3>1 DEF Through
  <2>3. CASE i # k
    <3>1. Through(j) \/ (Interleaves /\ IsCall(j) /\ IsCall(i) /\ arrived[j] > 0)
      BY <1>1, <1>8, <2>3 DEF InTurn
    <3>2. CASE j = k
      <4>1. ~Through(k)
        BY <1>1 DEF CanSend
      <4> QED BY <1>8, <3>1, <3>2, <4>1
    <3>3. CASE j # k
      BY <1>8, <2>1, <3>1, <3>3 DEF Through
    <3> QED BY <3>2, <3>3
  <2> QED BY <2>2, <2>3
<1>11. IsParser(parser') /\ parser'.usage \in Report
  <2>1. IsParser(parser')
    BY <1>4, <1>5 DEF Reads
  <2> QED BY <2>1 DEF IsParser, Parsers
<1>12. Billed'
  <2> SUFFICES ASSUME ~Unread, NEW j \in 0 .. Ending, NEW m \in 1 .. arrived'[j]
               PROVE  Covers(parser'.usage, Sent(j, m).usage)
    BY <1>6 DEF Billed
  <2>1. parser.usage \in Report
    BY <1>1 DEF IsParser, Parsers
  <2>2. Covers(parser'.usage, parser.usage) /\ Covers(parser'.usage, f.usage)
    BY <1>4, <1>5 DEF Reads
  <2>3. CASE j = k /\ m = n
    <3>1. f.usage = Sent(j, m).usage
      BY <1>2, <1>3, <2>3 DEF Alike
    <3> QED BY <2>2, <3>1
  <2>4. CASE ~(j = k /\ m = n)
    <3>1. m \in 1 .. arrived[j]
      BY <1>7, <1>8, <2>4 DEF n
    <3>2. Covers(parser.usage, Sent(j, m).usage)
      BY <1>1, <3>1 DEF Billed
    <3>3. m \in 1 .. Len(FramesOf(j))
      <4>1. arrived[j] <= Len(FramesOf(j)) /\ Len(FramesOf(j)) \in Nat
        BY <1>1, FramesAreListed DEF Counted
      <4> QED BY <1>7, <3>1, <4>1
    <3>4. Sent(j, m).usage \in Report
      BY <1>1, <3>3, FrameUsage
    <3> QED BY <1>11, <2>1, <2>2, <3>2, <3>4, CoversMore
  <2> QED BY <2>3, <2>4
<1>13. ReasonIsLast'
  <2> SUFFICES ASSUME parser'.finish # "none" PROVE arrived'[Ending] > 0
    BY <1>6 DEF ReasonIsLast
  <2>1. CASE k = Ending
    BY <1>8, <2>1
  <2>2. CASE k # Ending
    <3>1. parser.finish # "none"
      BY <1>4, <1>5, <2>2 DEF Reads
    <3> QED BY <1>1, <1>7, <1>8, <2>2, <3>1 DEF ReasonIsLast
  <2> QED BY <2>1, <2>2
<1>14. Answering' = Answered(k)
  <2>1. Answering' = {j \in 1 .. Ending - 1 : IsCall(j) /\ arrived'[j] > 0}
    BY <1>6 DEF Answering
  <2>2. \A j \in 1 .. Ending - 1 : j \in 0 .. Ending
    BY <1>7
  <2>3. IsCall(k) => k \in 1 .. Ending - 1
    BY DEF IsCall
  <2> QED BY <1>8, <2>1, <2>2, <2>3 DEF Answering, Answered
<1>15. Open'
  <2>1. /\ Stream(emitted') /\ emitted' # <<>> /\ parser'.started
    BY <1>4, <1>5 DEF Reads
  <2>2. arrived'[0] > 0
    <3>1. 0 \in 0 .. Ending
      BY <1>7
    <3>2. k # 0 => arrived[0] > 0
      BY <1>1, NextInTurn
    <3> QED BY <1>8, <3>1, <3>2
  <2>3. protocol = "openai" => Opened(emitted') = Numbers(Answering)'
    <3>1. Numbers(Answering)' = {CallsBefore(j) : j \in Answered(k)}
      BY <1>6, <1>14 DEF Numbers
    <3>2. Numbers(Answering)' = Numbers(Answered(k))
      BY <3>1 DEF Numbers
    <3> QED BY <1>4, <1>5, <3>2
  <2>4. protocol = "gemini" => Opened(emitted') = 0 .. parser'.next - 1
    BY <1>4, <1>5
  <2>5. ASSUME protocol = "anthropic"
        PROVE  /\ Opened(emitted') = Places(Answering')
               /\ \A j \in 1 .. Ending - 1 :
                    arrived'[j] > 0 /\ arrived'[j] # Len(FramesOf(j)) => parser'.current = j - 1
    <3>1. Opened(emitted') = Places(Answering')
      BY <1>4, <1>5, <1>14, <2>5
    <3>2. ASSUME NEW j \in 1 .. Ending - 1, arrived'[j] > 0, arrived'[j] # Len(FramesOf(j))
          PROVE  parser'.current = j - 1
      <4>1. j \in 0 .. Ending
        BY <1>7
      <4>2. j = k
        <5>1. ~Interleaves
          BY <2>5 DEF Interleaves
        <5>2. ASSUME j # k PROVE FALSE
          <6>1. arrived[j] > 0 /\ arrived[j] # Len(FramesOf(j))
            BY <1>8, <3>2, <4>1, <5>2
          <6>2. Through(j)
            BY <1>1, <4>1, <5>1, <5>2, <6>1, NextInTurn
          <6> QED BY <6>1, <6>2 DEF Through
        <5> QED BY <5>2
      <4>3. n < Len(FramesOf(k))
        <5>1. Len(FramesOf(k)) \in Nat
          BY <1>1, FramesAreListed DEF Counted
        <5> QED BY <1>2, <1>8, <3>2, <4>2, <5>1
      <4> QED BY <1>4, <1>5, <2>5, <4>2, <4>3 DEF InBlocks, n
    <3> QED BY <3>1, <3>2
  <2>6. ASSUME protocol = "responses"
        PROVE  /\ parser'.next = Len(parser'.indexes) /\ Opened(emitted') = 0 .. parser'.next - 1
               /\ \A j \in Answering' :
                    \E m \in 1 .. Len(parser'.indexes) : parser'.indexes[m] = j - 1
               /\ arrived'[Ending] = 0 => parser'.usage = {}
    <3>1. arrived'[Ending] = 0 => k # Ending /\ arrived[Ending] = 0
      BY <1>7, <1>8
    <3> QED BY <1>4, <1>5, <1>14, <2>6, <3>1
  <2>7. protocol' = protocol
    BY <1>1
  <2> QED BY <1>6, <2>1, <2>2, <2>3, <2>4, <2>5, <2>6, <2>7 DEF Open, Through
<1> QED BY <1>1, <1>5, <1>9, <1>10, <1>11, <1>12, <1>13, <1>15 DEF Heard

\* What was heard stays heard while nothing new of the answer arrives.
LEMMA HeardStays ==
  ASSUME Heard, UNCHANGED <<protocol, answer, arrived>>, IsParser(parser'),
         Covers(parser'.usage, parser.usage), parser'.finish = parser.finish
  PROVE  Heard'
<1>1. /\ Ending' = Ending /\ Interleaves' = Interleaves /\ Unread' = Unread
      /\ \A j : FramesOf(j)' = FramesOf(j)
      /\ \A j, m : Sent(j, m)' = Sent(j, m)
      /\ \A j : IsCall(j)' = IsCall(j)
  BY SameAnswer
<1>2. Counted'
  BY <1>1 DEF Heard, Counted
<1>3. InTurn'
  BY <1>1 DEF Heard, InTurn, Through
<1>4. Billed'
  <2> SUFFICES ASSUME ~Unread, NEW j \in 0 .. Ending, NEW m \in 1 .. arrived[j]
               PROVE  Covers(parser'.usage, Sent(j, m).usage)
    BY <1>1 DEF Billed
  <2>1. parser.usage \in Report /\ parser'.usage \in Report
    BY DEF Heard, IsParser, Parsers
  <2>2. Covers(parser.usage, Sent(j, m).usage) /\ Counted
    BY DEF Heard, Billed
  <2>3. m \in 1 .. Len(FramesOf(j))
    <3>1. arrived[j] \in Nat /\ arrived[j] <= Len(FramesOf(j)) /\ Len(FramesOf(j)) \in Nat
      BY <2>2, FramesAreListed DEF Counted
    <3> QED BY <3>1
  <2>4. Sent(j, m).usage \in Report
    BY <2>2, <2>3, FrameUsage
  <2> QED BY <2>1, <2>2, <2>4, CoversMore
<1>5. ReasonIsLast'
  BY <1>1 DEF Heard, ReasonIsLast
<1> QED BY <1>2, <1>3, <1>4, <1>5 DEF Heard

LEMMA OpenStays ==
  ASSUME Open, UNCHANGED <<protocol, answer, arrived, parser, emitted>>
  PROVE  Open'
<1>1. /\ Ending' = Ending
      /\ \A j : FramesOf(j)' = FramesOf(j)
      /\ \A j : IsCall(j)' = IsCall(j)
      /\ \A j : CallsBefore(j)' = CallsBefore(j)
  BY SameAnswer
<1>2. Answering' = Answering
  BY <1>1 DEF Answering
<1>3. Numbers(Answering)' = Numbers(Answering)
  BY <1>1, <1>2 DEF Numbers
<1> QED BY <1>1, <1>2, <1>3 DEF Open, Through

\* The same parser covers and is what it was.
LEMMA SameParser ==
  ASSUME IsParser(parser), parser' = parser
  PROVE  IsParser(parser') /\ Covers(parser'.usage, parser.usage) /\ parser'.finish = parser.finish
<1>1. parser.usage \in Report
  BY DEF IsParser, Parsers
<1> QED BY <1>1, CoveredAlready

\* An error or a completion ends the stream.
LEMMA EndCloses ==
  ASSUME Heard, Open, UNCHANGED <<protocol, answer, arrived, parser>>, NEW e,
         emitted' = Append(emitted, e), e.kind \in {"completed", "error"},
         e.kind = "completed" => e.finish = parser.finish /\ e.usage = parser.usage
  PROVE  Heard' /\ Closed'
<1>1. Heard'
  BY SameParser, HeardStays DEF Heard
<1>2. Closed'
  BY DEF Closed, Open
<1> QED BY <1>1, <1>2

LEMMA ErrorKeeps ==
  ASSUME phase = "reading", Heard, Open, ArriveError
  PROVE  /\ UNCHANGED <<protocol, answer>> /\ Heard'
         /\ (phase' = phase /\ Open') \/ (phase' = "done" /\ Closed')
<1> DEFINE f == Frame("error")
<1> DEFINE r == OnFrame(protocol, parser, f)
<1>1. /\ UNCHANGED <<protocol, answer, arrived>> /\ protocol \in Protocol
      /\ IsParser(parser) /\ Stream(emitted)
  BY DEF ArriveError, Heard, Counted, Open
<1>2. /\ parser' = r.parser /\ emitted' = emitted \o r.out
      /\ IF Event("error") \in ToSet(r.out) THEN phase' = "done" ELSE phase' = phase
  <2> HIDE DEF f
  <2>1. Read(f)
    BY DEF ArriveError, f
  <2> QED BY <2>1 DEF Read
<1>3. f.type = "error" /\ Plain(f)
  BY PlainFrame
<1>4. CASE protocol = "openai"
  <2>1. r.parser = parser /\ r.out = <<>>
    BY <1>3, <1>4 DEF OnFrame, OnChunk
  <2> HIDE DEF r
  <2>2. emitted' = emitted /\ parser' = parser
    BY <1>1, <1>2, <2>1, OneMore DEF Stream
  <2>3. Event("error") \notin ToSet(r.out)
    BY <2>1 DEF ToSet
  <2> QED BY <1>1, <1>2, <2>2, <2>3, SameParser, HeardStays, OpenStays
<1>5. CASE protocol = "gemini"
  <2>1. r = OnGenerated(parser, f)
    BY <1>5 DEF OnFrame
  <2>2. f.reason = "" /\ f.usage \in Report
    BY <1>3, Zenon DEF Plain, Report
  <2> HIDE DEF r, f
  <2>3. (parser.started <=> emitted # <<>>) /\ Opened(emitted) = 0 .. parser.next - 1
        /\ parser.next \in Nat
    BY <1>1, <1>5 DEF Open, IsParser, Parsers
  <2>4. /\ ReadBy(parser, f, r.parser) /\ r.parser.started
        /\ f.reason = "" => r.parser.finish = parser.finish
        /\ Stream(emitted \o r.out) /\ emitted \o r.out # <<>> /\ IsSeq(r.out)
        /\ Opened(emitted \o r.out) = 0 .. r.parser.next - 1
    BY <1>1, <2>1, <2>2, <2>3, GeneratedRead, Zenon
  <2>5. r.parser.finish = parser.finish
    BY <2>2, <2>4, Zenon
  <2>6. /\ IsParser(r.parser) /\ Covers(r.parser.usage, parser.usage) /\ r.parser.started
        /\ Stream(emitted \o r.out) /\ emitted \o r.out # <<>> /\ IsSeq(r.out)
        /\ Opened(emitted \o r.out) = 0 .. r.parser.next - 1
    BY <2>4, Zenon DEF ReadBy
  <2>7. Heard'
    BY <1>1, <1>2, <2>5, <2>6, HeardStays
  <2>8. Event("error") \notin ToSet(r.out)
    BY <1>1, <2>6, NoError DEF Stream
  <2>9. Open'
    BY <1>1, <1>2, <1>5, <2>6 DEF Open
  <2> QED BY <1>1, <1>2, <2>7, <2>8, <2>9
<1>6. CASE protocol \in {"anthropic", "responses"}
  <2>1. r.parser = parser /\ r.out = <<Event("error")>>
    BY <1>3, <1>6 DEF OnFrame, OnMessageEvent, OnResponseEvent
  <2> HIDE DEF r, f
  <2>2. emitted' = Append(emitted, Event("error")) /\ parser' = parser
    BY <1>1, <1>2, <2>1, OneMore DEF Stream
  <2>3. Event("error") \in ToSet(r.out)
    BY <2>1 DEF ToSet
  <2>4. Event("error").kind = "error"
    BY Events
  <2>5. Heard' /\ Closed'
    BY <1>1, <2>2, <2>4, EndCloses
  <2> QED BY <1>1, <1>2, <2>3, <2>5
<1> QED BY <1>1, <1>4, <1>5, <1>6 DEF Protocol

LEMMA FreshStream ==
  /\ Stream(<<>>) /\ Opened(<<>>) = {}
  /\ IsParser(NewParser) /\ NewParser.finish = "none" /\ NewParser.usage = {}
  /\ NewParser.started = FALSE /\ NewParser.next = 0 /\ NewParser.indexes = <<>>
<1>1. Stream(<<>>) /\ Opened(<<>>) = {}
  BY Short DEF Stream, InOrder, Opened
<1>2. /\ NewParser.finish = "none" /\ NewParser.usage = {}
      /\ NewParser.started = FALSE /\ NewParser.next = 0 /\ NewParser.indexes = <<>>
  BY DEF NewParser
<1>3. NewParser \in Parsers({"none"})
  <2>1. {} \in Report /\ <<>> \in Seq(Int) /\ -1 \in Int
    BY DEF Report
  <2> QED BY <2>1 DEF NewParser, Parsers
<1> QED BY <1>1, <1>2, <1>3 DEF IsParser

LEMMA StreamOpens ==
  ASSUME Silent, NEW a \in AnswerType, UNCHANGED <<protocol, parser, emitted>>,
         protocol \in Protocol, answer' = a,
         arrived' = [k \in 0 .. Len(a.blocks) + 1 |-> 0]
  PROVE  Heard' /\ Open'
<1>1. Len(a.blocks) \in Nat
  BY DEF AnswerType
<1>2. Ending' = Len(a.blocks) + 1 /\ Ending' \in Nat
  BY <1>1 DEF Ending
<1>3. /\ arrived' \in [0 .. Ending' -> Nat] /\ \A k \in 0 .. Ending' : arrived'[k] = 0
      /\ 0 \in 0 .. Ending' /\ Ending' \in 0 .. Ending'
      /\ \A k \in 1 .. Ending' - 1 : k \in 0 .. Ending'
  BY <1>1, <1>2
<1>4. parser' = NewParser /\ emitted' = <<>>
  BY DEF Silent
<1>5. Counted'
  BY <1>3 DEF Counted
<1>6. InTurn'
  BY <1>3 DEF InTurn
<1>7. Billed'
  <2>1. \A k \in 0 .. Ending' : 1 .. arrived'[k] = {}
    BY <1>3
  <2> QED BY <2>1 DEF Billed
<1>8. ReasonIsLast'
  BY <1>4, FreshStream DEF ReasonIsLast
<1>9. Answering' = {}
  BY <1>3 DEF Answering
<1>10. Numbers(Answering)' = {}
  BY <1>9 DEF Numbers
<1>11. Places(Answering') = {}
  BY <1>9 DEF Places
<1>12. \A k \in 1 .. Ending' - 1 : ~(arrived'[k] > 0)
  BY <1>3
<1>13. Open'
  <2>1. /\ Stream(emitted') /\ (parser'.started <=> emitted' # <<>>)
        /\ Opened(emitted') = {} /\ parser'.next = 0 /\ parser'.usage = {}
        /\ ~parser'.started /\ ~(arrived'[0] > 0)
    BY <1>3, <1>4, FreshStream
  <2>2. parser'.next = Len(parser'.indexes) /\ Opened(emitted') = 0 .. parser'.next - 1
    <3>1. parser'.indexes = <<>> /\ Len(<<>>) = 0 /\ 0 .. 0 - 1 = {}
      BY <1>4, FreshStream
    <3> QED BY <2>1, <3>1
  <2>3. \A k \in 1 .. Ending' - 1 :
          arrived'[k] > 0 /\ ~Through(k)' => parser'.current = k - 1
    BY <1>12
  <2>4. \A k \in Answering' :
          \E n \in 1 .. Len(parser'.indexes) : parser'.indexes[n] = k - 1
    BY <1>9
  <2> QED BY <1>10, <1>11, <2>1, <2>2, <2>3, <2>4 DEF Open
<1> QED BY <1>4, <1>5, <1>6, <1>7, <1>8, <1>13, FreshStream DEF Heard

THEOREM StreamsKeepOrder == Spec => []StreamInv
<1>1. Init => StreamInv
  BY DEF Init, StreamInv, Silent, Protocol
<1>2. ASSUME StreamInv, [Next]_vars PROVE StreamInv'
  <2> USE <1>2
  <2>1. ASSUME phase \in {"sent", "done"}, phase = "sent" \/ Silent,
               phase' \in {"sent", "done"}, UNCHANGED <<protocol, stream>>
        PROVE  StreamInv'
    BY <2>1 DEF StreamInv, Silent, stream
  <2>2. ASSUME NEW o, NEW p \in Protocol, NEW m, Begin(o, p, m) PROVE StreamInv'
    BY <2>2 DEF Begin, StreamInv, Silent, stream
  <2>3. ASSUME NEW outcome, Finish(outcome) PROVE StreamInv'
    BY <2>1, <2>3 DEF Finish
  <2>4. ASSUME NEW page, NEW more, TakePage(page, more) PROVE StreamInv'
    BY <2>1, <2>4 DEF TakePage
  <2>5. ASSUME NEW a \in Answers, OpenStream(a) PROVE StreamInv'
    <3>1. Silent /\ protocol \in Protocol /\ a \in AnswerType
      BY <2>5, AnswersAssumption DEF OpenStream, StreamInv
    <3>2. Heard' /\ Open'
      BY <2>5, <3>1, StreamOpens DEF OpenStream
    <3> QED BY <2>5, <3>1, <3>2 DEF OpenStream, StreamInv
  <2>6. ASSUME phase = "reading" PROVE Heard /\ Open /\ protocol \in Protocol
    BY <2>6 DEF StreamInv
  <2>7. ASSUME NEW k \in DOMAIN arrived, Arrive(k) PROVE StreamInv'
    <3>1. phase = "reading"
      BY <2>7 DEF Arrive
    <3>2. k \in 0 .. Ending
      BY <2>6, <2>7, <3>1 DEF Heard, Counted
    <3>3. phase' = phase /\ Heard' /\ Open' /\ protocol' = protocol
      BY <2>6, <2>7, <3>1, <3>2, ArriveKeeps
    <3> QED BY <2>6, <3>1, <3>3 DEF StreamInv
  <2>8. ASSUME NEW k, NEW inside, ArrivePart(k, inside) PROVE StreamInv'
    <3>1. phase = "reading" /\ phase' = phase
          /\ UNCHANGED <<protocol, answer, arrived, parser, emitted>>
      BY <2>8 DEF ArrivePart
    <3>2. Heard' /\ Open'
      BY <2>6, <3>1, SameParser, HeardStays, OpenStays DEF Heard
    <3> QED BY <2>6, <3>1, <3>2 DEF StreamInv
  <2>9. CASE ArriveError
    <3>1. phase = "reading"
      BY <2>9 DEF ArriveError
    <3>2. /\ protocol' = protocol /\ Heard'
          /\ (phase' = phase /\ Open') \/ (phase' = "done" /\ Closed')
      BY <2>6, <2>9, <3>1, ErrorKeeps
    <3> QED BY <2>6, <3>1, <3>2 DEF StreamInv
  <2>10. CASE End
    <3> DEFINE e == [Event("completed") EXCEPT !.finish = parser.finish, !.usage = parser.usage]
    <3>1. e.kind = "completed" /\ e.finish = parser.finish /\ e.usage = parser.usage
      BY DEF Event
    <3>2. /\ phase = "reading" /\ phase' = "done" /\ emitted' = Append(emitted, e)
          /\ UNCHANGED <<protocol, answer, arrived, parser>>
      BY <2>10 DEF End
    <3> HIDE DEF e
    <3>3. Heard' /\ Closed'
      BY <2>6, <3>1, <3>2, EndCloses
    <3> QED BY <2>6, <3>2, <3>3 DEF StreamInv
  <2>11. ASSUME NEW category, Break(category) PROVE StreamInv'
    <3>1. /\ phase = "reading" /\ phase' = "done" /\ emitted' = Append(emitted, Event("error"))
          /\ UNCHANGED <<protocol, answer, arrived, parser>>
      BY <2>11 DEF Break
    <3>2. Event("error").kind = "error"
      BY Events
    <3>3. Heard' /\ Closed'
      BY <2>6, <3>1, <3>2, EndCloses
    <3> QED BY <2>6, <3>1, <3>3 DEF StreamInv
  <2>12. CASE Return
    BY <2>12 DEF Return, StreamInv, Silent, Protocol
  <2>13. CASE UNCHANGED vars
    <3>1. phase' = phase /\ UNCHANGED <<protocol, answer, arrived, parser, emitted>>
      BY <2>13 DEF vars, stream
    <3>2. Silent => Silent'
      BY <3>1 DEF Silent
    <3>3. Heard => Heard'
      BY <3>1, SameParser, HeardStays DEF Heard
    <3>4. Open => Open'
      BY <3>1, OpenStays
    <3>5. Closed => Closed'
      BY <3>1 DEF Closed
    <3> QED BY <3>1, <3>2, <3>3, <3>4, <3>5 DEF StreamInv
  <2> QED BY <2>2, <2>3, <2>4, <2>5, <2>7, <2>8, <2>9, <2>10, <2>11, <2>12, <2>13
          DEF Next, Unreachable, Refuse, Unreadable, AnswerHealthy, AnswerWhole,
              AnswerVectorsSkipping, AnswerVectorsInPlace, AnswerList, AnswerPageAfter,
              AnswerPageToken
<1> QED BY <1>1, <1>2, PTL DEF Spec

\* No completion gives a reason to stop before the answer is whole.
THEOREM ReasonsComeLast == Spec => []FinishMeansWhole
<1>1. StreamInv => FinishMeansWhole
  <2> SUFFICES ASSUME StreamInv PROVE FinishMeansWhole
    OBVIOUS
  <2>1. CASE emitted = <<>>
    <3>1. DOMAIN emitted = {}
      BY <2>1
    <3>2. ~Finished
      <4> SUFFICES ASSUME Finished PROVE FALSE
        OBVIOUS
      <4>1. ~Silent /\ phase = "done"
        BY DEF Finished, Silent
      <4>2. PICK s, e : Stream(s) /\ emitted = Append(s, e)
        BY <4>1 DEF StreamInv, Closed
      <4>3. Append(s, e) # <<>>
        BY <4>2 DEF Stream, IsSeq
      <4> QED BY <2>1, <4>2, <4>3
    <3> QED BY <3>1, <3>2 DEF FinishMeansWhole, WellFormedSource
  <2>2. CASE phase = "reading"
    <3>1. Stream(emitted) /\ DOMAIN emitted = 1 .. Len(emitted)
      BY <2>2 DEF StreamInv, Open, Stream, IsSeq
    <3>2. ~Finished
      BY <2>2 DEF Finished
    <3> QED BY <3>1, <3>2 DEF FinishMeansWhole, WellFormedSource, Stream, InOrder
  <2>3. CASE phase = "done" /\ Heard /\ Closed
    <3>1. PICK s, e : /\ Stream(s) /\ emitted = Append(s, e) /\ e.kind \in {"completed", "error"}
                      /\ e.kind = "completed" => e.finish = parser.finish
      BY <2>3 DEF Closed
    <3> DEFINE n == Len(s)
    <3>2. /\ n \in Nat /\ Len(emitted) = n + 1 /\ emitted[n + 1] = e
          /\ \A i \in 1 .. n : emitted[i] = s[i] /\ s[i].kind \notin {"completed", "error"}
      BY <3>1, OneMore DEF Stream, InOrder
    <3>3. DOMAIN emitted = 1 .. n + 1 /\ emitted # <<>>
      <4>1. IsSeq(emitted)
        BY <3>1, OneMore DEF Stream
      <4> QED BY <3>2, <4>1 DEF IsSeq
    <3>4. InOrder(s)
      BY <3>1 DEF Stream
    <3> HIDE DEF n
    <3>5. WellFormedSource
      <4>1. ASSUME NEW i \in DOMAIN emitted
            PROVE  /\ emitted[i].kind \notin {"completed", "error"} => (emitted[i].kind = "started" <=> i = 1)
                   /\ emitted[i].kind \in {"completed", "error"} => i = Len(emitted)
                   /\ emitted[i].kind = "args" =>
                        \E j \in 1 .. i - 1 : /\ emitted[j].kind = "call"
                                              /\ emitted[j].index = emitted[i].index
                   /\ emitted[i].kind = "call" =>
                        \A j \in 1 .. i - 1 :
                          emitted[j].kind = "call" => emitted[j].index # emitted[i].index
        <5>1. CASE i = n + 1
          BY <3>1, <3>2, <5>1
        <5>2. CASE i \in 1 .. n
          <6>1. emitted[i] = s[i] /\ \A j \in 1 .. i - 1 : emitted[j] = s[j]
            BY <3>2, <5>2
          <6> QED BY <3>2, <3>4, <5>2, <6>1 DEF InOrder, n
        <5> QED BY <3>2, <3>3, <5>1, <5>2
      <4> QED BY <3>1, <3>2, <3>3, <4>1 DEF WellFormedSource
    <3>6. ASSUME NEW i \in DOMAIN emitted, emitted[i].kind = "completed", emitted[i].finish # "none",
                 NEW k \in 0 .. Ending - 1
          PROVE  Through(k)
      <4>1. i = n + 1
        BY <3>2, <3>3, <3>6
      <4>2. parser.finish # "none"
        BY <3>1, <3>2, <3>6, <4>1
      <4>3. arrived[Ending] > 0 /\ Counted
        BY <2>3, <4>2 DEF Heard, ReasonIsLast
      <4>4. Ending \in Nat /\ Ending \in 0 .. Ending
        <5>1. Len(answer.blocks) \in Nat /\ Ending = Len(answer.blocks) + 1
          BY <4>3, PartsOfAnswer DEF Counted
        <5> QED BY <5>1
      <4>5. ~IsCall(Ending)
        BY <4>3, <4>4, PartKinds
      <4> QED BY <2>3, <4>3, <4>4, <4>5 DEF Heard, InTurn
    <3> QED BY <3>5, <3>6 DEF FinishMeansWhole
  <2> QED BY <2>1, <2>2, <2>3 DEF StreamInv, Silent
<1> QED BY <1>1, StreamsKeepOrder, PTL

\* A completion's usage covers every report that has arrived.
THEOREM BillsCoverReports == Spec => []UsageCoversReports
<1>1. StreamInv => UsageCoversReports
  <2> DEFINE ReadFrames(k) == SubSeq(FramesOf(k), 1, arrived[k])
  <2> DEFINE Reports == UNION {f.usage : f \in UNION {ToSet(ReadFrames(k)) : k \in DOMAIN arrived}}
  <2> SUFFICES ASSUME StreamInv, Finished, Last(emitted).kind = "completed", ~Unread,
                      NEW u \in Reports
               PROVE  \E v \in Last(emitted).usage : u.input <= v.input /\ u.output <= v.output
    BY DEF UsageCoversReports, Unread
  <2>1. Heard /\ Closed
    BY DEF StreamInv, Finished, Silent
  <2>2. PICK s, e : /\ Stream(s) /\ emitted = Append(s, e)
                    /\ e.kind = "completed" => e.usage = parser.usage
    BY <2>1 DEF Closed
  <2>3. Last(emitted) = e
    BY <2>2, OneMore DEF Stream, Last
  <2>4. PICK k \in DOMAIN arrived : \E f \in ToSet(ReadFrames(k)) : u \in f.usage
    OBVIOUS
  <2>5. k \in 0 .. Ending /\ arrived[k] \in Nat /\ arrived[k] <= Len(FramesOf(k))
        /\ IsSeq(FramesOf(k)) /\ Len(FramesOf(k)) \in Nat
    <3>1. k \in 0 .. Ending /\ arrived[k] \in Nat
      BY <2>1 DEF Heard, Counted
    <3>2. IsSeq(FramesOf(k)) /\ Len(FramesOf(k)) \in Nat
      BY <2>1, <3>1, FramesAreListed DEF Heard, Counted
    <3> QED BY <2>1, <3>1, <3>2 DEF Heard, Counted
  <2>6. PICK f \in ToSet(ReadFrames(k)) : u \in f.usage
    BY <2>4
  <2>7. PICK n \in 1 .. arrived[k] : f = Sent(k, n)
    <3>1. PICK S : FramesOf(k) \in Seq(S)
      BY <2>5 DEF IsSeq
    <3> DEFINE list == FramesOf(k)
    <3> DEFINE m == arrived[k]
    <3>2. list \in Seq(S) /\ m \in Nat /\ m <= Len(list)
      BY <2>5, <3>1
    <3>3. f \in ToSet(SubSeq(list, 1, m))
      BY <2>6
    <3> HIDE DEF list, m
    <3>4. DOMAIN SubSeq(list, 1, m) = 1 .. m /\ \A i \in 1 .. m : SubSeq(list, 1, m)[i] = list[i]
      <4> DEFINE t == SubSeq(list, 1, m)
      <4>1. \A i \in 1 .. m : list[i] \in S
        BY <3>2
      <4>2. t \in Seq(S) /\ (Len(t) = IF 1 <= m THEN m - 1 + 1 ELSE 0)
            /\ \A i \in 1 .. m - 1 + 1 : t[i] = list[1 + i - 1]
        BY <3>2, <4>1, SubSeqProperties
      <4> HIDE DEF t
      <4>3. DOMAIN t = 1 .. Len(t) /\ Len(t) = m /\ \A i \in 1 .. m : t[i] = list[i]
        BY <3>2, <4>2
      <4> QED BY <4>3 DEF t
    <3>5. PICK i \in 1 .. m : f = list[i]
      BY <3>3, <3>4 DEF ToSet
    <3> QED BY <3>5 DEF list, m, Sent
  <2>8. Covers(parser.usage, f.usage)
    BY <2>1, <2>5, <2>7 DEF Heard, Billed
  <2> QED BY <2>2, <2>3, <2>6, <2>8 DEF Covers
<1> QED BY <1>1, StreamsKeepOrder, PTL

-----------------------------------------------------------------------------
(* Induction over numbers and over sequences, and sequences put one after  *)
(* the other.                                                              *)

\* What holds of no number and goes on from each to the next holds of all; what
\* holds of the empty sequence and of each with an element more holds of all.
LEMMA Counting ==
  ASSUME NEW G, 0 \in G, \A n \in Nat : n \in G => n + 1 \in G
  PROVE  Nat \subseteq G
<1> DEFINE T == Nat \ G
           Before == OpToRel(<, Nat)
<1> SUFFICES ASSUME T # {} PROVE FALSE
  OBVIOUS
<1>1. IsWellFoundedOn(Before, Nat)
  BY NatLessThanWellFounded
<1>2. Before = {ss \in Nat \X Nat : ss[1] < ss[2]}
  BY DEF OpToRel
<1> HIDE DEF Before
<1>3. PICK x \in T : \A y \in T : ~(<<y, x>> \in Before)
  <2>1. T \subseteq Nat
    OBVIOUS
  <2> HIDE DEF T
  <2> QED BY <1>1, <2>1, WFMin
<1>4. x # 0 /\ x \in Nat
  OBVIOUS
<1>5. x - 1 \in Nat /\ x - 1 < x /\ (x - 1) + 1 = x
  BY <1>4
<1>6. x - 1 \notin T
  <2>1. <<x - 1, x>> \in Before
    <3>1. <<x - 1, x>> \in Nat \X Nat /\ <<x - 1, x>>[1] = x - 1 /\ <<x - 1, x>>[2] = x
      BY <1>4, <1>5
    <3> QED BY <1>2, <1>5, <3>1
  <2> QED BY <1>3, <2>1
<1>7. x - 1 \in G
  BY <1>5, <1>6
<1>8. (x - 1) + 1 \in G
  BY <1>5, <1>7
<1> QED BY <1>5, <1>8

LEMMA Growing ==
  ASSUME NEW X, NEW G, <<>> \in G, \A s \in Seq(X), x \in X : s \in G => Append(s, x) \in G
  PROVE  Seq(X) \subseteq G
<1> DEFINE N == {n \in Nat : \A s \in Seq(X) : Len(s) = n => s \in G}
<1>1. 0 \in N
  OBVIOUS
<1>2. ASSUME NEW n \in Nat, n \in N PROVE n + 1 \in N
  <2> SUFFICES ASSUME NEW s \in Seq(X), Len(s) = n + 1 PROVE s \in G
    OBVIOUS
  <2> DEFINE front == SubSeq(s, 1, n)
             last == s[n + 1]
  <2>1. front \in Seq(X) /\ Len(front) = n /\ last \in X /\ \A i \in 1 .. n : front[i] = s[i]
    OBVIOUS
  <2>2. s = Append(front, last)
    <3> HIDE DEF front
    <3> QED BY <2>1
  <2>3. front \in G
    BY <1>2, <2>1
  <2> HIDE DEF front, last
  <2> QED BY <2>1, <2>2, <2>3
<1> HIDE DEF N
<1>3. Nat \subseteq N
  BY <1>1, <1>2, Counting
<1> QED BY <1>3 DEF N

-----------------------------------------------------------------------------
\* What sequences come to, one after the other, up to each of them.
JoinsTo(f, ss, n) == f[0] = <<>> /\ \A k \in 1 .. n : f[k] = f[k - 1] \o ss[k]
Joins(f, ss, S) == f \in [0 .. Len(ss) -> Seq(S)] /\ JoinsTo(f, ss, Len(ss))
SameUpTo(ss, tt, n) == \A k \in 1 .. n : ss[k] = tt[k]

LEMMA JoinsExist ==
  ASSUME NEW S, NEW ss \in Seq(Seq(S))
  PROVE  \E f : Joins(f, ss, S)
<1> DEFINE G == {s \in Seq(Seq(S)) : \E f : Joins(f, s, S)}
<1>1. <<>> \in G
  <2>1. Joins([k \in 0 .. 0 |-> <<>>], <<>>, S)
    BY DEF Joins, JoinsTo
  <2> QED BY <2>1
<1>2. ASSUME NEW s \in Seq(Seq(S)), NEW x \in Seq(S), s \in G PROVE Append(s, x) \in G
  <2> DEFINE t == Append(s, x)
             n == Len(s)
  <2>1. n \in Nat /\ t \in Seq(Seq(S)) /\ Len(t) = n + 1 /\ t[n + 1] = x /\ \A k \in 1 .. n : t[k] = s[k]
    OBVIOUS
  <2>2. PICK f : Joins(f, s, S)
    BY <1>2
  <2> DEFINE last == f[n] \o x
             g == [k \in 0 .. n + 1 |-> IF k = n + 1 THEN last ELSE f[k]]
  <2>3. f \in [0 .. n -> Seq(S)] /\ f[0] = <<>> /\ \A k \in 1 .. n : f[k] = f[k - 1] \o s[k]
    BY <2>2 DEF Joins, JoinsTo
  <2> HIDE DEF t, n
  <2>4. f[n] \in Seq(S)
    BY <2>1, <2>3
  <2>5. last \in Seq(S)
    BY <2>4
  <2>6. g \in [0 .. n + 1 -> Seq(S)] /\ g[n + 1] = last /\ \A k \in 0 .. n : g[k] = f[k]
    <3> HIDE DEF last
    <3>1. \A k \in 0 .. n + 1 : k = n + 1 \/ k \in 0 .. n
      BY <2>1
    <3>2. n + 1 \in 0 .. n + 1 /\ \A k \in 0 .. n : k # n + 1 /\ k \in 0 .. n + 1
      BY <2>1
    <3> QED BY <2>3, <2>5, <3>1, <3>2
  <2> HIDE DEF g
  <2>7. ASSUME NEW k \in 1 .. n + 1 PROVE g[k] = g[k - 1] \o t[k]
    <3>1. CASE k = n + 1
      <4>1. n \in Nat
        BY <2>1
      <4>2. k - 1 = n /\ n \in 0 .. n
        BY <3>1, <4>1
      <4> QED BY <2>1, <2>6, <3>1, <4>2
    <3>2. CASE k # n + 1
      <4>1. k \in 1 .. n /\ k \in 0 .. n /\ k - 1 \in 0 .. n
        BY <2>1, <3>2
      <4> QED BY <2>1, <2>3, <2>6, <4>1
    <3> QED BY <3>1, <3>2
  <2>8. g[0] = <<>>
    <3>1. 0 \in 0 .. n
      BY <2>1
    <3> QED BY <2>3, <2>6, <3>1
  <2>9. Joins(g, t, S)
    BY <2>1, <2>6, <2>7, <2>8 DEF Joins, JoinsTo
  <2> QED BY <2>1, <2>9 DEF t
<1> HIDE DEF G
<1>3. Seq(Seq(S)) \subseteq G
  BY <1>1, <1>2, Growing
<1> QED BY <1>3 DEF G

\* They come to the same as far as the sequences are the same.
LEMMA JoinsAgree ==
  ASSUME NEW n \in Nat, NEW ss, NEW tt, SameUpTo(ss, tt, n),
         NEW f, JoinsTo(f, ss, n), NEW g, JoinsTo(g, tt, n)
  PROVE  f[n] = g[n]
<1> DEFINE G == {k \in Nat : k \in 0 .. n => f[k] = g[k]}
<1>1. 0 \in G
  BY DEF JoinsTo
<1>2. ASSUME NEW k \in Nat, k \in G PROVE k + 1 \in G
  <2> SUFFICES ASSUME k + 1 \in 0 .. n PROVE f[k + 1] = g[k + 1]
    OBVIOUS
  <2> DEFINE m == k + 1
  <2>1. k \in 0 .. n /\ m \in 1 .. n /\ m - 1 = k
    OBVIOUS
  <2>2. f[k] = g[k]
    BY <1>2, <2>1
  <2> HIDE DEF m, G
  <2>3. f[m] = g[m]
    BY <2>1, <2>2 DEF JoinsTo, SameUpTo
  <2> QED BY <2>3 DEF m
<1> HIDE DEF G
<1>3. Nat \subseteq G
  BY <1>1, <1>2, Counting
<1> QED BY <1>3 DEF G

LEMMA FlattenIsLast ==
  ASSUME NEW S, NEW ss \in Seq(Seq(S)), NEW f, Joins(f, ss, S)
  PROVE  FlattenSeq(ss) = f[Len(ss)]
<1> DEFINE n == Len(ss)
           Step(g) == [i \in 1 .. Len(ss) |-> IF i = 1 THEN ss[i] ELSE g[i - 1] \o ss[i]]
           h == CHOOSE g : g = Step(g)
<1>1. n \in Nat /\ \A k \in 1 .. n : ss[k] \in Seq(S)
  OBVIOUS
<1>2. CASE n = 0
  BY <1>2 DEF FlattenSeq, Joins, JoinsTo
<1>3. CASE n # 0
  <2> DEFINE e == [k \in 1 .. n |-> f[k]]
  <2>1. f \in [0 .. n -> Seq(S)] /\ f[0] = <<>> /\ \A k \in 1 .. n : f[k] = f[k - 1] \o ss[k]
    BY DEF Joins, JoinsTo
  <2>2. e = Step(e)
    <3>1. ASSUME NEW k \in 1 .. n PROVE e[k] = IF k = 1 THEN ss[k] ELSE e[k - 1] \o ss[k]
      <4> HIDE DEF n
      <4>1. CASE k = 1
        <5>1. k - 1 = 0 /\ ss[k] \in Seq(S)
          BY <1>1, <4>1
        <5>2. f[k] = <<>> \o ss[k]
          BY <2>1, <5>1
        <5> QED BY <4>1, <5>1, <5>2
      <4>2. CASE k # 1
        <5>1. k - 1 \in 1 .. n
          BY <1>1, <4>2
        <5> QED BY <2>1, <4>2, <5>1
      <4> QED BY <4>1, <4>2
    <3> HIDE DEF n
    <3> QED BY <3>1 DEF n
  <2>3. h = Step(h)
    BY <2>2
  <2>4. \A k \in 1 .. n : h[k] = IF k = 1 THEN ss[k] ELSE h[k - 1] \o ss[k]
    <3> HIDE DEF h
    <3> QED BY <2>3
  <2>5. FlattenSeq(ss) = h[n]
    BY <1>3 DEF FlattenSeq
  <2> HIDE DEF h, n, Step, e
  <2> DEFINE g == [k \in 0 .. n |-> IF k = 0 THEN <<>> ELSE h[k]]
  <2>6. g[0] = <<>> /\ \A k \in 1 .. n : g[k] = h[k]
    BY <1>1
  <2>7. n \in 1 .. n
    BY <1>1, <1>3
  <2> HIDE DEF g
  <2>8. ASSUME NEW k \in 1 .. n PROVE g[k] = g[k - 1] \o ss[k]
    <3>1. ss[k] \in Seq(S) /\ (k = 1 => k - 1 = 0) /\ (k # 1 => k - 1 \in 1 .. n)
      BY <1>1
    <3>2. CASE k = 1
      <4>1. g[k] = ss[k] /\ g[k - 1] = <<>>
        BY <2>4, <2>6, <3>1, <3>2
      <4> QED BY <3>1, <4>1
    <3>3. CASE k # 1
      BY <2>4, <2>6, <3>1, <3>3
    <3> QED BY <3>2, <3>3
  <2>9. f[n] = g[n]
    <3>1. JoinsTo(f, ss, n) /\ JoinsTo(g, ss, n) /\ SameUpTo(ss, ss, n) /\ n \in Nat
      BY <1>1, <2>1, <2>6, <2>8 DEF JoinsTo, SameUpTo
    <3> QED BY <3>1, JoinsAgree
  <2> QED BY <2>5, <2>6, <2>7, <2>9 DEF n
<1> QED BY <1>2, <1>3

\* A sequence more is one more at the end.
LEMMA FlattenMore ==
  ASSUME NEW S, NEW ss \in Seq(Seq(S)), NEW s \in Seq(S)
  PROVE  /\ FlattenSeq(ss) \in Seq(S)
         /\ FlattenSeq(Append(ss, s)) = FlattenSeq(ss) \o s
<1> DEFINE n == Len(ss)
           tt == Append(ss, s)
<1>1. /\ n \in Nat /\ tt \in Seq(Seq(S)) /\ Len(tt) = n + 1 /\ tt[n + 1] = s
      /\ \A k \in 1 .. n : tt[k] = ss[k]
  OBVIOUS
<1>2. PICK f : Joins(f, ss, S)
  BY JoinsExist
<1> HIDE DEF tt
<1>3. PICK g : Joins(g, tt, S)
  BY <1>1, JoinsExist
<1>4. FlattenSeq(ss) = f[n] /\ FlattenSeq(tt) = g[n + 1]
  BY <1>1, <1>2, <1>3, FlattenIsLast
<1>5. f \in [0 .. n -> Seq(S)] /\ f[0] = <<>> /\ \A k \in 1 .. n : f[k] = f[k - 1] \o ss[k]
  BY <1>2 DEF Joins, JoinsTo
<1>6. g[0] = <<>> /\ \A k \in 1 .. n + 1 : g[k] = g[k - 1] \o tt[k]
  BY <1>1, <1>3 DEF Joins, JoinsTo
<1> HIDE DEF n
<1>7. f[n] = g[n]
  <2>1. \A k \in 1 .. n : k \in 1 .. n + 1
    BY <1>1
  <2>2. \A k \in 1 .. n : g[k] = g[k - 1] \o tt[k]
    BY <1>6, <2>1
  <2>3. JoinsTo(f, ss, n) /\ JoinsTo(g, tt, n) /\ SameUpTo(ss, tt, n) /\ n \in Nat
    BY <1>1, <1>5, <1>6, <2>2 DEF JoinsTo, SameUpTo
  <2> QED BY <2>3, JoinsAgree
<1>8. g[n + 1] = f[n] \o s
  <2>1. n + 1 \in 1 .. n + 1 /\ (n + 1) - 1 = n
    BY <1>1
  <2> QED BY <1>1, <1>6, <1>7, <2>1
<1>9. f[n] \in Seq(S)
  <2>1. n \in 0 .. n
    BY <1>1
  <2> QED BY <1>5, <2>1
<1> QED BY <1>4, <1>8, <1>9 DEF tt

LEMMA FlattenNone == FlattenSeq(<<>>) = <<>>
  BY DEF FlattenSeq

-----------------------------------------------------------------------------
\* What each element of a sequence stands for, in its place and one after the other.
Sends(f, A, B) == f \in [A -> B]
Mapped(f, s) == [i \in 1 .. Len(s) |-> f[s[i]]]
Each(f, s) == FlattenSeq(Mapped(f, s))

LEMMA MappedMore ==
  ASSUME NEW A, NEW T, NEW f, Sends(f, A, T), NEW s \in Seq(A), NEW x \in A
  PROVE  /\ Mapped(f, s) \in Seq(T)
         /\ Mapped(f, Append(s, x)) = Append(Mapped(f, s), f[x])
<1> DEFINE n == Len(s)
           t == Append(s, x)
           b == Mapped(f, t)
           c == Append(Mapped(f, s), f[x])
<1>1. /\ n \in Nat /\ t \in Seq(A) /\ Len(t) = n + 1 /\ t[n + 1] = x
      /\ \A i \in 1 .. n : t[i] = s[i] /\ s[i] \in A
  OBVIOUS
<1>2. Mapped(f, s) \in Seq(T) /\ Len(Mapped(f, s)) = n /\ \A i \in 1 .. n : Mapped(f, s)[i] = f[s[i]]
  BY <1>1 DEF Mapped, Sends
<1>3. f[x] \in T
  BY DEF Sends
<1>4. c \in Seq(T) /\ Len(c) = n + 1 /\ c[n + 1] = f[x] /\ \A i \in 1 .. n : c[i] = f[s[i]]
  BY <1>2, <1>3
<1> HIDE DEF t, n
<1>5. b \in Seq(T) /\ Len(b) = n + 1 /\ \A i \in 1 .. n + 1 : b[i] = f[t[i]]
  BY <1>1 DEF Mapped, Sends
<1> HIDE DEF b, c
<1>6. b = c
  <2>1. \A i \in 1 .. n + 1 : i \in 1 .. n \/ i = n + 1
    BY <1>1
  <2>2. \A i \in 1 .. n + 1 : b[i] = c[i]
    BY <1>1, <1>4, <1>5, <2>1
  <2> QED BY <1>4, <1>5, <2>2
<1> QED BY <1>2, <1>6 DEF b, c, t

LEMMA EachNone == \A f : Each(f, <<>>) = <<>>
<1> SUFFICES ASSUME NEW f PROVE Each(f, <<>>) = <<>>
  OBVIOUS
<1>1. Mapped(f, <<>>) = <<>>
  BY DEF Mapped
<1> QED BY <1>1, FlattenNone DEF Each

LEMMA EachMore ==
  ASSUME NEW A, NEW B, NEW f, Sends(f, A, Seq(B)), NEW s \in Seq(A), NEW x \in A
  PROVE  /\ Each(f, s) \in Seq(B)
         /\ Each(f, Append(s, x)) = Each(f, s) \o f[x]
<1> DEFINE m == Mapped(f, s)
           y == f[x]
<1>1. m \in Seq(Seq(B)) /\ Mapped(f, Append(s, x)) = Append(m, y)
  BY MappedMore
<1>2. y \in Seq(B)
  BY DEF Sends
<1> HIDE DEF m, y
<1>3. FlattenSeq(m) \in Seq(B) /\ FlattenSeq(Append(m, y)) = FlattenSeq(m) \o y
  BY <1>1, <1>2, FlattenMore
<1> QED BY <1>1, <1>3 DEF Each, m, y

LEMMA EachType ==
  ASSUME NEW A, NEW B, NEW f, Sends(f, A, Seq(B)), NEW s \in Seq(A)
  PROVE  Each(f, s) \in Seq(B)
<1>1. CASE s = <<>>
  <2>1. <<>> \in Seq(B)
    OBVIOUS
  <2> QED BY <1>1, <2>1, EachNone
<1>2. CASE s # <<>>
  <2>1. s[1] \in A
    BY <1>2
  <2> QED BY <2>1, EachMore
<1> QED BY <1>1, <1>2

LEMMA EachAlone ==
  ASSUME NEW A, NEW B, NEW f, Sends(f, A, Seq(B)), NEW x \in A
  PROVE  Each(f, <<x>>) = f[x]
<1> DEFINE none == <<>>
           y == f[x]
<1>1. none \in Seq(A) /\ y \in Seq(B)
  BY DEF Sends
<1>2. Append(none, x) = <<x>> /\ <<>> \o y = y
  BY <1>1
<1>3. Each(f, none) = <<>>
  BY EachNone
<1> HIDE DEF none, y
<1>4. Each(f, Append(none, x)) = Each(f, none) \o y
  BY <1>1, EachMore DEF y
<1> QED BY <1>2, <1>3, <1>4 DEF y

LEMMA Shifted ==
  ASSUME NEW B, NEW a \in Seq(B), NEW b \in Seq(B), NEW c \in Seq(B), NEW x \in B
  PROVE  /\ a \o Append(b, x) = Append(a \o b, x)
         /\ (a \o b) \o c = a \o (b \o c)
         /\ a \o <<>> = a /\ <<>> \o a = a /\ a \o b \in Seq(B)
  OBVIOUS

LEMMA EachOfTwo ==
  ASSUME NEW A, NEW B, NEW f, Sends(f, A, Seq(B)), NEW a \in Seq(A), NEW b \in Seq(A)
  PROVE  Each(f, a \o b) = Each(f, a) \o Each(f, b)
<1> DEFINE G == {s \in Seq(A) : Each(f, a \o s) = Each(f, a) \o Each(f, s)}
<1>1. <<>> \in G
  <2> DEFINE u == Each(f, a)
  <2>1. u \in Seq(B)
    BY EachType
  <2> HIDE DEF u
  <2>2. a \o <<>> = a /\ u \o <<>> = u /\ <<>> \in Seq(A)
    BY <2>1
  <2> QED BY <2>2, EachNone DEF u
<1>2. ASSUME NEW s \in Seq(A), NEW x \in A, s \in G PROVE Append(s, x) \in G
  <2> DEFINE u == Each(f, a)
             v == Each(f, s)
             w == f[x]
  <2>1. u \in Seq(B) /\ v \in Seq(B) /\ w \in Seq(B)
    BY EachType DEF Sends
  <2>2. a \o Append(s, x) = Append(a \o s, x) /\ a \o s \in Seq(A)
    BY Shifted
  <2>3. Each(f, Append(a \o s, x)) = Each(f, a \o s) \o w
    <3> DEFINE z == a \o s
    <3>1. z \in Seq(A)
      BY <2>2
    <3> HIDE DEF z
    <3>2. Each(f, Append(z, x)) = Each(f, z) \o w
      BY <3>1, EachMore
    <3> QED BY <3>2 DEF z
  <2>4. Each(f, Append(s, x)) = v \o w
    BY EachMore
  <2>5. Each(f, a \o s) = u \o v
    BY <1>2
  <2> HIDE DEF u, v, w
  <2>6. (u \o v) \o w = u \o (v \o w)
    BY <2>1
  <2>7. Each(f, a \o Append(s, x)) = u \o Each(f, Append(s, x))
    BY <2>2, <2>3, <2>4, <2>5, <2>6
  <2> QED BY <2>7 DEF u
<1> HIDE DEF G
<1>3. Seq(A) \subseteq G
  BY <1>1, <1>2, Growing
<1> QED BY <1>3 DEF G

\* What stands for what stands for the elements.
LEMMA EachOfAll ==
  ASSUME NEW A, NEW B, NEW C, NEW f, Sends(f, A, Seq(B)), NEW h, Sends(h, C, Seq(A)), NEW s \in Seq(C)
  PROVE  Each(f, Each(h, s)) = Each([c \in C |-> Each(f, h[c])], s)
<1> DEFINE g == [c \in C |-> Each(f, h[c])]
           G == {t \in Seq(C) : Each(f, Each(h, t)) = Each(g, t)}
<1>0. Sends(g, C, Seq(B))
  <2>1. \A c \in C : h[c] \in Seq(A)
    BY DEF Sends
  <2>2. \A c \in C : Each(f, h[c]) \in Seq(B)
    BY <2>1, EachType
  <2> QED BY <2>2 DEF Sends
<1>1. <<>> \in G
  <2>1. <<>> \in Seq(C) /\ Each(h, <<>>) = <<>>
    BY EachNone
  <2> QED BY <2>1, EachNone
<1>2. ASSUME NEW t \in Seq(C), NEW x \in C, t \in G PROVE Append(t, x) \in G
  <2> DEFINE u == Each(h, t)
             v == h[x]
  <2>1. u \in Seq(A) /\ v \in Seq(A) /\ g[x] = Each(f, v)
    BY EachType DEF Sends
  <2>2. Each(h, Append(t, x)) = u \o v
    BY EachMore
  <2>3. Each(f, u) = Each(g, t)
    BY <1>2
  <2> HIDE DEF u, v, g
  <2>4. Each(g, Append(t, x)) = Each(g, t) \o g[x]
    BY <1>0, EachMore
  <2>5. Each(f, u \o v) = Each(f, u) \o Each(f, v)
    BY <2>1, EachOfTwo
  <2>6. Each(f, Each(h, Append(t, x))) = Each(g, Append(t, x))
    BY <2>1, <2>2, <2>3, <2>4, <2>5
  <2> QED BY <2>6
<1> HIDE DEF G, g
<1>3. Seq(C) \subseteq G
  BY <1>1, <1>2, Growing
<1> QED BY <1>3 DEF G, g

\* Elements that stand for one thing each.
LEMMA EachOne ==
  ASSUME NEW A, NEW B, NEW f, Sends(f, A, B), NEW s \in Seq(A)
  PROVE  Each([x \in A |-> <<f[x]>>], s) = Mapped(f, s)
<1> DEFINE g == [x \in A |-> <<f[x]>>]
           G == {t \in Seq(A) : Each(g, t) = Mapped(f, t)}
<1>0. Sends(g, A, Seq(B)) /\ \A x \in A : g[x] = <<f[x]>>
  <2>1. \A x \in A : <<f[x]>> \in Seq(B)
    BY DEF Sends
  <2> QED BY <2>1 DEF Sends
<1>1. <<>> \in G
  <2>1. Mapped(f, <<>>) = <<>>
    BY DEF Mapped
  <2> QED BY <2>1, EachNone
<1> HIDE DEF g
<1>2. ASSUME NEW t \in Seq(A), NEW x \in A, t \in G PROVE Append(t, x) \in G
  <2> DEFINE m == Mapped(f, t)
             y == f[x]
  <2>1. m \in Seq(B) /\ Mapped(f, Append(t, x)) = Append(m, y) /\ y \in B
    <3>1. m \in Seq(B) /\ Mapped(f, Append(t, x)) = Append(m, y)
      BY MappedMore
    <3> QED BY <3>1 DEF Sends
  <2>2. Each(g, Append(t, x)) = Each(g, t) \o g[x]
    BY <1>0, EachMore
  <2>3. Each(g, t) = m /\ g[x] = <<y>>
    BY <1>0, <1>2
  <2> HIDE DEF m, y
  <2>4. m \o <<y>> = Append(m, y)
    BY <2>1
  <2>5. Each(g, Append(t, x)) = Mapped(f, Append(t, x))
    BY <2>1, <2>2, <2>3, <2>4
  <2> QED BY <2>5
<1> HIDE DEF G
<1>3. Seq(A) \subseteq G
  BY <1>1, <1>2, Growing
<1> QED BY <1>3 DEF G, g

-----------------------------------------------------------------------------
(* Requests.                                                               *)

\* The messages an adapter gets; to the provers a literal is not a string
\* unless it is said.
Role == STRING \cup {"user", "assistant", "model"}
AnyMessage == [role : Role, text : STRING, calls : Seq(STRING), of : STRING]
Message == {m \in AnyMessage : m.role # "assistant" => m.calls = <<>>}

\* The parts of a request, its turns, and what pushes parts into them.
Spoken == [kind : {"text", "call", "result"}, data : STRING]
Turn == [role : Role, parts : Seq(Spoken)]
Push == [role : Role, part : Spoken]

WordsOf == [p \in Spoken |-> IF p = Part("text", NoText) THEN <<>> ELSE <<p>>]
PartsOfTurn == [t \in Turn |-> t.parts]

LEMMA WordsAreEach ==
  /\ Sends(WordsOf, Spoken, Seq(Spoken))
  /\ \A s \in Seq(Spoken) : Worded(s) = Each(WordsOf, s) /\ Worded(s) \in Seq(Spoken)
<1>1. Sends(WordsOf, Spoken, Seq(Spoken))
  BY DEF Sends, WordsOf
<1>2. ASSUME NEW s \in Seq(Spoken) PROVE Worded(s) = Each(WordsOf, s)
  <2>1. \A i \in 1 .. Len(s) :
          WordsOf[s[i]] = IF s[i] = Part("text", NoText) THEN <<>> ELSE <<s[i]>>
    BY DEF WordsOf
  <2> QED BY <2>1 DEF Worded, Each, Mapped
<1> QED BY <1>1, <1>2, EachType

LEMMA PartsAreEach ==
  /\ Sends(PartsOfTurn, Turn, Seq(Spoken))
  /\ \A t \in Seq(Turn) : PartsIn(t) = Each(PartsOfTurn, t) /\ PartsIn(t) \in Seq(Spoken)
<1>1. Sends(PartsOfTurn, Turn, Seq(Spoken))
  BY DEF Sends, PartsOfTurn, Turn
<1>2. ASSUME NEW t \in Seq(Turn) PROVE PartsIn(t) = Each(PartsOfTurn, t)
  <2>1. \A i \in 1 .. Len(t) : PartsOfTurn[t[i]] = t[i].parts
    BY DEF PartsOfTurn
  <2> QED BY <2>1 DEF PartsIn, Each, Mapped
<1> QED BY <1>1, <1>2, EachType

\* The words of a message are the same for every adapter.
LEMMA MessageFields ==
  ASSUME NEW m \in Message
  PROVE  /\ m.text \in STRING /\ m.role \in Role /\ m.of \in STRING /\ Calls(m) \in Seq(Spoken)
         /\ m.role # "assistant" => Calls(m) = <<>>
         /\ Part("text", m.text) \in Spoken /\ Part("result", m.of) \in Spoken
<1>1. /\ m.text \in STRING /\ m.role \in Role /\ m.of \in STRING /\ m.calls \in Seq(STRING)
      /\ m.role # "assistant" => m.calls = <<>>
  BY DEF Message, AnyMessage
<1>2. Part("text", m.text) \in Spoken /\ Part("result", m.of) \in Spoken
      /\ \A c \in STRING : Part("call", c) \in Spoken
  BY <1>1 DEF Part, Spoken
<1>3. Calls(m) \in Seq(Spoken) /\ (m.calls = <<>> => Calls(m) = <<>>)
  <2> DEFINE n == Len(m.calls)
  <2>1. n \in Nat /\ \A i \in 1 .. n : Part("call", m.calls[i]) \in Spoken
    <3>1. n \in Nat /\ \A i \in 1 .. n : m.calls[i] \in STRING
      BY <1>1
    <3> QED BY <1>2, <3>1
  <2>2. m.calls = <<>> => n = 0
    BY <1>1
  <2>3. Calls(m) = [i \in 1 .. n |-> Part("call", m.calls[i])]
    BY DEF Calls
  <2> HIDE DEF n
  <2> QED BY <2>1, <2>2, <2>3
<1> QED BY <1>1, <1>2, <1>3

LEMMA WordsOfMessage ==
  ASSUME NEW m \in Message
  PROVE  /\ PartsOf(m) \in Seq(Spoken) /\ SaidBy(m) \in Seq(Spoken)
         /\ Worded(PartsOf(m)) = Worded(SaidBy(m))
<1> DEFINE x == Part("text", m.text)
           y == Part("result", m.of)
           c == Calls(m)
<1>1. x \in Spoken /\ y \in Spoken /\ c \in Seq(Spoken) /\ (m.role # "assistant" => c = <<>>)
  BY MessageFields
<1>2. CASE m.role = "tool"
  <2>1. PartsOf(m) = <<y>> /\ SaidBy(m) = <<y>> \o c
    BY <1>2 DEF PartsOf, SaidBy
  <2> HIDE DEF y, c
  <2>2. <<y>> \o c = <<y>> /\ <<y>> \in Seq(Spoken)
    <3>1. y \in Spoken /\ c = <<>>
      BY <1>1, <1>2
    <3> QED BY <3>1
  <2> QED BY <2>1, <2>2
<1>3. CASE m.role \notin {"tool", "assistant"}
  <2>1. PartsOf(m) = <<x>> /\ SaidBy(m) = <<x>> \o c
    BY <1>3 DEF PartsOf, SaidBy
  <2> HIDE DEF x, c
  <2>2. <<x>> \o c = <<x>> /\ <<x>> \in Seq(Spoken)
    <3>1. x \in Spoken /\ c = <<>>
      BY <1>1, <1>3
    <3> QED BY <3>1
  <2> QED BY <2>1, <2>2
<1>4. CASE m.role = "assistant"
  <2>1. PartsOf(m) = TextUnlessEmpty(m) \o c /\ SaidBy(m) = <<x>> \o c
    BY <1>4 DEF PartsOf, SaidBy
  <2>2. TextUnlessEmpty(m) = IF m.text = NoText THEN <<>> ELSE <<x>>
    BY DEF TextUnlessEmpty
  <2>3. m.text = NoText => x = Part("text", NoText)
    OBVIOUS
  <2> HIDE DEF x, c
  <2>4. <<x>> \o c \in Seq(Spoken) /\ <<>> \o c = c /\ <<x>> \in Seq(Spoken)
    BY <1>1
  <2>5. CASE m.text # NoText
    BY <2>1, <2>2, <2>4, <2>5
  <2>6. CASE m.text = NoText
    <3>1. PartsOf(m) = c
      BY <2>1, <2>2, <2>4, <2>6
    <3>0. Sends(WordsOf, Spoken, Seq(Spoken))
      BY WordsAreEach
    <3>2. Each(WordsOf, <<x>>) = WordsOf[x]
      BY <1>1, <3>0, EachAlone
    <3>3. WordsOf[x] = <<>>
      BY <1>1, <2>3, <2>6 DEF WordsOf
    <3>4. Each(WordsOf, <<x>> \o c) = Each(WordsOf, <<x>>) \o Each(WordsOf, c)
      <4> DEFINE a == <<x>>
      <4>1. a \in Seq(Spoken)
        BY <2>4
      <4> HIDE DEF a
      <4>2. Each(WordsOf, a \o c) = Each(WordsOf, a) \o Each(WordsOf, c)
        BY <1>1, <3>0, <4>1, EachOfTwo
      <4> QED BY <4>2 DEF a
    <3>5. Each(WordsOf, c) \in Seq(Spoken)
      BY <1>1, WordsAreEach, EachType
    <3>6. Each(WordsOf, <<x>> \o c) = Each(WordsOf, c)
      BY <3>2, <3>3, <3>4, <3>5
    <3> QED BY <1>1, <2>1, <2>4, <3>1, <3>6, WordsAreEach
  <2> QED BY <2>5, <2>6
<1> QED BY <1>2, <1>3, <1>4

\* What is said in the same words of each message is said in the same words of all.
LEMMA SameWords ==
  ASSUME NEW g, Sends(g, Message, Seq(Spoken)), NEW h, Sends(h, Message, Seq(Spoken)),
         \A m \in Message : Worded(g[m]) = Worded(h[m]), NEW s \in Seq(Message)
  PROVE  Worded(Each(g, s)) = Worded(Each(h, s))
<1>1. ASSUME NEW f, Sends(f, Message, Seq(Spoken))
      PROVE  Worded(Each(f, s)) = Each([m \in Message |-> Worded(f[m])], s)
  <2>0. Sends(WordsOf, Spoken, Seq(Spoken)) /\ Each(f, s) \in Seq(Spoken)
    BY <1>1, WordsAreEach, EachType
  <2>1. Each(WordsOf, Each(f, s)) = Each([m \in Message |-> Each(WordsOf, f[m])], s)
    BY <1>1, <2>0, EachOfAll
  <2>2. \A m \in Message : Each(WordsOf, f[m]) = Worded(f[m])
    BY <1>1, WordsAreEach DEF Sends
  <2>3. [m \in Message |-> Each(WordsOf, f[m])] = [m \in Message |-> Worded(f[m])]
    BY <2>2
  <2>4. Each(WordsOf, Each(f, s)) = Worded(Each(f, s))
    BY <2>0, WordsAreEach
  <2> QED BY <2>1, <2>3, <2>4
<1>2. [m \in Message |-> Worded(g[m])] = [m \in Message |-> Worded(h[m])]
  OBVIOUS
<1>3. Worded(Each(g, s)) = Each([m \in Message |-> Worded(g[m])], s)
  BY <1>1
<1>4. Worded(Each(h, s)) = Each([m \in Message |-> Worded(h[m])], s)
  BY <1>1
<1> QED BY <1>2, <1>3, <1>4

\* What a conversation says, and what of it an adapter writes.
SaysOf(apart) ==
  [m \in Message |-> IF m.role = "system" /\ apart THEN <<>> ELSE SaidBy(m)]
WritesOf(apart) ==
  [m \in Message |-> IF m.role = "system" /\ apart THEN <<>> ELSE PartsOf(m)]

LEMMA SaidInWords ==
  ASSUME NEW s \in Seq(Message), NEW apart
  PROVE  /\ Sends(SaysOf(apart), Message, Seq(Spoken))
         /\ Sends(WritesOf(apart), Message, Seq(Spoken))
         /\ Said(s, apart) = Each(SaysOf(apart), s)
         /\ Worded(Each(WritesOf(apart), s)) = Worded(Said(s, apart))
<1>1. <<>> \in Seq(Spoken)
  OBVIOUS
<1>2. Sends(SaysOf(apart), Message, Seq(Spoken))
  BY <1>1, WordsOfMessage DEF Sends, SaysOf
<1>3. Sends(WritesOf(apart), Message, Seq(Spoken))
  BY <1>1, WordsOfMessage DEF Sends, WritesOf
<1>4. \A m \in Message : Worded(WritesOf(apart)[m]) = Worded(SaysOf(apart)[m])
  BY WordsOfMessage DEF SaysOf, WritesOf
<1>5. Said(s, apart) = Each(SaysOf(apart), s)
  <2>1. \A i \in 1 .. Len(s) :
          SaysOf(apart)[s[i]] = IF s[i].role = "system" /\ apart THEN <<>> ELSE SaidBy(s[i])
    BY DEF SaysOf
  <2> QED BY <2>1 DEF Said, Each, Mapped
<1> QED BY <1>2, <1>3, <1>4, <1>5, SameWords

\* build_chat_body()
LEMMA ChatBodyKeeps ==
  ASSUME NEW s \in Seq(Message)
  PROVE  Worded(PartsIn(ChatBody(s).turns)) = Worded(Said(s, FALSE))
<1> DEFINE n == Len(s)
           t == ChatBody(s).turns
<1>1. n \in Nat
  OBVIOUS
<1>2. Len(t) = n /\ \A i \in 1 .. n : t[i].parts = SaidBy(s[i])
  <2>1. t = [i \in 1 .. n |-> [role |-> s[i].role, parts |-> SaidBy(s[i])]]
    BY DEF ChatBody, SaidBy
  <2> HIDE DEF t, n
  <2> QED BY <1>1, <2>1
<1>3. PartsIn(t) = FlattenSeq([i \in 1 .. n |-> SaidBy(s[i])])
  <2> HIDE DEF t, n
  <2>1. [i \in 1 .. n |-> t[i].parts] = [i \in 1 .. n |-> SaidBy(s[i])]
    BY <1>2
  <2> QED BY <1>2, <2>1 DEF PartsIn
<1>4. Said(s, FALSE) = FlattenSeq([i \in 1 .. n |-> SaidBy(s[i])])
  BY DEF Said
<1> QED BY <1>3, <1>4

\* build_responses_body()
ItemsOf(m) == [j \in 1 .. Len(PartsOf(m)) |-> [role |-> m.role, parts |-> <<PartsOf(m)[j]>>]]

LEMMA ItemsAreParts ==
  ASSUME NEW m \in Message
  PROVE  ItemsOf(m) \in Seq(Turn) /\ PartsIn(ItemsOf(m)) = PartsOf(m)
<1> DEFINE ps == PartsOf(m)
           t == ItemsOf(m)
           n == Len(ps)
<1>1. ps \in Seq(Spoken) /\ m.role \in Role /\ n \in Nat /\ \A j \in 1 .. n : ps[j] \in Spoken
  <2>1. ps \in Seq(Spoken) /\ m.role \in Role
    BY WordsOfMessage, MessageFields
  <2> HIDE DEF ps
  <2> QED BY <2>1
<1>2. t = [j \in 1 .. n |-> [role |-> m.role, parts |-> <<ps[j]>>]]
  BY DEF ItemsOf
<1> HIDE DEF ps, t, n
<1>3. \A j \in 1 .. n : [role |-> m.role, parts |-> <<ps[j]>>] \in Turn
  BY <1>1 DEF Turn
<1>4. t \in Seq(Turn) /\ Len(t) = n /\ \A j \in 1 .. n : t[j].parts = <<ps[j]>>
  BY <1>1, <1>2, <1>3
<1>5. PartsIn(t) = FlattenSeq([j \in 1 .. n |-> <<ps[j]>>])
  <2>1. [j \in 1 .. n |-> t[j].parts] = [j \in 1 .. n |-> <<ps[j]>>]
    BY <1>4
  <2> QED BY <1>4, <2>1 DEF PartsIn
<1> DEFINE id == [p \in Spoken |-> p]
<1>6. Sends(id, Spoken, Spoken)
  BY DEF Sends
<1>7. Each([p \in Spoken |-> <<id[p]>>], ps) = Mapped(id, ps)
  <2> HIDE DEF id
  <2> QED BY <1>1, <1>6, EachOne
<1>8. Mapped([p \in Spoken |-> <<id[p]>>], ps) = [j \in 1 .. n |-> <<ps[j]>>]
  BY <1>1 DEF Mapped, n
<1>9. Mapped(id, ps) = ps
  BY <1>1 DEF Mapped, n
<1> QED BY <1>4, <1>5, <1>7, <1>8, <1>9 DEF Each, ps, t

LEMMA ResponsesBodyKeeps ==
  ASSUME NEW s \in Seq(Message)
  PROVE  Worded(PartsIn(ResponsesBody(s).turns)) = Worded(Said(s, FALSE))
<1> DEFINE h == [m \in Message |-> ItemsOf(m)]
           t == ResponsesBody(s).turns
<1>1. Sends(h, Message, Seq(Turn))
  BY ItemsAreParts DEF Sends
<1>2. t = Each(h, s)
  <2>1. t = FlattenSeq([i \in 1 .. Len(s) |-> ItemsOf(s[i])])
    BY DEF ResponsesBody, ItemsOf
  <2>2. \A i \in 1 .. Len(s) : h[s[i]] = ItemsOf(s[i])
    OBVIOUS
  <2> QED BY <2>1, <2>2 DEF Each, Mapped
<1>3. t \in Seq(Turn)
  <2> HIDE DEF h
  <2> QED BY <1>1, <1>2, EachType
<1>4. PartsIn(t) = Each(PartsOfTurn, Each(h, s))
  BY <1>2, <1>3, PartsAreEach
<1>5. Each(PartsOfTurn, Each(h, s)) = Each([m \in Message |-> Each(PartsOfTurn, h[m])], s)
  <2>1. Sends(PartsOfTurn, Turn, Seq(Spoken))
    BY PartsAreEach
  <2> HIDE DEF h
  <2> QED BY <1>1, <2>1, EachOfAll
<1>6. \A m \in Message : Each(PartsOfTurn, h[m]) = PartsOf(m)
  BY ItemsAreParts, PartsAreEach
<1>7. [m \in Message |-> Each(PartsOfTurn, h[m])] = WritesOf(FALSE)
  BY <1>6 DEF WritesOf
<1> QED BY <1>4, <1>5, <1>7, SaidInWords

-----------------------------------------------------------------------------
(* Turns that are merged.                                                  *)

\* The turns of what is pushed, up to each push.
TurnsTo(f, ps, n) ==
  f[0] = <<>> /\ \A k \in 1 .. n : f[k] = PushPart(f[k - 1], ps[k].role, ps[k].part)
TurnsOf(f, ps) == f \in [0 .. Len(ps) -> Seq(Turn)] /\ TurnsTo(f, ps, Len(ps))
Alternate(t) == \A i \in 1 .. Len(t) - 1 : t[i].role # t[i + 1].role

\* A turn with a part more.
LEMMA AddedTo ==
  ASSUME NEW t \in Turn, NEW part
  PROVE  [t EXCEPT !.parts = Append(@, part)] = [role |-> t.role, parts |-> Append(t.parts, part)]
<1> DEFINE q == Append(t.parts, part)
<1>1. t \in [role : Role, parts : Seq(Spoken)]
  BY DEF Turn
<1> HIDE DEF q
<1>2. [t EXCEPT !.parts = q] = [role |-> t.role, parts |-> q]
  BY <1>1
<1> QED BY <1>2 DEF q

\* A part pushed is one part more, in turns that alternate as before.
LEMMA PushKeeps ==
  ASSUME NEW t \in Seq(Turn), NEW role \in Role, NEW part \in Spoken
  PROVE  /\ PushPart(t, role, part) \in Seq(Turn)
         /\ PartsIn(PushPart(t, role, part)) = Append(PartsIn(t), part)
         /\ Alternate(t) => Alternate(PushPart(t, role, part))
<1> DEFINE n == Len(t)
           one == [role |-> role, parts |-> <<part>>]
           u == PushPart(t, role, part)
<1>1. n \in Nat /\ one \in Turn /\ one.parts = <<part>> /\ one.role = role
  BY DEF Turn
<1>2. Sends(PartsOfTurn, Turn, Seq(Spoken))
      /\ \A v \in Seq(Turn) : PartsIn(v) = Each(PartsOfTurn, v) /\ PartsIn(v) \in Seq(Spoken)
  BY PartsAreEach
<1>3. CASE ~(t # <<>> /\ Last(t).role = role)
  <2>1. u = Append(t, one)
    BY <1>3 DEF PushPart
  <2> HIDE DEF one, u
  <2>2. u \in Seq(Turn) /\ Len(u) = n + 1 /\ u[n + 1] = one /\ \A i \in 1 .. n : u[i] = t[i]
    BY <1>1, <2>1
  <2>3. PartsIn(u) = PartsIn(t) \o <<part>>
    <3>1. Each(PartsOfTurn, Append(t, one)) = Each(PartsOfTurn, t) \o PartsOfTurn[one]
      BY <1>1, <1>2, EachMore
    <3>2. PartsOfTurn[one] = <<part>>
      BY <1>1 DEF PartsOfTurn
    <3> QED BY <1>2, <2>1, <2>2, <3>1, <3>2
  <2>4. PartsIn(t) \o <<part>> = Append(PartsIn(t), part)
    <3> DEFINE q == PartsIn(t)
    <3>1. q \in Seq(Spoken)
      BY <1>2
    <3> HIDE DEF q
    <3>2. q \o <<part>> = Append(q, part)
      BY <3>1
    <3> QED BY <3>2 DEF q
  <2>5. ASSUME Alternate(t), NEW i \in 1 .. n PROVE u[i].role # u[i + 1].role
    <3>1. CASE i = n
      <4>1. t # <<>> /\ Last(t) = t[n]
        BY <3>1 DEF Last
      <4>2. t[n].role # role
        BY <1>3, <4>1
      <4> QED BY <1>1, <2>2, <3>1, <4>2
    <3>2. CASE i # n
      <4>1. i \in 1 .. n - 1 /\ i + 1 \in 1 .. n
        BY <1>1, <3>2
      <4>2. t[i].role # t[i + 1].role
        BY <2>5, <4>1 DEF Alternate
      <4> QED BY <2>2, <4>1, <4>2
    <3> QED BY <3>1, <3>2
  <2>6. Alternate(t) => Alternate(u)
    <3>1. Len(u) - 1 = n
      BY <1>1, <2>2
    <3> QED BY <2>5, <3>1 DEF Alternate
  <2> QED BY <2>2, <2>3, <2>4, <2>6 DEF u
<1>4. CASE t # <<>> /\ Last(t).role = role
  <2> DEFINE front == SubSeq(t, 1, n - 1)
             last == t[n]
             more == [role |-> last.role, parts |-> Append(last.parts, part)]
  <2>1. n \in 1 .. n /\ n - 1 \in Nat /\ last \in Turn
    BY <1>4
  <2>2. front \in Seq(Turn) /\ Len(front) = n - 1 /\ \A i \in 1 .. n - 1 : front[i] = t[i]
    <3> DEFINE k == n - 1
    <3>1. k \in 0 .. Len(t)
      BY <2>1
    <3> HIDE DEF k
    <3>2. /\ SubSeq(t, 1, k) \in Seq(Turn) /\ Len(SubSeq(t, 1, k)) = k
          /\ \A i \in 1 .. k : SubSeq(t, 1, k)[i] = t[i]
      BY <3>1
    <3> QED BY <3>2 DEF k
  <2>3. t = Append(front, last)
    <3> HIDE DEF front
    <3> QED BY <2>1, <2>2
  <2>4. /\ last.parts \in Seq(Spoken) /\ more \in Turn
        /\ more.parts = Append(last.parts, part) /\ more.role = last.role
    <3>1. /\ last = [role |-> last.role, parts |-> last.parts]
          /\ last.role \in Role /\ last.parts \in Seq(Spoken)
      BY <2>1 DEF Turn
    <3> HIDE DEF last
    <3>2. Append(last.parts, part) \in Seq(Spoken)
      BY <3>1
    <3> QED BY <3>1, <3>2 DEF Turn
  <2>5. u = [t EXCEPT ![n] = more]
    <3>1. u = [t EXCEPT ![n].parts = Append(@, part)]
      BY <1>4, <2>1 DEF PushPart, Last
    <3>2. [last EXCEPT !.parts = Append(@, part)] = more
      <4>1. last \in Turn
        BY <2>1
      <4> HIDE DEF last
      <4> QED BY <4>1, AddedTo
    <3> QED BY <2>1, <3>1, <3>2 DEF Turn
  <2> HIDE DEF front, last, more, u
  <2>6. u \in Seq(Turn) /\ Len(u) = n /\ u[n] = more /\ \A i \in 1 .. n - 1 : u[i] = t[i]
    <3>1. \A i \in 1 .. n - 1 : i # n /\ i \in 1 .. n
      BY <2>1
    <3> QED BY <2>1, <2>4, <2>5, <3>1
  <2>7. u = Append(front, more)
    BY <2>1, <2>2, <2>4, <2>6
  <2>8. Each(PartsOfTurn, Append(front, last)) = Each(PartsOfTurn, front) \o PartsOfTurn[last]
        /\ Each(PartsOfTurn, Append(front, more)) = Each(PartsOfTurn, front) \o PartsOfTurn[more]
        /\ Each(PartsOfTurn, front) \in Seq(Spoken)
    BY <1>2, <2>1, <2>2, <2>4, EachMore
  <2>9. PartsOfTurn[last] = last.parts /\ PartsOfTurn[more] = Append(last.parts, part)
    BY <2>1, <2>4 DEF PartsOfTurn
  <2>10. PartsIn(u) = Append(PartsIn(t), part)
    <3> DEFINE a == Each(PartsOfTurn, front)
               b == last.parts
    <3>1. a \in Seq(Spoken) /\ b \in Seq(Spoken)
      BY <2>4, <2>8
    <3>2. a \o Append(b, part) = Append(a \o b, part)
      BY <3>1, Shifted
    <3>3. PartsIn(t) = a \o b /\ PartsIn(u) = a \o Append(b, part)
      BY <1>2, <2>3, <2>6, <2>7, <2>8, <2>9
    <3> QED BY <3>2, <3>3
  <2>11. ASSUME Alternate(t), NEW i \in 1 .. n - 1 PROVE u[i].role # u[i + 1].role
    <3>1. t[i].role # t[i + 1].role
      BY <2>11 DEF Alternate
    <3>2. u[i] = t[i]
      BY <2>6
    <3>3. u[i + 1].role = t[i + 1].role
      <4>1. CASE i = n - 1
        <5>1. i + 1 = n
          BY <2>1, <4>1
        <5> QED BY <2>4, <2>6, <5>1 DEF last
      <4>2. CASE i # n - 1
        <5>1. i + 1 \in 1 .. n - 1
          BY <2>1, <4>2
        <5> QED BY <2>6, <5>1
      <4> QED BY <4>1, <4>2
    <3> QED BY <3>1, <3>2, <3>3
  <2>12. Alternate(t) => Alternate(u)
    BY <2>6, <2>11 DEF Alternate
  <2> QED BY <2>6, <2>10, <2>12 DEF u
<1> QED BY <1>3, <1>4

LEMMA TurnsExist ==
  ASSUME NEW ps \in Seq(Push)
  PROVE  \E f : TurnsOf(f, ps)
<1> DEFINE G == {s \in Seq(Push) : \E f : TurnsOf(f, s)}
<1>1. <<>> \in G
  <2>1. TurnsOf([k \in 0 .. 0 |-> <<>>], <<>>)
    BY DEF TurnsOf, TurnsTo
  <2> QED BY <2>1
<1>2. ASSUME NEW s \in Seq(Push), NEW x \in Push, s \in G PROVE Append(s, x) \in G
  <2> DEFINE t == Append(s, x)
             n == Len(s)
  <2>1. n \in Nat /\ t \in Seq(Push) /\ Len(t) = n + 1 /\ t[n + 1] = x /\ \A k \in 1 .. n : t[k] = s[k]
    OBVIOUS
  <2>2. PICK f : TurnsOf(f, s)
    BY <1>2
  <2> DEFINE last == PushPart(f[n], x.role, x.part)
             g == [k \in 0 .. n + 1 |-> IF k = n + 1 THEN last ELSE f[k]]
  <2>3. f \in [0 .. n -> Seq(Turn)] /\ f[0] = <<>>
        /\ \A k \in 1 .. n : f[k] = PushPart(f[k - 1], s[k].role, s[k].part)
    BY <2>2 DEF TurnsOf, TurnsTo
  <2> HIDE DEF t, n
  <2>4. f[n] \in Seq(Turn)
    BY <2>1, <2>3
  <2>5. last \in Seq(Turn)
    <3>1. x.role \in Role /\ x.part \in Spoken
      BY DEF Push
    <3> QED BY <2>4, <3>1, PushKeeps
  <2>6. g \in [0 .. n + 1 -> Seq(Turn)] /\ g[n + 1] = last /\ \A k \in 0 .. n : g[k] = f[k]
    <3> HIDE DEF last
    <3>1. \A k \in 0 .. n + 1 : k = n + 1 \/ k \in 0 .. n
      BY <2>1
    <3>2. n + 1 \in 0 .. n + 1 /\ \A k \in 0 .. n : k # n + 1 /\ k \in 0 .. n + 1
      BY <2>1
    <3> QED BY <2>3, <2>5, <3>1, <3>2
  <2> HIDE DEF g
  <2>7. ASSUME NEW k \in 1 .. n + 1 PROVE g[k] = PushPart(g[k - 1], t[k].role, t[k].part)
    <3>1. CASE k = n + 1
      <4>1. n \in Nat
        BY <2>1
      <4>2. k - 1 = n /\ n \in 0 .. n
        BY <3>1, <4>1
      <4> QED BY <2>1, <2>6, <3>1, <4>2
    <3>2. CASE k # n + 1
      <4>1. k \in 1 .. n /\ k \in 0 .. n /\ k - 1 \in 0 .. n
        BY <2>1, <3>2
      <4> QED BY <2>1, <2>3, <2>6, <4>1
    <3> QED BY <3>1, <3>2
  <2>8. g[0] = <<>>
    <3>1. 0 \in 0 .. n
      BY <2>1
    <3> QED BY <2>3, <2>6, <3>1
  <2>9. TurnsOf(g, t)
    BY <2>1, <2>6, <2>7, <2>8 DEF TurnsOf, TurnsTo
  <2> QED BY <2>1, <2>9 DEF t
<1> HIDE DEF G
<1>3. Seq(Push) \subseteq G
  BY <1>1, <1>2, Growing
<1> QED BY <1>3 DEF G

LEMMA TurnsAgree ==
  ASSUME NEW n \in Nat, NEW ps, NEW f, TurnsTo(f, ps, n), NEW g, TurnsTo(g, ps, n)
  PROVE  f[n] = g[n]
<1> DEFINE G == {k \in Nat : k \in 0 .. n => f[k] = g[k]}
<1>1. 0 \in G
  BY DEF TurnsTo
<1>2. ASSUME NEW k \in Nat, k \in G PROVE k + 1 \in G
  <2> SUFFICES ASSUME k + 1 \in 0 .. n PROVE f[k + 1] = g[k + 1]
    OBVIOUS
  <2> DEFINE m == k + 1
  <2>1. k \in 0 .. n /\ m \in 1 .. n /\ m - 1 = k
    OBVIOUS
  <2>2. f[k] = g[k]
    BY <1>2, <2>1
  <2> HIDE DEF m, G
  <2>3. f[m] = g[m]
    BY <2>1, <2>2 DEF TurnsTo
  <2> QED BY <2>3 DEF m
<1> HIDE DEF G
<1>3. Nat \subseteq G
  BY <1>1, <1>2, Counting
<1> QED BY <1>3 DEF G

\* The turns have the parts that were pushed, and alternate.
LEMMA TurnsKeep ==
  ASSUME NEW ps \in Seq(Push), NEW f, TurnsOf(f, ps)
  PROVE  /\ f[Len(ps)] \in Seq(Turn) /\ Alternate(f[Len(ps)])
         /\ PartsIn(f[Len(ps)]) = Mapped([p \in Push |-> p.part], ps)
<1> DEFINE n == Len(ps)
           q == [p \in Push |-> p.part]
           all == Mapped(q, ps)
           Good(k) == Alternate(f[k]) /\ PartsIn(f[k]) = SubSeq(all, 1, k)
           G == {k \in Nat : k \in 0 .. n => Good(k)}
<1>1. n \in Nat /\ f \in [0 .. n -> Seq(Turn)] /\ f[0] = <<>>
      /\ \A k \in 1 .. n : f[k] = PushPart(f[k - 1], ps[k].role, ps[k].part)
  BY DEF TurnsOf, TurnsTo
<1>2. \A k \in 1 .. n : ps[k].role \in Role /\ ps[k].part \in Spoken /\ q[ps[k]] = ps[k].part
  <2>1. \A k \in 1 .. n : ps[k] \in Push
    OBVIOUS
  <2>2. \A p \in Push : p.role \in Role /\ p.part \in Spoken
    BY DEF Push
  <2>3. \A p \in Push : q[p] = p.part
    OBVIOUS
  <2> HIDE DEF q, n
  <2> QED BY <2>1, <2>2, <2>3
<1>3. all \in Seq(Spoken) /\ Len(all) = n /\ \A k \in 1 .. n : all[k] = ps[k].part
  <2> HIDE DEF q
  <2> QED BY <1>1, <1>2 DEF Mapped, n
<1> HIDE DEF all, q, n
<1>4. 0 \in G
  <2>1. PartsIn(<<>>) = <<>>
    BY FlattenNone DEF PartsIn
  <2>2. SubSeq(all, 1, 0) = <<>>
    BY <1>3
  <2>3. Alternate(<<>>)
    BY DEF Alternate
  <2> QED BY <1>1, <2>1, <2>2, <2>3
<1>5. ASSUME NEW k \in Nat, k \in G PROVE k + 1 \in G
  <2> SUFFICES ASSUME k + 1 \in 0 .. n PROVE Good(k + 1)
    OBVIOUS
  <2> DEFINE m == k + 1
  <2>1. k \in 0 .. n /\ m \in 1 .. n /\ m - 1 = k
    BY <1>1
  <2>2. Alternate(f[k]) /\ PartsIn(f[k]) = SubSeq(all, 1, k)
    BY <1>5, <2>1
  <2>3. f[m] = PushPart(f[k], ps[m].role, ps[m].part) /\ f[k] \in Seq(Turn)
    <3> HIDE DEF m
    <3> QED BY <1>1, <2>1
  <2>4. Alternate(f[m]) /\ PartsIn(f[m]) = Append(PartsIn(f[k]), ps[m].part)
    <3> HIDE DEF m, Good, G
    <3>1. ps[m].role \in Role /\ ps[m].part \in Spoken
      BY <1>2, <2>1
    <3> QED BY <2>2, <2>3, <3>1, PushKeeps
  <2>5. SubSeq(all, 1, m) = Append(SubSeq(all, 1, k), ps[m].part)
    <3>1. all[m] = ps[m].part
      BY <1>3, <2>1
    <3>2. SubSeq(all, 1, m) = Append(SubSeq(all, 1, k), all[m])
      BY <1>1, <1>3, <2>1
    <3> QED BY <3>1, <3>2
  <2> HIDE DEF G
  <2> QED BY <2>2, <2>4, <2>5
<1> HIDE DEF G
<1>6. Nat \subseteq G
  BY <1>4, <1>5, Counting
<1>7. n \in G /\ n \in 0 .. n
  BY <1>1, <1>6
<1>8. Good(n)
  <2> HIDE DEF Good
  <2> QED BY <1>7 DEF G
<1>9. SubSeq(all, 1, n) = all
  BY <1>1, <1>3
<1>10. f[n] \in Seq(Turn)
  BY <1>1, <1>7
<1> QED BY <1>8, <1>9, <1>10 DEF n, all, q

\* What a message pushes.
PushesOf(assistant) ==
  [m \in Message |->
     IF m.role = "system" THEN <<>>
     ELSE [j \in 1 .. Len(PartsOf(m)) |->
             [role |-> IF m.role = "assistant" THEN assistant ELSE "user", part |-> PartsOf(m)[j]]]]
PartPushed == [p \in Push |-> p.part]

LEMMA PushesAreParts ==
  ASSUME NEW assistant \in Role
  PROVE  /\ Sends(PushesOf(assistant), Message, Seq(Push))
         /\ \A m \in Message : Mapped(PartPushed, PushesOf(assistant)[m]) = WritesOf(TRUE)[m]
<1>1. ASSUME NEW m \in Message
      PROVE  /\ PushesOf(assistant)[m] \in Seq(Push)
             /\ Mapped(PartPushed, PushesOf(assistant)[m]) = WritesOf(TRUE)[m]
  <2> DEFINE v == PushesOf(assistant)[m]
             w == WritesOf(TRUE)[m]
             ps == PartsOf(m)
             n == Len(ps)
             role == IF m.role = "assistant" THEN assistant ELSE "user"
  <2>1. ps \in Seq(Spoken) /\ role \in Role
    BY WordsOfMessage DEF Role
  <2>2. CASE m.role = "system"
    <3>1. v = <<>> /\ w = <<>>
      BY <2>2 DEF PushesOf, WritesOf
    <3>2. Mapped(PartPushed, <<>>) = <<>> /\ <<>> \in Seq(Push)
      BY DEF Mapped
    <3> QED BY <3>1, <3>2
  <2>3. CASE m.role # "system"
    <3>1. w = ps /\ v = [j \in 1 .. n |-> [role |-> role, part |-> ps[j]]]
      BY <2>3 DEF PushesOf, WritesOf
    <3> HIDE DEF v, w, ps, role
    <3>2. n \in Nat /\ (\A j \in 1 .. n : ps[j] \in Spoken) /\ ps = [j \in 1 .. n |-> ps[j]]
      BY <2>1
    <3> HIDE DEF n
    <3>3. \A j \in 1 .. n : [role |-> role, part |-> ps[j]] \in Push
      BY <2>1, <3>2 DEF Push
    <3>4. v \in Seq(Push) /\ Len(v) = n /\ \A j \in 1 .. n : v[j] \in Push /\ v[j].part = ps[j]
      <4> DEFINE e(j) == [role |-> role, part |-> ps[j]]
      <4>1. \A j \in 1 .. n : e(j) \in Push /\ e(j).part = ps[j]
        BY <3>3
      <4>2. v = [j \in 1 .. n |-> e(j)]
        BY <3>1
      <4> HIDE DEF e
      <4> QED BY <3>2, <4>1, <4>2
    <3>5. \A j \in 1 .. n : PartPushed[v[j]] = ps[j]
      BY <3>4 DEF PartPushed
    <3>6. Mapped(PartPushed, v) = ps
      <4>1. [j \in 1 .. n |-> PartPushed[v[j]]] = [j \in 1 .. n |-> ps[j]]
        BY <3>5
      <4> QED BY <3>2, <3>4, <4>1 DEF Mapped
    <3> QED BY <3>1, <3>4, <3>6 DEF v, w
  <2> QED BY <2>2, <2>3
<1>2. PushesOf(assistant) \in [Message -> Seq(Push)]
  <2> DEFINE f == PushesOf(assistant)
  <2>1. f = [m \in Message |-> f[m]]
    BY DEF PushesOf
  <2> HIDE DEF f
  <2> QED BY <1>1, <2>1 DEF f
<1> QED BY <1>1, <1>2 DEF Sends

LEMMA MergedIsLast ==
  ASSUME NEW assistant \in Role, NEW s \in Seq(Message),
         NEW f, TurnsOf(f, Each(PushesOf(assistant), s))
  PROVE  MergedTurns(s, assistant) = f[Len(Each(PushesOf(assistant), s))]
<1> DEFINE ps == Each(PushesOf(assistant), s)
           n == Len(ps)
           Step(g) == [k \in 0 .. Len(ps) |->
                         IF k = 0 THEN <<>> ELSE PushPart(g[k - 1], ps[k].role, ps[k].part)]
           h == CHOOSE g : g = Step(g)
<1>1. ps \in Seq(Push) /\ n \in Nat
  <2>1. ps \in Seq(Push)
    BY PushesAreParts, EachType
  <2> HIDE DEF ps
  <2> QED BY <2>1
<1>2. f \in [0 .. n -> Seq(Turn)] /\ f[0] = <<>>
      /\ \A k \in 1 .. n : f[k] = PushPart(f[k - 1], ps[k].role, ps[k].part)
  BY DEF TurnsOf, TurnsTo
<1>3. f = Step(f)
  <2> HIDE DEF ps
  <2>1. \A k \in 0 .. n : f[k] = IF k = 0 THEN <<>> ELSE PushPart(f[k - 1], ps[k].role, ps[k].part)
    <3>1. \A k \in 0 .. n : k = 0 \/ k \in 1 .. n
      BY <1>1
    <3> QED BY <1>2, <3>1
  <2>2. f = [k \in 0 .. n |-> f[k]]
    BY <1>2
  <2> QED BY <2>1, <2>2
<1>4. h = Step(h)
  BY <1>3
<1>5. MergedTurns(s, assistant) = h[n]
  <2> DEFINE Pushed(m) == IF m.role = "system" THEN <<>>
                          ELSE [j \in 1 .. Len(PartsOf(m)) |->
                                  [role |-> IF m.role = "assistant" THEN assistant ELSE "user",
                                   part |-> PartsOf(m)[j]]]
             qs == FlattenSeq([i \in 1 .. Len(s) |-> Pushed(s[i])])
             turns[k \in 0 .. Len(qs)] ==
               IF k = 0 THEN <<>> ELSE PushPart(turns[k - 1], qs[k].role, qs[k].part)
  <2>1. MergedTurns(s, assistant) = turns[Len(qs)]
    BY DEF MergedTurns
  <2>2. qs = ps
    <3>1. \A m \in Message : PushesOf(assistant)[m] = Pushed(m)
      BY DEF PushesOf
    <3>2. \A i \in 1 .. Len(s) : s[i] \in Message
      OBVIOUS
    <3> HIDE DEF Pushed
    <3>3. [i \in 1 .. Len(s) |-> Pushed(s[i])] = [i \in 1 .. Len(s) |-> PushesOf(assistant)[s[i]]]
      BY <3>1, <3>2
    <3> QED BY <3>3 DEF Each, Mapped
  <2>3. turns = CHOOSE g : g = [k \in 0 .. Len(qs) |->
                  IF k = 0 THEN <<>> ELSE PushPart(g[k - 1], qs[k].role, qs[k].part)]
    OBVIOUS
  <2> HIDE DEF turns, qs, Pushed, ps
  <2>4. turns = h
    BY <2>2, <2>3
  <2> QED BY <2>1, <2>2, <2>4
<1> HIDE DEF h
<1>6. h[0] = <<>> /\ \A k \in 1 .. n : h[k] = PushPart(h[k - 1], ps[k].role, ps[k].part)
  <2> HIDE DEF ps
  <2>1. h = [k \in 0 .. n |-> IF k = 0 THEN <<>> ELSE PushPart(h[k - 1], ps[k].role, ps[k].part)]
    BY <1>4
  <2> HIDE DEF n
  <2>2. \A k \in 0 .. n : h[k] = IF k = 0 THEN <<>> ELSE PushPart(h[k - 1], ps[k].role, ps[k].part)
    BY <2>1, Zenon
  <2>3. 0 \in 0 .. n /\ \A k \in 1 .. n : k \in 0 .. n /\ k # 0
    BY <1>1
  <2> QED BY <2>2, <2>3
<1> HIDE DEF ps, n
<1>7. TurnsTo(f, ps, n) /\ TurnsTo(h, ps, n)
  BY <1>2, <1>6 DEF TurnsTo
<1>8. f[n] = h[n]
  BY <1>1, <1>7, TurnsAgree
<1> QED BY <1>5, <1>8 DEF n, ps

\* build_messages_body(), build_generate_body()
LEMMA MergedKeeps ==
  ASSUME NEW assistant \in Role, NEW s \in Seq(Message)
  PROVE  /\ Worded(PartsIn(MergedTurns(s, assistant))) = Worded(Said(s, TRUE))
         /\ Alternate(MergedTurns(s, assistant))
<1> DEFINE h == PushesOf(assistant)
           ps == Each(h, s)
           one == [p \in Push |-> <<PartPushed[p]>>]
<1>1. Sends(h, Message, Seq(Push)) /\ ps \in Seq(Push)
  BY PushesAreParts, EachType
<1>2. \A m \in Message : Mapped(PartPushed, h[m]) = WritesOf(TRUE)[m]
  BY PushesAreParts
<1>3. PICK f : TurnsOf(f, ps)
  <2> HIDE DEF ps
  <2> QED BY <1>1, TurnsExist
<1>4. MergedTurns(s, assistant) = f[Len(ps)]
  BY <1>3, MergedIsLast
<1> HIDE DEF ps, h
<1>5. Alternate(f[Len(ps)]) /\ PartsIn(f[Len(ps)]) = Mapped(PartPushed, ps)
  BY <1>1, <1>3, TurnsKeep DEF PartPushed
<1>6. Sends(PartPushed, Push, Spoken) /\ Sends(one, Push, Seq(Spoken))
  <2>1. \A p \in Push : p.part \in Spoken /\ PartPushed[p] = p.part
    BY DEF Push, PartPushed
  <2>2. Sends(PartPushed, Push, Spoken)
    BY <2>1 DEF PartPushed, Sends
  <2>3. \A p \in Push : <<PartPushed[p]>> \in Seq(Spoken)
    BY <2>1
  <2> QED BY <2>2, <2>3 DEF Sends
<1>7. \A t \in Seq(Push) : Each(one, t) = Mapped(PartPushed, t)
  BY <1>6, EachOne
<1> HIDE DEF one
<1>8. Each(one, ps) = Each([m \in Message |-> Each(one, h[m])], s)
  BY <1>1, <1>6, EachOfAll DEF ps
<1>9. [m \in Message |-> Each(one, h[m])] = WritesOf(TRUE)
  <2>1. \A m \in Message : h[m] \in Seq(Push)
    BY <1>1 DEF Sends
  <2>2. \A m \in Message : Each(one, h[m]) = WritesOf(TRUE)[m]
    BY <1>2, <1>7, <2>1
  <2>3. WritesOf(TRUE) = [m \in Message |-> WritesOf(TRUE)[m]]
    BY DEF WritesOf
  <2> QED BY <2>2, <2>3
<1>10. PartsIn(f[Len(ps)]) = Each(WritesOf(TRUE), s)
  BY <1>1, <1>5, <1>7, <1>8, <1>9
<1> QED BY <1>4, <1>5, <1>10, SaidInWords

\* What a request owes the conversation it is made from.
Apart(p) == p \in {"anthropic", "gemini"}
Keeps(b, p, s) ==
  /\ Worded(PartsIn(b.turns)) = Worded(Said(s, Apart(p)))
  /\ Apart(p) => b.system = SystemOf(s) /\ Alternate(b.turns)

LEMMA BodyKeeps ==
  ASSUME NEW p \in Protocol, NEW s \in Seq(Message)
  PROVE  Keeps(Body(p, s), p, s)
<1>1. CASE p = "openai"
  <2>1. Body(p, s) = ChatBody(s) /\ Apart(p) = FALSE
    BY <1>1 DEF Body, Apart
  <2> QED BY <2>1, ChatBodyKeeps, Zenon DEF Keeps
<1>2. CASE p = "responses"
  <2>1. Body(p, s) = ResponsesBody(s) /\ Apart(p) = FALSE
    BY <1>2 DEF Body, Apart
  <2> QED BY <2>1, ResponsesBodyKeeps, Zenon DEF Keeps
<1>3. CASE p = "anthropic"
  <2>1. Body(p, s) = MessagesBody(s) /\ Apart(p) = TRUE
    BY <1>3 DEF Body, Apart
  <2>2. MessagesBody(s).system = SystemOf(s) /\ MessagesBody(s).turns = MergedTurns(s, "assistant")
    BY DEF MessagesBody
  <2>3. "assistant" \in Role
    BY DEF Role
  <2> QED BY <2>1, <2>2, <2>3, MergedKeeps, Zenon DEF Keeps
<1>4. CASE p = "gemini"
  <2>1. Body(p, s) = GenerateBody(s) /\ Apart(p) = TRUE
    BY <1>4 DEF Body, Apart
  <2>2. GenerateBody(s).system = SystemOf(s) /\ GenerateBody(s).turns = MergedTurns(s, "model")
    BY DEF GenerateBody
  <2>3. "model" \in Role
    BY DEF Role
  <2> QED BY <2>1, <2>2, <2>3, MergedKeeps, Zenon DEF Keeps
<1> QED BY <1>1, <1>2, <1>3, <1>4 DEF Protocol

LEMMA AssistantsCall ==
  ASSUME NEW s \in Seq(AnyMessage), OnlyAssistantsCall(s)
  PROVE  s \in Seq(Message)
<1> DEFINE n == Len(s)
<1>1. n \in Nat /\ s = [i \in 1 .. n |-> s[i]] /\ \A i \in 1 .. n : s[i] \in AnyMessage
  OBVIOUS
<1> HIDE DEF n
<1>2. \A i \in 1 .. n : s[i] \in Message
  BY <1>1 DEF OnlyAssistantsCall, Message, n
<1> QED BY <1>1, <1>2

LEMMA AsUser ==
  ASSUME NEW m \in AnyMessage
  PROVE  [m EXCEPT !.role = "user"]
         = [role |-> "user", text |-> m.text, calls |-> m.calls, of |-> m.of]
  BY DEF AnyMessage

LEMMA CanonicalMessages ==
  ASSUME NEW messages \in Seq(MessageType)
  PROVE  ToCanonical(messages) \in Seq(AnyMessage)
<1> DEFINE n == Len(messages)
           Known(m) == m.role \in {"system", "assistant", "tool"}
           One(m) == IF Known(m) THEN m ELSE [m EXCEPT !.role = "user"]
<1>1. n \in Nat /\ DOMAIN messages = 1 .. n /\ \A i \in 1 .. n : messages[i] \in MessageType
  OBVIOUS
<1>2. ASSUME NEW m \in MessageType PROVE One(m) \in AnyMessage
  <2>1. m \in AnyMessage /\ m.text \in STRING /\ m.of \in STRING /\ m.calls \in Seq(STRING)
    BY DEF MessageType, AnyMessage, Role
  <2> DEFINE u == [role |-> "user", text |-> m.text, calls |-> m.calls, of |-> m.of]
  <2>2. u \in AnyMessage
    BY <2>1 DEF AnyMessage, Role
  <2>3. [m EXCEPT !.role = "user"] = u
    BY <2>1, AsUser
  <2> HIDE DEF u
  <2> QED BY <2>1, <2>2, <2>3
<1>3. ToCanonical(messages) = [i \in 1 .. n |-> One(messages[i])]
  BY <1>1 DEF ToCanonical
<1> HIDE DEF One, n
<1> QED BY <1>1, <1>2, <1>3

\* The request on its way is the one made from the conversation.
Asking ==
  /\ protocol \in Protocol
  /\ asked \in Seq(AnyMessage)
  /\ body # NoBody => body = Body(protocol, asked)

LEMMA AskingInit == Init => Asking
<1>1. <<>> \in Seq(AnyMessage)
  OBVIOUS
<1> QED BY <1>1 DEF Init, Asking, Protocol

LEMMA AskingNext == Asking /\ [Next]_vars => Asking'
<1> SUFFICES ASSUME Asking, [Next]_vars PROVE Asking'
  OBVIOUS
<1>0. <<>> \in Seq(AnyMessage) /\ "openai" \in Protocol
  BY DEF Protocol
<1>1. ASSUME NEW o, NEW p \in Protocol, NEW m \in Requests \cup {<<>>}, Begin(o, p, m) PROVE Asking'
  <2>1. m \in Seq(MessageType)
    <3>1. <<>> \in Seq(MessageType)
      OBVIOUS
    <3> QED BY <3>1, RequestsAssumption
  <2>2. ToCanonical(m) \in Seq(AnyMessage)
    BY <2>1, CanonicalMessages
  <2> QED BY <1>1, <2>2 DEF Begin, Asking
<1>2. ASSUME asked' = <<>>, body' = NoBody, protocol' \in Protocol PROVE Asking'
  BY <1>0, <1>2 DEF Asking
<1>3. ASSUME UNCHANGED <<protocol, asked, body>> PROVE Asking'
  BY <1>3 DEF Asking
<1>4. \A outcome : Finish(outcome) => Asking'
  BY <1>2 DEF Finish, Asking
<1>5. ASSUME NEW category, Unreachable(category) \/ Break(category) PROVE Asking'
  BY <1>3, <1>4, <1>5 DEF Unreachable, Break
<1>6. ASSUME NEW status, NEW hint, Refuse(status, hint) PROVE Asking'
  BY <1>4, <1>6 DEF Refuse
<1>7. CASE Unreadable \/ AnswerHealthy \/ AnswerList
  BY <1>4, <1>7 DEF Unreadable, AnswerHealthy, AnswerList
<1>8. ASSUME NEW a, AnswerWhole(a) \/ OpenStream(a) PROVE Asking'
  <2>1. CASE AnswerWhole(a)
    BY <1>4, <2>1 DEF AnswerWhole
  <2>2. CASE OpenStream(a)
    BY <1>2, <2>2 DEF OpenStream, Asking
  <2> QED BY <1>8, <2>1, <2>2
<1>9. ASSUME NEW items, AnswerVectorsSkipping(items) \/ AnswerVectorsInPlace(items) PROVE Asking'
  BY <1>4, <1>9 DEF AnswerVectorsSkipping, AnswerVectorsInPlace
<1>10. ASSUME NEW pages, NEW lost, AnswerPageToken(pages) \/ AnswerPageAfter(pages, lost) PROVE Asking'
  <2>1. \A page, more : TakePage(page, more) => Asking'
    BY <1>3 DEF TakePage
  <2> QED BY <1>10, <2>1 DEF AnswerPageToken, AnswerPageAfter
<1>11. ASSUME NEW k, Arrive(k) \/ \E inside \in BOOLEAN : ArrivePart(k, inside) PROVE Asking'
  BY <1>3, <1>11 DEF Arrive, ArrivePart
<1>12. CASE ArriveError \/ End
  BY <1>3, <1>12 DEF ArriveError, End
<1>13. CASE Return
  BY <1>0, <1>2, <1>13 DEF Return
<1>14. CASE UNCHANGED vars
  BY <1>3, <1>14 DEF vars
<1> QED BY <1>1, <1>5, <1>6, <1>7, <1>8, <1>9, <1>10, <1>11, <1>12, <1>13, <1>14 DEF Next

\* A request that is on its way says what the conversation said, every text,
\* call and result once and in order; the two vendors that want turns to
\* alternate get them so, with the system prompt apart (the build_..._body()
\* of the four adapters).
THEOREM RequestsKeepTheConversation == Spec => []ConversationKept
<1>1. Asking => ConversationKept
  <2> SUFFICES ASSUME Asking, body # NoBody, OnlyAssistantsCall(asked)
               PROVE  Keeps(body, protocol, asked)
    BY DEF ConversationKept, Keeps, Apart, Alternate
  <2>1. asked \in Seq(Message)
    BY AssistantsCall DEF Asking
  <2> QED BY <2>1, BodyKeeps DEF Asking
<1> QED BY <1>1, AskingInit, AskingNext, PTL DEF Spec

-----------------------------------------------------------------------------
(* Sequences of sequences that grow.                                       *)

\* Empty sequences come to nothing.
LEMMA FlattenEmpties ==
  ASSUME NEW B, NEW ss \in Seq(Seq(B)), \A k \in 1 .. Len(ss) : ss[k] = <<>>
  PROVE  FlattenSeq(ss) = <<>>
<1> DEFINE n == Len(ss)
           f == [k \in 0 .. n |-> <<>>]
<1>1. n \in Nat /\ <<>> \in Seq(B) /\ <<>> \o <<>> = <<>>
  OBVIOUS
<1>2. f \in [0 .. n -> Seq(B)] /\ \A k \in 0 .. n : f[k] = <<>>
  BY <1>1
<1>3. \A k \in 1 .. n : k \in 0 .. n /\ k - 1 \in 0 .. n
  BY <1>1
<1>4. 0 \in 0 .. n /\ n \in 0 .. n
  BY <1>1
<1> HIDE DEF f
<1>5. \A k \in 1 .. n : f[k] = f[k - 1] \o ss[k]
  BY <1>1, <1>2, <1>3
<1>6. Joins(f, ss, B)
  BY <1>2, <1>4, <1>5 DEF Joins, JoinsTo
<1>7. FlattenSeq(ss) = f[n]
  BY <1>6, FlattenIsLast
<1> QED BY <1>2, <1>4, <1>7

\* One of several sequences grows at its end, and those behind it are empty.
Grows(ss, tt, k, x) ==
  /\ Len(tt) = Len(ss) /\ k \in 1 .. Len(ss)
  /\ tt[k] = ss[k] \o x
  /\ \A j \in 1 .. Len(ss) : j # k => tt[j] = ss[j]
  /\ x # <<>> => \A j \in k + 1 .. Len(ss) : ss[j] = <<>>

LEMMA FlattenGrows ==
  ASSUME NEW B, NEW ss \in Seq(Seq(B)), NEW tt \in Seq(Seq(B)), NEW k, NEW x \in Seq(B),
         Grows(ss, tt, k, x)
  PROVE  FlattenSeq(tt) = FlattenSeq(ss) \o x
<1> DEFINE n == Len(ss)
<1>0. n \in Nat /\ Len(tt) = n /\ k \in 1 .. n /\ \A j \in 1 .. n : ss[j] \in Seq(B) /\ tt[j] \in Seq(B)
  BY DEF Grows
<1>1. /\ tt[k] = ss[k] \o x /\ \A j \in 1 .. n : j # k => tt[j] = ss[j]
      /\ x # <<>> => \A j \in k + 1 .. n : ss[j] = <<>>
  BY DEF Grows
<1>2. CASE x = <<>>
  <2>1. ss[k] \o <<>> = ss[k]
    BY <1>0
  <2>2. \A j \in 1 .. n : tt[j] = ss[j]
    BY <1>1, <1>2, <2>1
  <2>3. tt = ss
    <3>1. Len(tt) = Len(ss) /\ \A j \in 1 .. Len(ss) : tt[j] = ss[j]
      BY <1>0, <2>2
    <3> QED BY <3>1, SeqEqual
  <2>4. FlattenSeq(ss) \in Seq(B)
    BY FlattenMore
  <2> DEFINE z == FlattenSeq(ss)
  <2> HIDE DEF z
  <2>5. z \in Seq(B) => z \o <<>> = z
    OBVIOUS
  <2> QED BY <1>2, <2>3, <2>4, <2>5 DEF z
<1>3. CASE x # <<>>
  <2>1. PICK f : Joins(f, ss, B)
    BY JoinsExist
  <2>2. PICK g : Joins(g, tt, B)
    BY JoinsExist
  <2>3. FlattenSeq(ss) = f[n] /\ FlattenSeq(tt) = g[n]
    BY <1>0, <2>1, <2>2, FlattenIsLast
  <2> HIDE DEF n
  <2>4. f \in [0 .. n -> Seq(B)] /\ f[0] = <<>> /\ \A j \in 1 .. n : f[j] = f[j - 1] \o ss[j]
    BY <2>1 DEF Joins, JoinsTo, n
  <2>5. g[0] = <<>> /\ \A j \in 1 .. n : g[j] = g[j - 1] \o tt[j]
    BY <1>0, <2>2 DEF Joins, JoinsTo
  <2>6. k \in Nat /\ k - 1 \in Nat /\ k - 1 \in 0 .. n /\ \A j \in 1 .. k - 1 : j \in 1 .. n /\ j # k
    BY <1>0
  <2>7. f[k - 1] = g[k - 1]
    <3> DEFINE m == k - 1
    <3>1. \A j \in 1 .. m : j \in 1 .. n /\ ss[j] = tt[j]
      BY <1>1, <2>6
    <3>2. m \in Nat
      BY <2>6
    <3> HIDE DEF m
    <3>3. JoinsTo(f, ss, m) /\ JoinsTo(g, tt, m) /\ SameUpTo(ss, tt, m)
      BY <2>4, <2>5, <3>1 DEF JoinsTo, SameUpTo
    <3>4. f[m] = g[m]
      BY <3>2, <3>3, JoinsAgree
    <3> QED BY <3>4 DEF m
  <2> DEFINE G == {i \in Nat : k + i <= n => g[k + i] = f[k + i] \o x}
  <2>8. 0 \in G
    <3> DEFINE a == f[k - 1]
               b == ss[k]
    <3>1. a \in Seq(B) /\ b \in Seq(B)
      BY <1>0, <2>4, <2>6
    <3>2. f[k] = a \o b /\ g[k] = a \o (b \o x)
      BY <1>0, <1>1, <2>4, <2>5, <2>7
    <3> HIDE DEF a, b
    <3>3. a \o (b \o x) = (a \o b) \o x
      BY <3>1
    <3>4. k + 0 = k
      BY <2>6
    <3> HIDE DEF G
    <3>5. g[k] = f[k] \o x
      BY <3>2, <3>3
    <3> QED BY <3>4, <3>5 DEF G
  <2>9. ASSUME NEW i \in Nat, i \in G PROVE i + 1 \in G
    <3> SUFFICES ASSUME k + (i + 1) <= n PROVE g[k + (i + 1)] = f[k + (i + 1)] \o x
      OBVIOUS
    <3> DEFINE j == k + (i + 1)
    <3>1. /\ j \in 1 .. n /\ j \in k + 1 .. n /\ j - 1 = k + i /\ j # k /\ k + i <= n
          /\ j - 1 \in 0 .. n /\ j \in 0 .. n
      BY <1>0, <2>6
    <3>2. g[j - 1] = f[j - 1] \o x
      BY <2>9, <3>1
    <3> HIDE DEF j, G
    <3>3. ss[j] = <<>> /\ tt[j] = <<>>
      BY <1>1, <1>3, <3>1
    <3> DEFINE a == f[j - 1]
    <3>4. a \in Seq(B)
      BY <2>4, <3>1
    <3>5. f[j] = a \o <<>> /\ g[j] = (a \o x) \o <<>>
      BY <2>4, <2>5, <3>1, <3>2, <3>3
    <3> HIDE DEF a
    <3>6. a \o <<>> = a /\ (a \o x) \o <<>> = a \o x
      BY <3>4
    <3>7. g[j] = f[j] \o x
      BY <3>5, <3>6
    <3> QED BY <3>7 DEF j
  <2> HIDE DEF G
  <2>10. Nat \subseteq G
    BY <2>8, <2>9, Counting
  <2>11. n - k \in Nat /\ k + (n - k) = n /\ n <= n
    BY <1>0, <2>6
  <2>12. n - k \in G
    BY <2>10, <2>11
  <2>13. g[n] = f[n] \o x
    BY <2>11, <2>12 DEF G
  <2> QED BY <2>3, <2>13 DEF n
<1> QED BY <1>2, <1>3

\* All but one of several sequences are empty.
LEMMA FlattenAlone ==
  ASSUME NEW B, NEW tt \in Seq(Seq(B)), NEW k \in 1 .. Len(tt),
         \A j \in 1 .. Len(tt) : j # k => tt[j] = <<>>
  PROVE  FlattenSeq(tt) = tt[k]
<1> DEFINE n == Len(tt)
           ss == [j \in 1 .. n |-> <<>>]
           x == tt[k]
<1>1. n \in Nat /\ x \in Seq(B) /\ <<>> \in Seq(B)
  OBVIOUS
<1>2. ss \in Seq(Seq(B)) /\ Len(ss) = n /\ \A j \in 1 .. n : ss[j] = <<>>
  BY <1>1
<1>3. <<>> \o x = x
  BY <1>1
<1> HIDE DEF ss, x
<1>4. Grows(ss, tt, k, x)
  <2>1. \A j \in k + 1 .. n : j \in 1 .. n
    BY <1>1
  <2> QED BY <1>2, <1>3, <2>1 DEF Grows, x
<1>5. FlattenSeq(tt) = FlattenSeq(ss) \o x
  BY <1>1, <1>2, <1>4, FlattenGrows
<1>6. FlattenSeq(ss) = <<>>
  BY <1>2, FlattenEmpties
<1> QED BY <1>3, <1>5, <1>6 DEF x

\* What stands for the elements, before or after they are put one after the other.
LEMMA MappedOfTwo ==
  ASSUME NEW A, NEW B, NEW g, Sends(g, A, B), NEW a \in Seq(A), NEW b \in Seq(A)
  PROVE  Mapped(g, a \o b) = Mapped(g, a) \o Mapped(g, b)
<1> DEFINE c == a \o b
<1>1. /\ Len(a) \in Nat /\ Len(b) \in Nat /\ c \in Seq(A) /\ Len(c) = Len(a) + Len(b)
      /\ \A i \in 1 .. Len(c) : c[i] = IF i <= Len(a) THEN a[i] ELSE b[i - Len(a)]
  OBVIOUS
<1>2. \A x \in A : g[x] \in B
  BY DEF Sends
<1>3. /\ Mapped(g, a) \in Seq(B) /\ Len(Mapped(g, a)) = Len(a)
      /\ \A i \in 1 .. Len(a) : Mapped(g, a)[i] = g[a[i]]
  BY <1>2 DEF Mapped
<1>4. /\ Mapped(g, b) \in Seq(B) /\ Len(Mapped(g, b)) = Len(b)
      /\ \A i \in 1 .. Len(b) : Mapped(g, b)[i] = g[b[i]]
  BY <1>2 DEF Mapped
<1> HIDE DEF c
<1>5. /\ Mapped(g, c) \in Seq(B) /\ Len(Mapped(g, c)) = Len(c)
      /\ \A i \in 1 .. Len(c) : Mapped(g, c)[i] = g[c[i]]
  BY <1>1, <1>2 DEF Mapped
<1> DEFINE p == Mapped(g, a)
           q == Mapped(g, b)
           d == p \o q
           e == Mapped(g, c)
<1>6. /\ d \in Seq(B) /\ Len(d) = Len(a) + Len(b)
      /\ \A i \in 1 .. Len(d) : d[i] = IF i <= Len(a) THEN p[i] ELSE q[i - Len(a)]
  <2>1. p \in Seq(B) /\ q \in Seq(B) /\ Len(p) = Len(a) /\ Len(q) = Len(b)
    BY <1>3, <1>4
  <2> HIDE DEF p, q
  <2>2. /\ d \in Seq(B) /\ Len(d) = Len(p) + Len(q)
        /\ \A i \in 1 .. Len(p) + Len(q) : d[i] = IF i <= Len(p) THEN p[i] ELSE q[i - Len(p)]
    BY <2>1, ConcatProperties
  <2> HIDE DEF d
  <2> QED BY <2>1, <2>2
<1>7. /\ \A i \in 1 .. Len(a) : p[i] = g[a[i]]
      /\ \A i \in 1 .. Len(b) : q[i] = g[b[i]]
      /\ \A i \in 1 .. Len(c) : e[i] = g[c[i]]
      /\ e \in Seq(B) /\ Len(e) = Len(d)
  BY <1>1, <1>3, <1>4, <1>5, <1>6
<1> HIDE DEF p, q, d, e
<1>8. \A i \in 1 .. Len(d) : d[i] = e[i]
  <2> TAKE i \in 1 .. Len(d)
  <2>0. i \in 1 .. Len(c)
    BY <1>1, <1>6
  <2>1. CASE i <= Len(a)
    <3>1. i \in 1 .. Len(a)
      BY <1>1, <2>0, <2>1
    <3>2. d[i] = p[i] /\ c[i] = a[i]
      BY <1>1, <1>6, <2>0, <2>1
    <3> QED BY <1>7, <2>0, <3>1, <3>2
  <2>2. CASE ~(i <= Len(a))
    <3> DEFINE j == i - Len(a)
    <3>1. j \in 1 .. Len(b)
      BY <1>1, <2>0, <2>2
    <3>2. d[i] = q[j] /\ c[i] = b[j]
      BY <1>1, <1>6, <2>0, <2>2
    <3> HIDE DEF j
    <3> QED BY <1>7, <2>0, <3>1, <3>2
  <2> QED BY <2>1, <2>2
<1>9. d = e
  BY <1>6, <1>7, <1>8, SeqEqual
<1> QED BY <1>9 DEF c, d, e, p, q

LEMMA MappedOfFlatten ==
  ASSUME NEW A, NEW B, NEW g, Sends(g, A, B), NEW ss \in Seq(Seq(A))
  PROVE  Mapped(g, FlattenSeq(ss)) = FlattenSeq([k \in 1 .. Len(ss) |-> Mapped(g, ss[k])])
<1> DEFINE h == [s \in Seq(A) |-> Mapped(g, s)]
           G == {t \in Seq(Seq(A)) : Mapped(g, FlattenSeq(t)) = Each(h, t)}
<1>0. Sends(h, Seq(A), Seq(B)) /\ \A s \in Seq(A) : h[s] = Mapped(g, s)
  <2>1. \A s \in Seq(A) : Mapped(g, s) \in Seq(B)
    BY DEF Mapped, Sends
  <2> QED BY <2>1 DEF Sends
<1>1. <<>> \in G
  <2>1. Mapped(g, <<>>) = <<>> /\ <<>> \in Seq(Seq(A))
    BY DEF Mapped
  <2> QED BY <2>1, FlattenNone, EachNone
<1> HIDE DEF h
<1>2. ASSUME NEW t \in Seq(Seq(A)), NEW x \in Seq(A), t \in G PROVE Append(t, x) \in G
  <2> DEFINE u == FlattenSeq(t)
  <2>1. u \in Seq(A) /\ FlattenSeq(Append(t, x)) = u \o x
    BY FlattenMore
  <2>2. Each(h, Append(t, x)) = Each(h, t) \o h[x]
    BY <1>0, EachMore
  <2>3. Mapped(g, u) = Each(h, t)
    BY <1>2
  <2> HIDE DEF u
  <2>4. Mapped(g, u \o x) = Mapped(g, u) \o Mapped(g, x)
    BY <2>1, MappedOfTwo
  <2>5. Mapped(g, FlattenSeq(Append(t, x))) = Each(h, Append(t, x))
    BY <1>0, <2>1, <2>2, <2>3, <2>4
  <2> QED BY <2>5
<1> HIDE DEF G
<1>3. Seq(Seq(A)) \subseteq G
  BY <1>1, <1>2, Growing
<1>4. Mapped(g, FlattenSeq(ss)) = Each(h, ss)
  BY <1>3 DEF G
<1>5. Mapped(h, ss) = [k \in 1 .. Len(ss) |-> Mapped(g, ss[k])]
  <2>1. \A k \in 1 .. Len(ss) : h[ss[k]] = Mapped(g, ss[k])
    BY <1>0
  <2> QED BY <2>1 DEF Mapped
<1> QED BY <1>4, <1>5 DEF Each

-----------------------------------------------------------------------------
(* What a reader of the stream sees of it.                                 *)

\* What a reader looks for: the texts of a kind and an index, or the calls.
IsView(v) ==
  v.kind \in {"args", "call"} \/ (v.kind \in {"content", "reasoning"} /\ v.index = 0)
See(v, e) ==
  IF v.kind = "call"
    THEN IF e.kind = "call" THEN <<[index |-> e.index, id |-> e.id]>> ELSE <<>>
    ELSE IF e.kind = v.kind /\ e.index = v.index THEN e.text ELSE <<>>
Seen(v, s) == FlattenSeq([i \in 1 .. Len(s) |-> See(v, s[i])])

\* The events of a list have texts.
Texted(s, E, B) == s \in Seq(E) /\ \A e \in E : e.text \in Seq(B)
Legible(s) == \E E, B : Texted(s, E, B)
Sight(v, E) == [e \in E |-> See(v, e)]
Seeable(E, B) == B \union {[index |-> e.index, id |-> e.id] : e \in E}

LEMMA SeenIsEach ==
  ASSUME NEW E, NEW B, NEW s, Texted(s, E, B), NEW v
  PROVE  /\ Sends(Sight(v, E), E, Seq(Seeable(E, B)))
         /\ Seen(v, s) = Each(Sight(v, E), s)
<1> DEFINE f == Sight(v, E)
           C == Seeable(E, B)
<1>1. \A e \in E : See(v, e) \in Seq(C)
  <2> TAKE e \in E
  <2>1. e.text \in Seq(B)
    BY DEF Texted
  <2>2. e.text \in Seq(C)
    BY <2>1 DEF Seeable
  <2>3. <<[index |-> e.index, id |-> e.id]>> \in Seq(C)
    <3>1. [index |-> e.index, id |-> e.id] \in C
      BY DEF Seeable
    <3> DEFINE x == [index |-> e.index, id |-> e.id]
    <3> HIDE DEF x, C
    <3> QED BY <3>1 DEF x
  <2>4. <<>> \in Seq(C)
    OBVIOUS
  <2> HIDE DEF C
  <2> QED BY <2>2, <2>3, <2>4 DEF See
<1>2. Sends(f, E, Seq(C))
  <2> HIDE DEF C
  <2> QED BY <1>1 DEF Sends, Sight
<1>3. \A i \in 1 .. Len(s) : See(v, s[i]) = f[s[i]]
  <2>1. \A i \in 1 .. Len(s) : s[i] \in E
    BY DEF Texted
  <2> QED BY <2>1 DEF Sight
<1>4. [i \in 1 .. Len(s) |-> See(v, s[i])] = Mapped(f, s)
  <2> HIDE DEF f
  <2> QED BY <1>3 DEF Mapped
<1> QED BY <1>2, <1>4 DEF Seen, Each

\* Events one after the other are seen one after the other.
LEMMA SeenOfTwo ==
  ASSUME NEW s, Legible(s), NEW t, Legible(t), NEW v
  PROVE  Legible(s \o t) /\ Seen(v, s \o t) = Seen(v, s) \o Seen(v, t)
<1>1. PICK E1, B1 : Texted(s, E1, B1)
  BY DEF Legible
<1>2. PICK E2, B2 : Texted(t, E2, B2)
  BY DEF Legible
<1> DEFINE E == E1 \union E2
           B == B1 \union B2
<1>3. s \in Seq(E) /\ t \in Seq(E)
  BY <1>1, <1>2 DEF Texted
<1>4. \A e \in E : e.text \in Seq(B)
  <2>1. \A e \in E1 : e.text \in Seq(B)
    BY <1>1 DEF Texted
  <2>2. \A e \in E2 : e.text \in Seq(B)
    BY <1>2 DEF Texted
  <2> QED BY <2>1, <2>2
<1> HIDE DEF E, B
<1>5. s \o t \in Seq(E)
  BY <1>3
<1>6. Texted(s, E, B) /\ Texted(t, E, B) /\ Texted(s \o t, E, B)
  BY <1>3, <1>4, <1>5 DEF Texted
<1> DEFINE f == Sight(v, E)
           C == Seeable(E, B)
<1>7. /\ Sends(f, E, Seq(C)) /\ Seen(v, s) = Each(f, s) /\ Seen(v, t) = Each(f, t)
      /\ Seen(v, s \o t) = Each(f, s \o t)
  BY <1>6, SeenIsEach
<1> HIDE DEF f, C
<1>8. Each(f, s \o t) = Each(f, s) \o Each(f, t)
  BY <1>3, <1>7, EachOfTwo
<1> QED BY <1>6, <1>7, <1>8 DEF Legible

LEMMA SeenOfOne ==
  ASSUME NEW B, NEW e, e.text \in Seq(B), NEW v
  PROVE  Legible(<<e>>) /\ Seen(v, <<e>>) = See(v, e)
<1> DEFINE E == {e}
<1>1. <<e>> \in Seq(E) /\ e \in E
  OBVIOUS
<1>2. \A x \in E : x.text \in Seq(B)
  OBVIOUS
<1> HIDE DEF E
<1>3. Texted(<<e>>, E, B)
  BY <1>1, <1>2 DEF Texted
<1> DEFINE f == Sight(v, E)
           C == Seeable(E, B)
<1>4. f[e] = See(v, e)
  BY <1>1 DEF Sight
<1>5. Sends(f, E, Seq(C)) /\ Seen(v, <<e>>) = Each(f, <<e>>)
  BY <1>3, SeenIsEach
<1> HIDE DEF f, C
<1>6. Each(f, <<e>>) = f[e]
  BY <1>1, <1>5, EachAlone
<1> QED BY <1>3, <1>4, <1>5, <1>6 DEF Legible

LEMMA SeenOfNone ==
  ASSUME NEW v
  PROVE  Legible(<<>>) /\ Seen(v, <<>>) = <<>>
<1>1. Texted(<<>>, {}, {})
  BY DEF Texted
<1>2. [i \in 1 .. Len(<<>>) |-> See(v, <<>>[i])] = <<>>
  OBVIOUS
<1> QED BY <1>1, <1>2, FlattenNone DEF Legible, Seen

-----------------------------------------------------------------------------
(* The text that the first frames of a block carry.                        *)

\* The index and the name under which the call of block k is announced.
NumberOf(k) == IF protocol = "anthropic" THEN k - 1 ELSE CallsBefore(k)
NameOf(k) == IF protocol = "gemini" THEN GeminiCallId(CallsBefore(k)) ELSE BlockAt(k).id
Entry(k) == [index |-> NumberOf(k), id |-> NameOf(k)]

\* A call that comes in one frame; of the other blocks the frames before the
\* first piece, and the frames in all.
AtOnce(k) == protocol = "gemini" /\ BlockAt(k).kind = "call"
Lead(k) ==
  IF protocol \in {"responses", "anthropic"} \/ (protocol = "openai" /\ BlockAt(k).kind = "call")
    THEN 1 ELSE 0
Pieced(k) == Len(BlockAt(k).pieces)
Framing(k) ==
  IF AtOnce(k) THEN 1 ELSE Lead(k) + Pieced(k) + (IF protocol = "anthropic" THEN 1 ELSE 0)

\* The text of the n-th frame, and of the first n.
TextAt(k, n) ==
  IF AtOnce(k) THEN BlockAt(k).pieces
  ELSE IF Lead(k) < n /\ n <= Lead(k) + Pieced(k) THEN <<BlockAt(k).pieces[n - Lead(k)]>> ELSE <<>>
PiecesIn(k, n) ==
  IF AtOnce(k) THEN (IF n = 0 THEN 0 ELSE Pieced(k))
  ELSE IF n <= Lead(k) THEN 0 ELSE IF n <= Lead(k) + Pieced(k) THEN n - Lead(k) ELSE Pieced(k)
Pre(k, n) == SubSeq(BlockAt(k).pieces, 1, PiecesIn(k, n))

LEMMA FrameTexts ==
  ASSUME NEW t, NEW d, NEW i, NEW p, NEW b
  PROVE  /\ Piece(t, d, i, p).text = <<p>>
         /\ Announced(t, i, b).text = <<>> /\ Announced(t, i, b).id = b.id
         /\ Frame(t).text = <<>>
BY DEF Piece, Announced, Frame

LEMMA PieceTexts ==
  ASSUME NEW t, NEW d, NEW i, NEW b
  PROVE  \A n \in 1 .. Len(b.pieces) : Pieces(t, d, i, b)[n].text = <<b.pieces[n]>>
<1>1. \A n \in 1 .. Len(b.pieces) : Pieces(t, d, i, b)[n] = Piece(t, d, i, b.pieces[n])
  BY DEF Pieces
<1> QED BY <1>1, FrameTexts

\* Frames that carry the pieces, behind a frame and between two.
Headed(all, f, t, d, i, b) == all = <<f>> \o Pieces(t, d, i, b)
Enclosed(all, f, t, d, i, b, g) == all = <<f>> \o Pieces(t, d, i, b) \o <<g>>
Carried(all, b) == \A n \in 2 .. Len(b.pieces) + 1 : all[n].text = <<b.pieces[n - 1]>>

LEMMA TextsBehind ==
  ASSUME NEW f, NEW t, NEW d, NEW i, NEW b \in Block,
         NEW all, Headed(all, f, t, d, i, b)
  PROVE  /\ Len(all) = Len(b.pieces) + 1 /\ all[1] = f
         /\ Carried(all, b)
<1> DEFINE list == Pieces(t, d, i, b)
           m == Len(b.pieces)
<1>1. PICK S : list \in Seq(S)
  BY PieceFrames
<1>2. Len(list) = m /\ m \in Nat /\ \A n \in 1 .. m : list[n].text = <<b.pieces[n]>>
  BY PieceFrames, PieceTexts DEF Block
<1>0. all = <<f>> \o list
  BY DEF Headed
<1> HIDE DEF list
<1>3. /\ Len(all) = Len(list) + 1
      /\ \A n \in 1 .. Len(list) + 1 : all[n] = IF n = 1 THEN f ELSE list[n - 1]
  BY <1>0, <1>1, Behind
<1> HIDE DEF m
<1>4. \A n \in 2 .. m + 1 : n \in 1 .. m + 1 /\ n # 1 /\ n - 1 \in 1 .. m
  BY <1>2
<1>5. 1 \in 1 .. m + 1
  BY <1>2
<1> QED BY <1>2, <1>3, <1>4, <1>5 DEF m, Carried

LEMMA TextsBetween ==
  ASSUME NEW f, NEW t, NEW d, NEW i, NEW b \in Block, NEW g,
         NEW all, Enclosed(all, f, t, d, i, b, g)
  PROVE  /\ Len(all) = Len(b.pieces) + 2 /\ all[1] = f /\ all[Len(b.pieces) + 2] = g
         /\ Carried(all, b)
<1> DEFINE list == Pieces(t, d, i, b)
           m == Len(b.pieces)
<1>1. PICK S : list \in Seq(S)
  BY PieceFrames
<1>2. Len(list) = m /\ m \in Nat /\ \A n \in 1 .. m : list[n].text = <<b.pieces[n]>>
  BY PieceFrames, PieceTexts DEF Block
<1>0. all = <<f>> \o list \o <<g>>
  BY DEF Enclosed
<1> HIDE DEF list
<1>3. /\ Len(all) = Len(list) + 2
      /\ \A n \in 1 .. Len(list) + 2 :
           all[n] = IF n = 1 THEN f ELSE IF n < Len(list) + 2 THEN list[n - 1] ELSE g
  BY <1>0, <1>1, Between
<1> HIDE DEF m
<1>4. \A n \in 2 .. m + 1 : n \in 1 .. m + 2 /\ n # 1 /\ n < m + 2 /\ n - 1 \in 1 .. m
  BY <1>2
<1>5. 1 \in 1 .. m + 2 /\ m + 2 \in 1 .. m + 2 /\ m + 2 # 1 /\ ~(m + 2 < m + 2)
  BY <1>2
<1> QED BY <1>2, <1>3, <1>4, <1>5 DEF m, Carried

LEMMA BlockText ==
  ASSUME answer \in AnswerType, protocol \in Protocol, NEW k, InBlocks(k)
  PROVE  /\ Len(FramesOf(k)) = Framing(k)
         /\ \A n \in 1 .. Len(FramesOf(k)) : Sent(k, n).text = TextAt(k, n)
         /\ BlockAt(k).kind = "call" => Sent(k, 1).id = BlockAt(k).id
<1> DEFINE b == BlockAt(k)
           m == Len(b.pieces)
<1>1. /\ k \in Nat \ {0} /\ b \in Block /\ b.kind \in {"text", "think", "call"}
      /\ m \in Nat /\ FramesOf(k) = BlockFrames(k)
  BY PartsOfAnswer
<1>2. \A n : Sent(k, n) = BlockFrames(k)[n]
  BY <1>1 DEF Sent
<1>3. Pieced(k) = m
  BY DEF Pieced
<1>4. ASSUME NEW f, f.text = <<>>, f.id = b.id, NEW t, NEW d, NEW i,
             BlockFrames(k) = <<f>> \o Pieces(t, d, i, b), Lead(k) = 1,
             protocol # "anthropic", ~AtOnce(k)
      PROVE  /\ Len(FramesOf(k)) = Framing(k)
             /\ \A n \in 1 .. Len(FramesOf(k)) : Sent(k, n).text = TextAt(k, n)
             /\ Sent(k, 1).id = b.id
  <2> DEFINE all == <<f>> \o Pieces(t, d, i, b)
  <2>1. /\ Len(all) = m + 1 /\ all[1] = f
        /\ \A n \in 2 .. m + 1 : all[n].text = <<b.pieces[n - 1]>>
    <3> HIDE DEF b
    <3>1. Headed(all, f, t, d, i, b)
      BY DEF Headed
    <3>2. b \in Block /\ m = Len(b.pieces)
      BY <1>1
    <3> HIDE DEF all, m
    <3>3. /\ Len(all) = Len(b.pieces) + 1 /\ all[1] = f
          /\ Carried(all, b)
      BY <3>1, <3>2, TextsBehind
    <3> QED BY <3>2, <3>3 DEF Carried
  <2>2. FramesOf(k) = all /\ \A n : Sent(k, n) = all[n]
    BY <1>1, <1>2, <1>4
  <2> HIDE DEF all
  <2>3. Framing(k) = m + 1
    BY <1>1, <1>3, <1>4 DEF Framing
  <2>4. ASSUME NEW n \in 1 .. m + 1 PROVE Sent(k, n).text = TextAt(k, n)
    <3>1. CASE n = 1
      BY <1>4, <2>1, <2>2, <3>1 DEF TextAt
    <3>2. CASE n # 1
      <4>1. n \in 2 .. m + 1 /\ 1 < n /\ n <= 1 + m
        BY <1>1, <3>2
      <4>2. TextAt(k, n) = <<b.pieces[n - 1]>>
        BY <1>3, <1>4, <4>1 DEF TextAt
      <4> QED BY <2>1, <2>2, <4>1, <4>2
    <3> QED BY <3>1, <3>2
  <2> QED BY <1>4, <2>1, <2>2, <2>3, <2>4
<1>5. ASSUME NEW t, NEW d, NEW i, BlockFrames(k) = Pieces(t, d, i, b), Lead(k) = 0,
             protocol # "anthropic", b.kind # "call"
      PROVE  /\ Len(FramesOf(k)) = Framing(k)
             /\ \A n \in 1 .. Len(FramesOf(k)) : Sent(k, n).text = TextAt(k, n)
  <2>1. /\ Len(FramesOf(k)) = m
        /\ \A n \in 1 .. m : Sent(k, n).text = <<b.pieces[n]>>
    BY <1>1, <1>2, <1>5, PieceFrames, PieceTexts
  <2>2. Framing(k) = m /\ ~AtOnce(k)
    BY <1>1, <1>3, <1>5 DEF Framing, AtOnce
  <2>3. \A n \in 1 .. m : TextAt(k, n) = <<b.pieces[n]>>
    <3> TAKE n \in 1 .. m
    <3>1. 0 < n /\ n <= 0 + m /\ n - 0 = n
      BY <1>1
    <3> QED BY <1>3, <1>5, <2>2, <3>1 DEF TextAt
  <2> QED BY <2>1, <2>2, <2>3
<1>6. CASE protocol = "openai" /\ b.kind = "call"
  <2> DEFINE f == Announced("chunk", CallsBefore(k), b)
             t == IF answer.typed THEN "chunk" ELSE "untyped"
  <2>1. BlockFrames(k) = <<f>> \o Pieces(t, "args", CallsBefore(k), b)
    BY <1>6 DEF BlockFrames, BlockAt
  <2>2. Lead(k) = 1 /\ ~AtOnce(k)
    BY <1>6 DEF Lead, AtOnce
  <2>3. f.text = <<>> /\ f.id = b.id
    BY FrameTexts
  <2> HIDE DEF f, t
  <2> QED BY <1>4, <1>6, <2>1, <2>2, <2>3
<1>7. CASE protocol = "openai" /\ b.kind # "call"
  <2>1. BlockFrames(k) = Pieces("chunk", b.kind, 0, b)
    BY <1>7 DEF BlockFrames, BlockAt
  <2>2. Lead(k) = 0
    BY <1>7 DEF Lead
  <2> QED BY <1>5, <1>7, <2>1, <2>2
<1>8. CASE protocol = "responses"
  <2> DEFINE t == [text |-> "response.output_text.delta",
                   think |-> "response.reasoning_summary_text.delta",
                   call |-> "response.function_call_arguments.delta"][b.kind]
             d == IF b.kind = "call" THEN "args" ELSE b.kind
             f == Announced("response.output_item.added", k - 1, b)
  <2>1. BlockFrames(k) = <<f>> \o Pieces(t, d, k - 1, b)
    BY <1>8 DEF BlockFrames, BlockAt
  <2>2. Lead(k) = 1 /\ ~AtOnce(k)
    BY <1>8 DEF Lead, AtOnce
  <2>3. f.text = <<>> /\ f.id = b.id
    BY FrameTexts
  <2> HIDE DEF f, t, d
  <2> QED BY <1>4, <1>8, <2>1, <2>2, <2>3
<1>9. CASE protocol = "anthropic"
  <2> DEFINE d == IF b.kind = "call" THEN "args" ELSE b.kind
             t == "content_block_delta"
             i == k - 1
             f == Announced("content_block_start", k - 1, b)
             g == Frame("content_block_stop")
             all == <<f>> \o Pieces(t, d, i, b) \o <<g>>
  <2>1. BlockFrames(k) = all
    BY <1>9 DEF BlockFrames, BlockAt
  <2>2. Lead(k) = 1 /\ ~AtOnce(k)
    BY <1>9 DEF Lead, AtOnce
  <2>3. f.text = <<>> /\ f.id = b.id /\ g.text = <<>>
    BY FrameTexts
  <2>4. /\ Len(all) = m + 2 /\ all[1] = f /\ all[m + 2] = g
        /\ \A n \in 2 .. m + 1 : all[n].text = <<b.pieces[n - 1]>>
    <3> HIDE DEF b, f, g, d, t, i
    <3>1. Enclosed(all, f, t, d, i, b, g)
      BY DEF Enclosed
    <3>2. b \in Block /\ m = Len(b.pieces)
      BY <1>1
    <3> HIDE DEF all, m
    <3>3. /\ Len(all) = Len(b.pieces) + 2 /\ all[1] = f /\ all[Len(b.pieces) + 2] = g
          /\ Carried(all, b)
      BY <3>1, <3>2, TextsBetween
    <3> QED BY <3>2, <3>3 DEF Carried
  <2> HIDE DEF f, g, d, t, i, all
  <2>5. FramesOf(k) = all /\ \A n : Sent(k, n) = all[n]
    BY <1>1, <1>2, <2>1
  <2>6. Framing(k) = m + 2
    BY <1>1, <1>3, <1>9, <2>2 DEF Framing
  <2>7. ASSUME NEW n \in 1 .. m + 2 PROVE Sent(k, n).text = TextAt(k, n)
    <3>1. CASE n = 1
      BY <2>2, <2>3, <2>4, <2>5, <3>1 DEF TextAt
    <3>2. CASE n # 1 /\ n # m + 2
      <4>1. n \in 2 .. m + 1 /\ 1 < n /\ n <= 1 + m
        BY <1>1, <3>2
      <4>2. TextAt(k, n) = <<b.pieces[n - 1]>>
        BY <1>3, <2>2, <4>1 DEF TextAt
      <4> QED BY <2>4, <2>5, <4>1, <4>2
    <3>3. CASE n = m + 2
      <4>1. ~(n <= 1 + m)
        BY <1>1, <3>3
      <4>2. TextAt(k, n) = <<>>
        BY <1>3, <2>2, <4>1 DEF TextAt
      <4> QED BY <2>3, <2>4, <2>5, <3>3, <4>2
    <3> QED BY <3>1, <3>2, <3>3
  <2> QED BY <2>3, <2>4, <2>5, <2>6, <2>7
<1>10. CASE protocol = "gemini" /\ b.kind = "call"
  <2> DEFINE f == [Announced("chunk", 0, b) EXCEPT !.text = b.pieces]
  <2>1. BlockFrames(k) = <<f>>
    BY <1>10 DEF BlockFrames, BlockAt
  <2>2. f.text = b.pieces /\ f.id = b.id
    BY DEF Announced, Frame
  <2> HIDE DEF f
  <2>3. Len(FramesOf(k)) = 1 /\ Sent(k, 1) = f
    BY <1>1, <1>2, <2>1
  <2>4. AtOnce(k)
    BY <1>10 DEF AtOnce
  <2>5. Framing(k) = 1 /\ TextAt(k, 1) = b.pieces
    BY <2>4 DEF Framing, TextAt
  <2>6. \A n \in 1 .. 1 : n = 1
    OBVIOUS
  <2> QED BY <2>2, <2>3, <2>5, <2>6
<1>11. CASE protocol = "gemini" /\ b.kind # "call"
  <2>1. BlockFrames(k) = Pieces("chunk", b.kind, 0, b)
    BY <1>11 DEF BlockFrames, BlockAt
  <2>2. Lead(k) = 0
    BY <1>11 DEF Lead
  <2> QED BY <1>5, <1>11, <2>1, <2>2
<1> QED BY <1>6, <1>7, <1>8, <1>9, <1>10, <1>11 DEF Protocol

\* The first elements of a sequence.
LEMMA FirstOnes ==
  ASSUME NEW S, NEW s \in Seq(S)
  PROVE  /\ SubSeq(s, 1, 0) = <<>> /\ SubSeq(s, 1, Len(s)) = s
         /\ \A j \in 1 .. Len(s) : SubSeq(s, 1, j) = SubSeq(s, 1, j - 1) \o <<s[j]>>
         /\ \A j \in 0 .. Len(s) : SubSeq(s, 1, j) \in Seq(S)
  OBVIOUS

LEMMA TextGrows ==
  ASSUME answer \in AnswerType, protocol \in Protocol, NEW k, InBlocks(k)
  PROVE  /\ Pre(k, 0) = <<>> /\ Pre(k, Framing(k)) = BlockAt(k).pieces
         /\ \A n \in 0 .. Framing(k) : Pre(k, n) \in Seq(STRING)
         /\ \A n \in 1 .. Framing(k) : /\ TextAt(k, n) \in Seq(STRING)
                                       /\ Pre(k, n) = Pre(k, n - 1) \o TextAt(k, n)
<1> DEFINE p == BlockAt(k).pieces
           m == Pieced(k)
<1>1. p \in Seq(STRING) /\ m = Len(p) /\ m \in Nat
  BY PartsOfAnswer DEF Pieced
<1> HIDE DEF p, m
<1>2. /\ SubSeq(p, 1, 0) = <<>> /\ SubSeq(p, 1, m) = p
      /\ \A j \in 1 .. m : SubSeq(p, 1, j) = SubSeq(p, 1, j - 1) \o <<p[j]>>
      /\ \A j \in 0 .. m : SubSeq(p, 1, j) \in Seq(STRING)
  BY <1>1, FirstOnes
<1>3. \A n : Pre(k, n) = SubSeq(p, 1, PiecesIn(k, n))
  BY DEF Pre, p
<1>4. \A j \in 1 .. m : <<p[j]>> \in Seq(STRING)
  BY <1>1
<1>5. Lead(k) \in {0, 1}
  BY DEF Lead
<1>6. CASE AtOnce(k)
  <2>1. Framing(k) = 1 /\ PiecesIn(k, 0) = 0 /\ PiecesIn(k, 1) = m /\ TextAt(k, 1) = p
    BY <1>6 DEF Framing, PiecesIn, TextAt, p, m
  <2>2. \A n \in 0 .. 1 : n = 0 \/ n = 1
    OBVIOUS
  <2>3. <<>> \o p = p /\ 0 \in 0 .. m /\ m \in 0 .. m
    BY <1>1
  <2>4. Pre(k, 0) = <<>> /\ Pre(k, 1) = p
    BY <1>2, <1>3, <2>1
  <2>5. \A n \in 1 .. 1 : n = 1
    OBVIOUS
  <2>6. <<>> \in Seq(STRING)
    OBVIOUS
  <2>7. \A n \in 0 .. 1 : Pre(k, n) \in Seq(STRING)
    BY <1>1, <2>2, <2>4, <2>6
  <2>8. \A n \in 1 .. 1 : TextAt(k, n) \in Seq(STRING) /\ Pre(k, n) = Pre(k, n - 1) \o TextAt(k, n)
    <3>1. TextAt(k, 1) \in Seq(STRING) /\ Pre(k, 1) = Pre(k, 1 - 1) \o TextAt(k, 1)
      BY <1>1, <2>1, <2>3, <2>4
    <3> QED BY <2>5, <3>1
  <2> QED BY <2>1, <2>4, <2>7, <2>8 DEF p
<1>7. CASE ~AtOnce(k)
  <2> DEFINE l == Lead(k)
             z == Framing(k)
  <2>1. z \in Nat /\ z >= l + m
    BY <1>1, <1>5, <1>7 DEF Framing, m
  <2>2. \A n : PiecesIn(k, n) = IF n <= l THEN 0 ELSE IF n <= l + m THEN n - l ELSE m
    BY <1>7 DEF PiecesIn, m
  <2>3. \A n : TextAt(k, n) = IF l < n /\ n <= l + m THEN <<p[n - l]>> ELSE <<>>
    BY <1>7 DEF TextAt, p, m
  <2>4. l \in {0, 1}
    BY <1>5
  <2> HIDE DEF l, z
  <2>5. PiecesIn(k, 0) = 0 /\ PiecesIn(k, z) = m
    BY <1>1, <2>1, <2>2, <2>4
  <2>6. \A n \in 0 .. z : PiecesIn(k, n) \in 0 .. m
    BY <1>1, <2>1, <2>2, <2>4
  <2>7. ASSUME NEW n \in 1 .. z
        PROVE  TextAt(k, n) \in Seq(STRING) /\ Pre(k, n) = Pre(k, n - 1) \o TextAt(k, n)
    <3>1. CASE l < n /\ n <= l + m
      <4>1. n - l \in 1 .. m /\ PiecesIn(k, n) = n - l /\ PiecesIn(k, n - 1) = (n - l) - 1
        BY <1>1, <2>1, <2>2, <2>4, <3>1
      <4>2. TextAt(k, n) = <<p[n - l]>>
        BY <2>3, <3>1
      <4> QED BY <1>2, <1>3, <1>4, <4>1, <4>2
    <3>2. CASE ~(l < n /\ n <= l + m)
      <4>1. PiecesIn(k, n) = PiecesIn(k, n - 1) /\ n - 1 \in 0 .. z
        BY <1>1, <2>1, <2>2, <2>4, <3>2
      <4>2. TextAt(k, n) = <<>>
        BY <2>3, <3>2
      <4>3. Pre(k, n - 1) \in Seq(STRING)
        BY <1>2, <1>3, <2>6, <4>1
      <4> DEFINE a == Pre(k, n - 1)
      <4>4. a \o <<>> = a
        BY <4>3
      <4>5. <<>> \in Seq(STRING)
        OBVIOUS
      <4>6. Pre(k, n) = a
        BY <1>3, <4>1
      <4> HIDE DEF a
      <4> QED BY <4>2, <4>4, <4>5, <4>6 DEF a
    <3> QED BY <3>1, <3>2
  <2> QED BY <1>2, <1>3, <2>5, <2>6, <2>7 DEF z, p
<1> QED BY <1>6, <1>7

-----------------------------------------------------------------------------
(* What the frames of a block add to a view.                               *)

\* Block k in a view: whether it is text of it, what n of its frames show there
\* and what the n-th adds.
Tells(v, k) ==
  \/ v.kind = "content" /\ BlockAt(k).kind = "text"
  \/ v.kind = "reasoning" /\ BlockAt(k).kind = "think"
  \/ v.kind = "args" /\ BlockAt(k).kind = "call" /\ v.index = NumberOf(k)
To(v, k, n) ==
  IF v.kind = "call"
    THEN IF BlockAt(k).kind = "call" /\ n > 0 THEN <<Entry(k)>> ELSE <<>>
    ELSE IF Tells(v, k) THEN Pre(k, n) ELSE <<>>
Adds(v, k, n) ==
  IF v.kind = "call"
    THEN IF BlockAt(k).kind = "call" /\ n = 1 THEN <<Entry(k)>> ELSE <<>>
    ELSE IF Tells(v, k) THEN TextAt(k, n) ELSE <<>>
Shows == STRING \union {Entry(k) : k \in 1 .. Ending - 1}

LEMMA FramingOfCall ==
  ASSUME answer \in AnswerType, protocol \in Protocol, NEW k, InBlocks(k)
  PROVE  Framing(k) \in Nat /\ (BlockAt(k).kind = "call" => Framing(k) > 0)
<1>1. Pieced(k) \in Nat
  BY PartsOfAnswer DEF Pieced
<1>2. Lead(k) \in {0, 1}
  BY DEF Lead
<1>3. BlockAt(k).kind = "call" => AtOnce(k) \/ Lead(k) = 1
  BY DEF AtOnce, Lead, Protocol
<1> QED BY <1>1, <1>2, <1>3 DEF Framing

LEMMA ShowsGrow ==
  ASSUME answer \in AnswerType, protocol \in Protocol, NEW k, InBlocks(k), NEW v
  PROVE  /\ To(v, k, 0) = <<>>
         /\ \A n \in 0 .. Framing(k) : To(v, k, n) \in Seq(Shows)
         /\ \A n \in 1 .. Framing(k) : /\ Adds(v, k, n) \in Seq(Shows)
                                       /\ To(v, k, n) = To(v, k, n - 1) \o Adds(v, k, n)
<1>1. /\ Pre(k, 0) = <<>>
      /\ \A n \in 0 .. Framing(k) : Pre(k, n) \in Seq(STRING)
      /\ \A n \in 1 .. Framing(k) : /\ TextAt(k, n) \in Seq(STRING)
                                    /\ Pre(k, n) = Pre(k, n - 1) \o TextAt(k, n)
  BY TextGrows
<1>2. Framing(k) \in Nat
  BY FramingOfCall
<1>3. \A s \in Seq(STRING) : s \in Seq(Shows)
  BY DEF Shows
<1>4. Entry(k) \in Shows
  BY DEF Shows, InBlocks
<1> DEFINE x == Entry(k)
           z == Framing(k)
           B == Shows
<1> HIDE DEF x, z, B
<1>5. <<x>> \in Seq(B) /\ <<>> \in Seq(B) /\ <<>> \o <<x>> = <<x>> /\ <<x>> \o <<>> = <<x>>
      /\ <<>> \o <<>> = <<>>
  BY <1>4 DEF x, B
<1>6. CASE v.kind = "call" /\ BlockAt(k).kind = "call"
  <2>1. \A n : /\ To(v, k, n) = IF n > 0 THEN <<x>> ELSE <<>>
               /\ Adds(v, k, n) = IF n = 1 THEN <<x>> ELSE <<>>
    BY <1>6 DEF To, Adds, x
  <2>2. \A n \in 1 .. z : To(v, k, n) = To(v, k, n - 1) \o Adds(v, k, n)
    <3> TAKE n \in 1 .. z
    <3>1. CASE n = 1
      BY <1>5, <2>1, <3>1
    <3>2. CASE n # 1
      <4>1. n > 0 /\ n - 1 > 0
        BY <1>2, <3>2 DEF z
      <4> QED BY <1>5, <2>1, <3>2, <4>1
    <3> QED BY <3>1, <3>2
  <2>3. To(v, k, 0) = <<>>
    BY <2>1
  <2>4. \A n \in 0 .. z : To(v, k, n) \in Seq(B)
    BY <1>5, <2>1
  <2>5. \A n \in 1 .. z : Adds(v, k, n) \in Seq(B)
    BY <1>5, <2>1
  <2> QED BY <2>2, <2>3, <2>4, <2>5 DEF z, B
<1>7. CASE v.kind = "call" /\ BlockAt(k).kind # "call"
  <2>1. \A n : To(v, k, n) = <<>> /\ Adds(v, k, n) = <<>>
    BY <1>7 DEF To, Adds
  <2> QED BY <1>5, <2>1 DEF B
<1>8. CASE v.kind # "call" /\ Tells(v, k)
  <2>1. \A n : To(v, k, n) = Pre(k, n) /\ Adds(v, k, n) = TextAt(k, n)
    BY <1>8 DEF To, Adds
  <2> QED BY <1>1, <1>3, <2>1
<1>9. CASE v.kind # "call" /\ ~Tells(v, k)
  <2>1. \A n : To(v, k, n) = <<>> /\ Adds(v, k, n) = <<>>
    BY <1>9 DEF To, Adds
  <2> QED BY <1>5, <2>1 DEF B
<1> QED BY <1>6, <1>7, <1>8, <1>9

\* Events in which no view sees anything.
Quiet(s) == Legible(s) /\ \A v : IsView(v) => Seen(v, s) = <<>>
\* Events in which a view sees x.
Puts(s, v, x) == Legible(s) /\ Seen(v, s) = x

LEMMA QuietNone == Quiet(<<>>)
BY SeenOfNone DEF Quiet

LEMMA QuietOne ==
  ASSUME NEW e, e.text = <<>>, e.kind \notin {"content", "reasoning", "args", "call"}
  PROVE  Quiet(<<e>>)
<1>1. e.text \in Seq({})
  OBVIOUS
<1>2. \A v : IsView(v) => See(v, e) = <<>>
  BY DEF IsView, See
<1> QED BY <1>1, <1>2, SeenOfOne DEF Quiet

LEMMA QuietEvents ==
  /\ \A kind \in {"started", "error"} : Quiet(<<Event(kind)>>)
  /\ \A b : Quiet(StartedUnless(b))
  /\ \A u : Quiet(UsageUpdated(u))
<1>1. \A kind : Event(kind).kind = kind /\ Event(kind).text = <<>>
  BY DEF Event
<1>2. \A kind \in {"started", "error"} : Quiet(<<Event(kind)>>)
  <2> TAKE kind \in {"started", "error"}
  <2> DEFINE e == Event(kind)
  <2>1. e.text = <<>> /\ e.kind \notin {"content", "reasoning", "args", "call"}
    BY <1>1
  <2> HIDE DEF e
  <2>2. Quiet(<<e>>)
    BY <2>1, QuietOne
  <2> QED BY <2>2 DEF e
<1>3. \A b : Quiet(StartedUnless(b))
  BY <1>2, QuietNone DEF StartedUnless
<1>4. \A u : Quiet(UsageUpdated(u))
  <2> TAKE u
  <2> DEFINE e == [Event("usage") EXCEPT !.usage = u]
  <2>1. e.text = <<>> /\ e.kind = "usage"
    BY DEF Event
  <2>2. UsageUpdated(u) = <<>> \/ UsageUpdated(u) = <<e>>
    BY DEF UsageUpdated
  <2> HIDE DEF e
  <2>3. Quiet(<<e>>)
    BY <2>1, QuietOne
  <2> QED BY <2>2, <2>3, QuietNone
<1> QED BY <1>2, <1>3, <1>4

LEMMA QuietTwo ==
  ASSUME NEW s, Quiet(s), NEW t, Quiet(t)
  PROVE  Quiet(s \o t)
<1>1. Legible(s \o t) /\ \A v : Seen(v, s \o t) = Seen(v, s) \o Seen(v, t)
  BY SeenOfTwo DEF Quiet
<1>2. \A v : IsView(v) => Seen(v, s) = <<>> /\ Seen(v, t) = <<>>
  BY DEF Quiet
<1>3. <<>> \o <<>> = <<>>
  OBVIOUS
<1> QED BY <1>1, <1>2, <1>3 DEF Quiet

LEMMA PutsAmong ==
  ASSUME NEW v, IsView(v), NEW s, Quiet(s), NEW t, NEW B, NEW x \in Seq(B), Puts(t, v, x),
         NEW u, Quiet(u)
  PROVE  Puts(s \o t \o u, v, x) /\ Puts(s \o t, v, x)
<1>1. Legible(s) /\ Legible(t) /\ Legible(u)
      /\ Seen(v, s) = <<>> /\ Seen(v, t) = x /\ Seen(v, u) = <<>>
  BY DEF Quiet, Puts
<1> DEFINE h == s \o t
<1>2. Legible(h) /\ Seen(v, h) = <<>> \o x
  <2>1. Legible(s \o t) /\ Seen(v, s \o t) = Seen(v, s) \o Seen(v, t)
    BY <1>1, SeenOfTwo
  <2> QED BY <1>1, <2>1
<1>3. <<>> \o x = x /\ x \o <<>> = x
  OBVIOUS
<1> HIDE DEF h
<1>4. Legible(h \o u) /\ Seen(v, h \o u) = x \o <<>>
  BY <1>1, <1>2, <1>3, SeenOfTwo
<1> QED BY <1>2, <1>3, <1>4 DEF Puts, h

\* What a piece, and what an announcement shows.
LEMMA DeltaPuts ==
  ASSUME NEW v, NEW B, NEW text \in Seq(B), NEW kind \in {"content", "reasoning", "args"}, NEW i
  PROVE  Puts(Delta(kind, i, text), v,
              IF v.kind # "call" /\ v.kind = kind /\ v.index = i THEN text ELSE <<>>)
<1> DEFINE e == [Event(kind) EXCEPT !.index = i, !.text = text]
<1>1. Delta(kind, i, text) = <<e>>
  BY DEF Delta
<1>2. e.kind = kind /\ e.index = i /\ e.text = text
  BY DEF Event
<1> HIDE DEF e
<1>3. Legible(<<e>>) /\ Seen(v, <<e>>) = See(v, e)
  BY <1>2, SeenOfOne
<1>4. See(v, e) = IF v.kind # "call" /\ v.kind = kind /\ v.index = i THEN text ELSE <<>>
  BY <1>2 DEF See
<1> QED BY <1>1, <1>3, <1>4 DEF Puts

LEMMA CallPuts ==
  ASSUME NEW v, IsView(v), NEW i, NEW id
  PROVE  Puts(CallStarted(i, id), v,
              IF v.kind = "call" THEN <<[index |-> i, id |-> id]>> ELSE <<>>)
<1> DEFINE e == [Event("call") EXCEPT !.index = i, !.id = id]
<1>1. CallStarted(i, id) = <<e>>
  BY DEF CallStarted
<1>2. e.kind = "call" /\ e.index = i /\ e.id = id /\ e.text = <<>>
  BY DEF Event
<1> HIDE DEF e
<1>3. e.text \in Seq({})
  BY <1>2
<1>4. Legible(<<e>>) /\ Seen(v, <<e>>) = See(v, e)
  BY <1>3, SeenOfOne
<1>5. See(v, e) = IF v.kind = "call" THEN <<[index |-> i, id |-> id]>> ELSE <<>>
  BY <1>2 DEF See
<1> QED BY <1>1, <1>4, <1>5 DEF Puts

\* A frame of a block adds its text to the block's view, and an announcement
\* its entry to the calls.
Sort(k) == CASE BlockAt(k).kind = "text" -> "content" [] BlockAt(k).kind = "think" -> "reasoning"
             [] OTHER -> "args"
Slot(k) == IF BlockAt(k).kind = "call" THEN NumberOf(k) ELSE 0

LEMMA PieceAdds ==
  ASSUME answer \in AnswerType, protocol \in Protocol, NEW k, InBlocks(k), NEW v, IsView(v),
         NEW n \in 1 .. Framing(k), BlockAt(k).kind = "call" => n # 1
  PROVE  Puts(Delta(Sort(k), Slot(k), TextAt(k, n)), v, Adds(v, k, n))
<1>1. BlockAt(k).kind \in {"text", "think", "call"}
  BY PartsOfAnswer
<1>2. Sort(k) \in {"content", "reasoning", "args"}
  BY <1>1 DEF Sort
<1>3. TextAt(k, n) \in Seq(STRING)
  BY TextGrows
<1>4. Puts(Delta(Sort(k), Slot(k), TextAt(k, n)), v,
           IF v.kind # "call" /\ v.kind = Sort(k) /\ v.index = Slot(k) THEN TextAt(k, n) ELSE <<>>)
  BY <1>2, <1>3, DeltaPuts
<1>5. v.kind # "call" => (Tells(v, k) <=> v.kind = Sort(k) /\ v.index = Slot(k))
  BY <1>1 DEF Tells, Sort, Slot, IsView
<1>6. Adds(v, k, n) = IF v.kind # "call" /\ v.kind = Sort(k) /\ v.index = Slot(k)
                        THEN TextAt(k, n) ELSE <<>>
  BY <1>5 DEF Adds
<1> QED BY <1>4, <1>6

LEMMA AnnouncementAdds ==
  ASSUME answer \in AnswerType, protocol \in Protocol, NEW k, InBlocks(k), NEW v, IsView(v),
         BlockAt(k).kind = "call", TextAt(k, 1) = <<>>
  PROVE  Puts(CallStarted(NumberOf(k), NameOf(k)), v, Adds(v, k, 1))
<1>1. Puts(CallStarted(NumberOf(k), NameOf(k)), v,
           IF v.kind = "call" THEN <<[index |-> NumberOf(k), id |-> NameOf(k)]>> ELSE <<>>)
  BY CallPuts
<1>2. Adds(v, k, 1) = IF v.kind = "call" THEN <<[index |-> NumberOf(k), id |-> NameOf(k)]>> ELSE <<>>
  BY DEF Adds, Entry
<1> QED BY <1>1, <1>2

\* A call that comes at once.
LEMMA CallAdds ==
  ASSUME answer \in AnswerType, protocol \in Protocol, NEW k, InBlocks(k), NEW v, IsView(v),
         BlockAt(k).kind = "call", NEW text, text = TextAt(k, 1), 1 \in 1 .. Framing(k)
  PROVE  Puts(CallStarted(NumberOf(k), NameOf(k))
              \o (IF text = <<>> THEN <<>> ELSE Delta("args", NumberOf(k), text)), v, Adds(v, k, 1))
<1> DEFINE a == CallStarted(NumberOf(k), NameOf(k))
           b == IF text = <<>> THEN <<>> ELSE Delta("args", NumberOf(k), text)
           x == IF v.kind = "call" THEN <<Entry(k)>> ELSE <<>>
           y == IF v.kind # "call" /\ v.kind = "args" /\ v.index = NumberOf(k) THEN text ELSE <<>>
<1>1. Puts(a, v, x)
  BY CallPuts DEF Entry
<1>2. text \in Seq(STRING)
  BY TextGrows
<1>3. Puts(b, v, y)
  <2>1. CASE text = <<>>
    BY <2>1, SeenOfNone DEF Puts
  <2>2. CASE text # <<>>
    <3>1. Puts(Delta("args", NumberOf(k), text), v, y)
      BY <1>2, DeltaPuts
    <3> QED BY <2>2, <3>1
  <2> QED BY <2>1, <2>2
<1>4. Adds(v, k, 1) = IF v.kind = "call" THEN x ELSE y
  BY DEF Adds, Tells
<1>5. IF v.kind = "call" THEN y = <<>> /\ x = <<Entry(k)>> ELSE x = <<>>
  OBVIOUS
<1>6. x \o y = Adds(v, k, 1)
  <2> DEFINE c == Entry(k)
  <2>1. <<c>> \o <<>> = <<c>> /\ <<>> \o text = text /\ <<>> \o <<>> = <<>>
    BY <1>2
  <2>2. y = text \/ y = <<>>
    OBVIOUS
  <2> HIDE DEF c, x, y
  <2> QED BY <1>4, <1>5, <2>1, <2>2 DEF c
<1> HIDE DEF a, b, x, y
<1>7. Legible(a \o b) /\ Seen(v, a \o b) = x \o y
  BY <1>1, <1>3, SeenOfTwo DEF Puts
<1> QED BY <1>6, <1>7 DEF Puts, a, b

-----------------------------------------------------------------------------
(* What the adapters make of a frame, in a view: chat completions and Gemini.*)

\* What an adapter yields for the n-th frame of part k is what the frame adds.
Utters(k, n, out) ==
  IF InBlocks(k) THEN \A v : IsView(v) => Puts(out, v, Adds(v, k, n)) ELSE Quiet(out)

\* A vendor that repeats the type of a call sends chunks the adapter reads.
LEMMA TypedChunks ==
  ASSUME answer \in AnswerType, protocol = "openai", answer.typed, NEW k, InBlocks(k),
         NEW n \in 1 .. Len(FramesOf(k))
  PROVE  Sent(k, n).type = "chunk"
<1> DEFINE b == BlockAt(k)
<1>1. b \in Block /\ FramesOf(k) = BlockFrames(k) /\ Len(b.pieces) \in Nat
  BY PartsOfAnswer
<1>2. CASE b.kind = "call"
  <2> DEFINE x == CallsBefore(k)
             f == Announced("chunk", x, b)
             list == Pieces("chunk", "args", x, b)
  <2>1. FramesOf(k) = <<f>> \o list
    BY <1>1, <1>2 DEF BlockFrames, BlockAt
  <2>2. PICK S : list \in Seq(S)
    BY <1>1, PieceFrames
  <2>3. Len(list) = Len(b.pieces) /\ \A i \in 1 .. Len(b.pieces) : list[i].type = "chunk"
    BY <1>1, PieceFrames
  <2>4. f.type = "chunk"
    BY AnnouncedFrame
  <2> HIDE DEF f, list, b
  <2>5. /\ Len(FramesOf(k)) = Len(list) + 1
        /\ Sent(k, n) = IF n = 1 THEN f ELSE list[n - 1]
    BY <2>1, <2>2, Behind DEF Sent
  <2>6. n # 1 => n - 1 \in 1 .. Len(list)
    BY <1>1, <2>3, <2>5
  <2> QED BY <2>3, <2>4, <2>5, <2>6
<1>3. CASE b.kind # "call"
  <2>1. FramesOf(k) = Pieces("chunk", b.kind, 0, b)
    BY <1>1, <1>3 DEF BlockFrames, BlockAt
  <2> QED BY <1>1, <2>1, PieceFrames DEF Sent
<1> QED BY <1>2, <1>3

\* The next frame of a part, as every adapter below reads it.
LEMMA NextSent ==
  ASSUME Heard, NEW k \in 0 .. Ending, CanSend(k), NEW n, n = arrived[k] + 1
  PROVE  /\ answer \in AnswerType /\ protocol \in Protocol /\ Counted /\ InTurn /\ IsParser(parser)
         /\ n \in 1 .. Len(FramesOf(k)) /\ Len(FramesOf(k)) \in Nat /\ n \in Nat
         /\ k = 0 \/ k = Ending \/ InBlocks(k)
         /\ k = 0 => n = 1
         /\ InBlocks(k) => /\ BlockAt(k).kind \in {"text", "think", "call"}
                           /\ n \in 1 .. Framing(k) /\ TextAt(k, n) = Sent(k, n).text
                           /\ k \in Nat \ {0} /\ k # Ending
                           /\ IsCall(k) <=> BlockAt(k).kind = "call"
                           /\ Len(FramesOf(k)) = Framing(k)
         /\ ~InBlocks(0) /\ ~InBlocks(Ending) /\ 0 # Ending
<1>1. answer \in AnswerType /\ protocol \in Protocol /\ Counted /\ InTurn /\ IsParser(parser)
  BY DEF Heard, Counted
<1>2. n \in 1 .. Len(FramesOf(k)) /\ Len(FramesOf(k)) \in Nat
  BY <1>1, NextInTurn, FramesAreListed
<1>3. k = 0 \/ k = Ending \/ InBlocks(k)
  BY <1>1, PartKinds
<1>4. Len(answer.blocks) \in Nat /\ Ending = Len(answer.blocks) + 1
  BY <1>1, PartsOfAnswer
<1>5. ~InBlocks(0) /\ ~InBlocks(Ending) /\ 0 # Ending
  BY <1>4 DEF InBlocks
<1>6. ASSUME InBlocks(k)
      PROVE  /\ BlockAt(k).kind \in {"text", "think", "call"}
             /\ n \in 1 .. Framing(k) /\ TextAt(k, n) = Sent(k, n).text
             /\ k \in Nat \ {0} /\ k # Ending /\ (IsCall(k) <=> BlockAt(k).kind = "call")
             /\ Len(FramesOf(k)) = Framing(k)
  BY <1>1, <1>2, <1>6, PartsOfAnswer, PartKinds, BlockText
<1>7. ASSUME k = 0 PROVE n = 1
  <2>1. arrived[k] = 0
    BY <1>1, <1>7, NextInTurn
  <2> QED BY <2>1
<1> QED BY <1>1, <1>2, <1>3, <1>5, <1>6, <1>7

\* A frame of a block is its announcement or brings its text.
LEMMA ChunkUtters ==
  ASSUME Heard, protocol = "openai", answer.typed, NEW k \in 0 .. Ending, CanSend(k),
         NEW n, n = arrived[k] + 1
  PROVE  Utters(k, n, OnChunk(parser, Sent(k, n)).out)
<1> DEFINE f == Sent(k, n)
           r == OnChunk(parser, f)
           head == StartedUnless(parser.started)
           last == UsageUpdated(IF f.usage = {} THEN {} ELSE MergedUsage(parser.usage, f.usage))
           middle == CASE f.delta = "think" -> Delta("reasoning", 0, f.text)
                       [] f.delta = "text" -> Delta("content", 0, f.text)
                       [] f.delta = "call" -> CallStarted(f.index, f.id)
                       [] f.delta = "args" -> Delta("args", f.index, f.text)
                       [] OTHER -> <<>>
<1>1. /\ answer \in AnswerType /\ protocol \in Protocol
      /\ n \in 1 .. Len(FramesOf(k)) /\ (k = 0 \/ k = Ending \/ InBlocks(k))
      /\ ~InBlocks(0) /\ ~InBlocks(Ending)
  BY NextSent
<1>2. f.type = "chunk" => r.out = head \o middle \o last
  BY DEF OnChunk
<1>3. Quiet(head) /\ Quiet(last)
  BY QuietEvents
<1>4. CASE ~InBlocks(k)
  <2>2. k = 0 => n = 1
    BY NextSent
  <2>3. f.type = "chunk" /\ f.delta = "none"
    BY <1>1, <1>4, <2>2, HeadSent, TailSent DEF Heads, Tails
  <2>4. middle = <<>>
    BY <2>3
  <2> HIDE DEF head, middle, last, r, f
  <2>5. Quiet(r.out)
    BY <1>2, <1>3, <2>3, <2>4, QuietNone, QuietTwo
  <2> QED BY <1>4, <2>5 DEF Utters, r, f
<1>5. CASE InBlocks(k)
  <2> SUFFICES ASSUME NEW v, IsView(v) PROVE Puts(r.out, v, Adds(v, k, n))
    BY <1>5 DEF Utters
  <2>1. /\ BlockAt(k).kind \in {"text", "think", "call"}
        /\ n \in 1 .. Framing(k) /\ f.text = TextAt(k, n)
        /\ Len(FramesOf(k)) = Framing(k)
    BY <1>5, NextSent
  <2>2. Chunked(k, n, f) /\ f.type = "chunk"
    BY <1>1, <1>5, BlockSent, TypedChunks
  <2>3. Adds(v, k, n) \in Seq(Shows)
    BY <1>1, <1>5, <2>1, ShowsGrow
  <2>4. NumberOf(k) = CallsBefore(k) /\ NameOf(k) = BlockAt(k).id
    BY DEF NumberOf, NameOf
  <2>5. Puts(middle, v, Adds(v, k, n))
    <3>1. CASE BlockAt(k).kind = "call" /\ n = 1
      <4>1. f.delta = "call" /\ f.index = CallsBefore(k) /\ f.id = BlockAt(k).id
        BY <1>1, <1>5, <2>2, <3>1, BlockText DEF Chunked
      <4>2. middle = CallStarted(NumberOf(k), NameOf(k))
        BY <2>4, <4>1
      <4>3. TextAt(k, 1) = <<>>
        BY <3>1 DEF TextAt, AtOnce, Lead
      <4> HIDE DEF middle, f, r
      <4>4. Puts(CallStarted(NumberOf(k), NameOf(k)), v, Adds(v, k, 1))
        BY <1>1, <1>5, <3>1, <4>3, AnnouncementAdds
      <4> QED BY <3>1, <4>2, <4>4
    <3>2. CASE ~(BlockAt(k).kind = "call" /\ n = 1)
      <4>1. /\ f.delta = IF BlockAt(k).kind = "call" THEN "args" ELSE BlockAt(k).kind
            /\ BlockAt(k).kind = "call" => f.index = CallsBefore(k)
        BY <2>2, <3>2 DEF Chunked
      <4>2. middle = Delta(Sort(k), Slot(k), f.text)
        BY <2>1, <2>4, <4>1 DEF Sort, Slot
      <4> HIDE DEF middle, f, r
      <4>3. Puts(Delta(Sort(k), Slot(k), TextAt(k, n)), v, Adds(v, k, n))
        BY <1>1, <1>5, <2>1, <3>2, PieceAdds
      <4> QED BY <2>1, <4>2, <4>3
    <3> QED BY <3>1, <3>2
  <2> HIDE DEF head, middle, last, r, f
  <2>6. Puts(head \o middle \o last, v, Adds(v, k, n))
    BY <1>3, <2>3, <2>5, PutsAmong
  <2> QED BY <1>2, <2>2, <2>6 DEF r, f
<1> QED BY <1>4, <1>5

LEMMA GeneratedUtters ==
  ASSUME Heard, protocol = "gemini", NEW k \in 0 .. Ending, CanSend(k),
         NEW n, n = arrived[k] + 1, IsCall(k) => parser.next = CallsBefore(k)
  PROVE  Utters(k, n, OnGenerated(parser, Sent(k, n)).out)
<1> DEFINE f == Sent(k, n)
           r == OnGenerated(parser, f)
           head == StartedUnless(parser.started)
           report == UsageUpdated(IF f.usage = {} THEN {} ELSE MergedUsage(parser.usage, f.usage))
           args == IF f.text = <<>> THEN <<>> ELSE Delta("args", parser.next, f.text)
           start == CallStarted(parser.next, GeminiCallId(parser.next))
           last == CASE f.delta = "think" -> Delta("reasoning", 0, f.text)
                     [] f.delta = "text" -> Delta("content", 0, f.text)
                     [] f.delta = "call" -> start \o args
                     [] OTHER -> <<>>
<1>1. /\ answer \in AnswerType /\ protocol \in Protocol
      /\ n \in 1 .. Len(FramesOf(k)) /\ (k = 0 \/ k = Ending \/ InBlocks(k))
      /\ ~InBlocks(0) /\ ~InBlocks(Ending)
  BY NextSent
<1>2. r.out = head \o report \o last
  BY DEF OnGenerated
<1>3. Quiet(head) /\ Quiet(report) /\ Quiet(<<>>)
  BY QuietEvents, QuietNone
<1>4. Quiet(head \o report)
  <2> HIDE DEF head, report
  <2> QED BY <1>3, QuietTwo
<1>5. CASE ~InBlocks(k)
  <2>2. k = 0 => n = 1
    BY NextSent
  <2>3. f.delta = "none"
    BY <1>1, <1>5, <2>2, HeadSent, TailSent DEF Heads, Tails
  <2>4. last = <<>>
    BY <2>3
  <2> DEFINE h == head \o report
  <2> HIDE DEF h, last, r, f
  <2>5. Quiet(h \o last)
    BY <1>3, <1>4, <2>4, QuietTwo DEF h
  <2> QED BY <1>2, <1>5, <2>5 DEF Utters, h, r, f
<1>6. CASE InBlocks(k)
  <2> SUFFICES ASSUME NEW v, IsView(v) PROVE Puts(r.out, v, Adds(v, k, n))
    BY <1>6 DEF Utters
  <2>1. /\ BlockAt(k).kind \in {"text", "think", "call"}
        /\ n \in 1 .. Framing(k) /\ f.text = TextAt(k, n)
        /\ IsCall(k) <=> BlockAt(k).kind = "call"
    BY <1>6, NextSent
  <2>2. f.delta = BlockAt(k).kind
    BY <1>1, <1>6, BlockSent DEF Generated
  <2>3. Adds(v, k, n) \in Seq(Shows)
    BY <1>1, <1>6, <2>1, ShowsGrow
  <2>4. Puts(last, v, Adds(v, k, n))
    <3>1. CASE BlockAt(k).kind = "call"
      <4>1. NumberOf(k) = parser.next /\ NameOf(k) = GeminiCallId(parser.next)
        BY <2>1, <3>1 DEF NumberOf, NameOf
      <4>2. Framing(k) = 1
        BY <3>1 DEF Framing, AtOnce
      <4>3. n = 1 /\ 1 \in 1 .. Framing(k)
        BY <2>1, <4>2
      <4>4. last = start \o args
        BY <2>2, <3>1
      <4> HIDE DEF last, r, f
      <4>5. Puts(CallStarted(NumberOf(k), NameOf(k))
                 \o (IF f.text = <<>> THEN <<>> ELSE Delta("args", NumberOf(k), f.text)), v, Adds(v, k, 1))
        BY <1>1, <1>6, <2>1, <3>1, <4>3, CallAdds
      <4> QED BY <4>1, <4>3, <4>4, <4>5
    <3>2. CASE BlockAt(k).kind # "call"
      <4>1. last = Delta(Sort(k), Slot(k), f.text)
        BY <2>1, <2>2, <3>2 DEF Sort, Slot
      <4> HIDE DEF last, f, r
      <4>2. Puts(Delta(Sort(k), Slot(k), TextAt(k, n)), v, Adds(v, k, n))
        BY <1>1, <1>6, <2>1, <3>2, PieceAdds
      <4> QED BY <2>1, <4>1, <4>2
    <3> QED BY <3>1, <3>2
  <2> DEFINE h == head \o report
  <2> HIDE DEF h, last, r, f
  <2>5. Puts(h \o last, v, Adds(v, k, n))
    BY <1>3, <1>4, <2>3, <2>4, PutsAmong DEF h
  <2> QED BY <1>2, <2>5 DEF h, r, f
<1> QED BY <1>5, <1>6

-----------------------------------------------------------------------------
(* The same of a message event and of a Responses event.                   *)

LEMMA MessageUtters ==
  ASSUME Heard, Open, protocol = "anthropic", NEW k \in 0 .. Ending, CanSend(k),
         NEW n, n = arrived[k] + 1
  PROVE  Utters(k, n, OnMessageEvent(parser, Sent(k, n)).out)
<1> DEFINE f == Sent(k, n)
           r == OnMessageEvent(parser, f)
<1>1. /\ answer \in AnswerType /\ protocol \in Protocol /\ Counted
      /\ n \in 1 .. Len(FramesOf(k)) /\ (k = 0 \/ k = Ending \/ InBlocks(k))
      /\ ~InBlocks(0) /\ ~InBlocks(Ending) /\ Len(FramesOf(k)) \in Nat
  BY NextSent
<1>2. CASE ~InBlocks(k)
  <2>1. k = 0 => n = 1
    BY NextSent
  <2>2. f.type \in {"message_start", "message_delta", "message_stop"}
    BY <1>1, <1>2, <2>1, HeadSent, TailSent DEF Heads, Tails
  <2>3. \/ r.out = <<Event("started")>> \/ r.out = <<>>
        \/ \E u : r.out = UsageUpdated(u)
    BY <2>2 DEF OnMessageEvent
  <2>4. Quiet(r.out)
    BY <2>3, QuietEvents, QuietNone
  <2> QED BY <1>2, <2>4 DEF Utters
<1>3. CASE InBlocks(k)
  <2> SUFFICES ASSUME NEW v, IsView(v) PROVE Puts(r.out, v, Adds(v, k, n))
    BY <1>3 DEF Utters
  <2>1. /\ BlockAt(k).kind \in {"text", "think", "call"}
        /\ n \in 1 .. Framing(k) /\ f.text = TextAt(k, n)
        /\ k \in Nat \ {0} /\ k # Ending /\ Len(FramesOf(k)) = Framing(k)
    BY <1>3, NextSent
  <2>2. Opening(k, n, f)
    BY <1>1, <1>3, BlockSent
  <2>3. /\ NumberOf(k) = k - 1 /\ NameOf(k) = BlockAt(k).id /\ Lead(k) = 1 /\ ~AtOnce(k)
        /\ Pieced(k) \in Nat /\ Framing(k) = Pieced(k) + 2
    <3>1. Pieced(k) \in Nat
      BY <1>1, <1>3, PartsOfAnswer DEF Pieced
    <3> QED BY <3>1 DEF NumberOf, NameOf, Lead, AtOnce, Framing
  <2>4. CASE n = 1 /\ BlockAt(k).kind = "call"
    <3>1. f.type = "content_block_start" /\ f.index = k - 1 /\ f.delta = "call"
      BY <2>2, <2>4 DEF Opening
    <3>2. f.id = BlockAt(k).id
      BY <1>1, <1>3, <2>4, BlockText
    <3>3. r.out = CallStarted(f.index, f.id)
      BY <3>1 DEF OnMessageEvent
    <3>4. TextAt(k, 1) = <<>>
      BY <2>3 DEF TextAt
    <3> HIDE DEF r, f
    <3>5. Puts(CallStarted(NumberOf(k), NameOf(k)), v, Adds(v, k, 1))
      BY <1>1, <1>3, <2>4, <3>4, AnnouncementAdds
    <3> QED BY <2>3, <2>4, <3>1, <3>2, <3>3, <3>5
  <2>5. CASE (n = 1 /\ BlockAt(k).kind # "call") \/ n = Framing(k)
    <3>1. n # 1 => n = Pieced(k) + 2
      BY <2>3, <2>5
    <3>2. \/ f.type = "content_block_start" /\ f.delta = "none"
          \/ f.type = "content_block_stop"
      BY <2>1, <2>2, <2>3, <2>5 DEF Opening
    <3>3. r.out = <<>>
      BY <3>2 DEF OnMessageEvent
    <3>4. TextAt(k, n) = <<>>
      BY <2>3, <3>1 DEF TextAt
    <3>5. Adds(v, k, n) = <<>>
      <4>1. BlockAt(k).kind = "call" => n # 1
        BY <2>3, <2>5
      <4> QED BY <3>4, <4>1 DEF Adds
    <3> QED BY <3>3, <3>5, SeenOfNone DEF Puts
  <2>6. CASE n # 1 /\ n # Framing(k)
    <3>1. n < Len(FramesOf(k)) /\ n > 1
      BY <2>1, <2>3, <2>6
    <3>2. /\ f.type = "content_block_delta"
          /\ f.delta = IF BlockAt(k).kind = "call" THEN "args" ELSE BlockAt(k).kind
      BY <2>2, <2>6, <3>1 DEF Opening
    <3>3. parser.current = k - 1
      <4>1. arrived[k] > 0 /\ ~Through(k)
        <5>1. arrived[k] \in Nat
          BY <1>1 DEF Counted
        <5> QED BY <3>1, <5>1 DEF Through
      <4> QED BY <1>3, <4>1 DEF Open, InBlocks
    <3>4. k - 1 # -1
      BY <2>1
    <3>5. r.out = Delta(Sort(k), Slot(k), f.text)
      <4>1. r.out = CASE f.delta = "text" -> Delta("content", 0, f.text)
                      [] f.delta = "think" -> Delta("reasoning", 0, f.text)
                      [] OTHER -> Delta("args", IF parser.current = -1 THEN 0 ELSE parser.current, f.text)
        BY <3>2 DEF OnMessageEvent
      <4>2. (IF parser.current = -1 THEN 0 ELSE parser.current) = k - 1
        BY <3>3, <3>4
      <4> HIDE DEF r
      <4> QED BY <2>1, <2>3, <3>2, <4>1, <4>2 DEF Sort, Slot
    <3> HIDE DEF r, f
    <3>6. Puts(Delta(Sort(k), Slot(k), TextAt(k, n)), v, Adds(v, k, n))
      BY <1>1, <1>3, <2>1, <2>6, PieceAdds
    <3> QED BY <2>1, <3>5, <3>6
  <2> QED BY <2>4, <2>5, <2>6
<1> QED BY <1>2, <1>3

\* The tool index of an item whose place is known.
Counts == protocol \in {"gemini", "responses"} => parser.next = Cardinality(Answering)
Indexed ==
  protocol = "responses" =>
    \A n \in 1 .. Len(parser.indexes) :
      \E j \in Answering : n = CallsBefore(j) + 1 /\ parser.indexes[n] = j - 1

LEMMA ToolIndexIsNumber ==
  ASSUME Counted, Open, Indexed, protocol = "responses", IsParser(parser), NEW k \in Answering
  PROVE  ToolIndex(parser, k - 1) = CallsBefore(k)
<1> DEFINE s == parser.indexes
           i == k - 1
           P(n) == n \in 1 .. Len(s) /\ s[n] = i
           m == CHOOSE n \in 1 .. Len(s) : s[n] = i
<1>1. \E n \in 1 .. Len(s) : s[n] = i
  BY DEF Open
<1>2. m \in 1 .. Len(s) /\ s[m] = i
  <2> HIDE DEF i, s
  <2> QED BY <1>1
<1>3. Contains(s, i)
  BY <1>1 DEF Contains
<1>4. ToolIndex(parser, i) = m - 1
  BY <1>3 DEF ToolIndex
<1> HIDE DEF m
<1>5. PICK j \in Answering : m = CallsBefore(j) + 1 /\ s[m] = j - 1
  BY <1>2 DEF Indexed
<1>6. Len(answer.blocks) \in Nat /\ Ending = Len(answer.blocks) + 1 /\ answer \in AnswerType
  BY PartsOfAnswer DEF Counted
<1>7. j \in Nat /\ k \in Nat /\ InBlocks(k)
  BY <1>6 DEF Answering, InBlocks
<1>8. j = k
  BY <1>2, <1>5, <1>7
<1>9. CallsBefore(k) \in Nat
  BY <1>6, <1>7, CallsAreNumbered
<1> QED BY <1>4, <1>5, <1>8, <1>9

LEMMA ResponseUtters ==
  ASSUME Heard, Open, Indexed, protocol = "responses", NEW k \in 0 .. Ending, CanSend(k),
         NEW n, n = arrived[k] + 1, IsCall(k) /\ arrived[k] = 0 => parser.next = CallsBefore(k)
  PROVE  Utters(k, n, OnResponseEvent(parser, Sent(k, n)).out)
<1> DEFINE f == Sent(k, n)
           r == OnResponseEvent(parser, f)
<1>1. /\ answer \in AnswerType /\ protocol \in Protocol /\ Counted /\ IsParser(parser)
      /\ n \in 1 .. Len(FramesOf(k)) /\ (k = 0 \/ k = Ending \/ InBlocks(k))
      /\ ~InBlocks(0) /\ ~InBlocks(Ending) /\ Len(FramesOf(k)) \in Nat
  BY NextSent
<1>0. arrived[k] \in Nat
  BY <1>1 DEF Counted
<1>2. CASE ~InBlocks(k)
  <2>1. k = 0 => n = 1
    BY NextSent
  <2>2. f.type \in {"response.created", "response.completed", "response.incomplete"}
    BY <1>1, <1>2, <2>1, HeadSent, TailSent DEF Heads, Tails
  <2>3. \/ r.out = <<Event("started")>> \/ r.out = <<>>
        \/ \E u : r.out = UsageUpdated(u)
    BY <2>2 DEF OnResponseEvent
  <2>4. Quiet(r.out)
    BY <2>3, QuietEvents, QuietNone
  <2> QED BY <1>2, <2>4 DEF Utters
<1>3. CASE InBlocks(k)
  <2> SUFFICES ASSUME NEW v, IsView(v) PROVE Puts(r.out, v, Adds(v, k, n))
    BY <1>3 DEF Utters
  <2>1. /\ BlockAt(k).kind \in {"text", "think", "call"}
        /\ n \in 1 .. Framing(k) /\ f.text = TextAt(k, n)
        /\ k \in Nat \ {0} /\ k # Ending /\ (IsCall(k) <=> BlockAt(k).kind = "call")
    BY <1>3, NextSent
  <2>2. Itemised(k, n, f)
    BY <1>1, <1>3, BlockSent
  <2>3. /\ NumberOf(k) = CallsBefore(k) /\ NameOf(k) = BlockAt(k).id /\ Lead(k) = 1 /\ ~AtOnce(k)
    BY DEF NumberOf, NameOf, Lead, AtOnce
  <2>4. CASE n = 1 /\ BlockAt(k).kind = "call"
    <3>1. f.type = "response.output_item.added" /\ f.index = k - 1 /\ f.delta = "call"
      BY <2>2, <2>4 DEF Itemised
    <3>2. f.id = BlockAt(k).id
      BY <1>1, <1>3, <2>4, BlockText
    <3>3. r.out = CallStarted(parser.next, f.id)
      BY <3>1 DEF OnResponseEvent
    <3>4. TextAt(k, 1) = <<>>
      BY <2>3 DEF TextAt
    <3>6. parser.next = CallsBefore(k)
      BY <1>0, <2>1, <2>4
    <3> HIDE DEF r, f
    <3>5. Puts(CallStarted(NumberOf(k), NameOf(k)), v, Adds(v, k, 1))
      BY <1>1, <1>3, <2>4, <3>4, AnnouncementAdds
    <3> QED BY <2>3, <2>4, <3>2, <3>3, <3>5, <3>6
  <2>5. CASE n = 1 /\ BlockAt(k).kind # "call"
    <3>1. f.type = "response.output_item.added" /\ f.delta = "none"
      BY <2>2, <2>5 DEF Itemised
    <3>2. r.out = <<>>
      BY <3>1 DEF OnResponseEvent
    <3>3. TextAt(k, n) = <<>>
      BY <2>3, <2>5 DEF TextAt
    <3>4. Adds(v, k, n) = <<>>
      BY <2>5, <3>3 DEF Adds
    <3> QED BY <3>2, <3>4, SeenOfNone DEF Puts
  <2>6. CASE n # 1
    <3>1. /\ f.index = k - 1
          /\ f.type = CASE BlockAt(k).kind = "call" -> "response.function_call_arguments.delta"
                        [] BlockAt(k).kind = "text" -> "response.output_text.delta"
                        [] OTHER -> "response.reasoning_summary_text.delta"
      <4>1. n > 1
        BY <1>1, <2>6
      <4> QED BY <2>2, <4>1 DEF Itemised
    <3>2. BlockAt(k).kind = "call" => ToolIndex(parser, f.index) = CallsBefore(k)
      <4> SUFFICES ASSUME BlockAt(k).kind = "call" PROVE ToolIndex(parser, f.index) = CallsBefore(k)
        OBVIOUS
      <4>1. arrived[k] > 0
        BY <1>0, <2>6
      <4>2. k \in Answering
        BY <1>3, <2>1, <4>1 DEF Answering, InBlocks
      <4> QED BY <1>1, <3>1, <4>2, ToolIndexIsNumber
    <3>3. r.out = Delta(Sort(k), Slot(k), f.text)
      <4>1. CASE BlockAt(k).kind = "call"
        <5>1. r.out = Delta("args", ToolIndex(parser, f.index), f.text)
          BY <3>1, <4>1 DEF OnResponseEvent
        <5>2. Sort(k) = "args" /\ Slot(k) = CallsBefore(k)
          BY <2>3, <4>1 DEF Sort, Slot
        <5> HIDE DEF r, f
        <5> QED BY <3>2, <4>1, <5>1, <5>2
      <4>2. CASE BlockAt(k).kind # "call"
        BY <2>1, <3>1, <4>2 DEF OnResponseEvent, Sort, Slot
      <4> QED BY <4>1, <4>2
    <3> HIDE DEF r, f
    <3>4. Puts(Delta(Sort(k), Slot(k), TextAt(k, n)), v, Adds(v, k, n))
      BY <1>1, <1>3, <2>1, <2>6, PieceAdds
    <3> QED BY <2>1, <3>3, <3>4
  <2> QED BY <2>4, <2>5, <2>6
<1> QED BY <1>2, <1>3

-----------------------------------------------------------------------------
(* The reason to stop, in the frames and in the parser.                    *)

\* The reason of an answer comes with the first frame after its blocks.
LEMMA TailReason ==
  ASSUME answer \in AnswerType, protocol \in Protocol
  PROVE  /\ Sent(Ending, 1).reason = Reason(protocol, answer.reason)
         /\ protocol = "openai" => Sent(Ending, 2).reason = ""
<1> DEFINE reason == Reason(protocol, answer.reason)
<1>1. \A n : Sent(Ending, n) = TailFrames[n]
  BY PartsOfAnswer DEF Sent
<1>2. CASE protocol = "openai"
  <2> DEFINE f == [Frame("chunk") EXCEPT !.reason = reason]
             g == [Frame("chunk") EXCEPT !.usage = Usage(2, 3, 1)]
  <2>1. TailFrames = <<f, g>>
    BY <1>2 DEF TailFrames
  <2>2. f.reason = reason /\ g.reason = ""
    BY DEF Frame
  <2> HIDE DEF f, g
  <2>3. Sent(Ending, 1) = f /\ Sent(Ending, 2) = g
    BY <1>1, <2>1
  <2> QED BY <2>2, <2>3, Zenon
<1>3. CASE protocol = "responses"
  <2> DEFINE f == [Frame(IF reason = "completed" THEN "response.completed" ELSE "response.incomplete")
                     EXCEPT !.reason = reason, !.usage = Usage(2, 3, 1)]
  <2>1. TailFrames = <<f>>
    BY <1>3 DEF TailFrames
  <2>2. f.reason = reason
    BY DEF Frame
  <2> HIDE DEF f
  <2> QED BY <1>1, <1>3, <2>1, <2>2
<1>4. CASE protocol = "anthropic"
  <2> DEFINE f == [Frame("message_delta") EXCEPT !.reason = reason, !.usage = Usage(0, 3, 0)]
  <2>1. TailFrames = <<f, Frame("message_stop")>>
    BY <1>4 DEF TailFrames
  <2>2. f.reason = reason
    BY DEF Frame
  <2> HIDE DEF f
  <2> QED BY <1>1, <1>4, <2>1, <2>2
<1>5. CASE protocol = "gemini"
  <2> DEFINE f == [Frame("chunk") EXCEPT !.reason = reason, !.usage = Usage(2, 3, 1)]
  <2>1. TailFrames = <<f>>
    BY <1>5 DEF TailFrames
  <2>2. f.reason = reason
    BY DEF Frame
  <2> HIDE DEF f
  <2> QED BY <1>1, <1>5, <2>1, <2>2
<1> QED BY <1>2, <1>3, <1>4, <1>5 DEF Protocol

\* What the parsers make of the reason and of a call.
LEMMA ChunkFinish ==
  ASSUME NEW s, IsParser(s), NEW f, f.type \notin {"error", "untyped"}
  PROVE  /\ f.reason = "" => OnChunk(s, f).parser.finish = s.finish
         /\ f.reason # "" => OnChunk(s, f).parser.finish = f.reason
<1>1. PICK F : s \in Parsers(F)
  BY DEF IsParser
<1> DEFINE finish == IF f.reason = "" THEN s.finish ELSE f.reason
           usage == TakeUsage(s.usage, f.usage)
           p == OnChunk(s, f).parser
<1>2. p = [s EXCEPT !.started = TRUE, !.finish = finish, !.usage = usage]
  BY DEF OnChunk
<1>3. (f.reason = "" => finish = s.finish) /\ (f.reason # "" => finish = f.reason)
  BY Zenon
<1> HIDE DEF p, finish, usage
<1>4. p.finish = finish
  BY <1>1, <1>2 DEF Parsers
<1> QED BY <1>3, <1>4, Zenon DEF p

LEMMA GeneratedFinish ==
  ASSUME NEW s, IsParser(s), NEW f
  PROVE  /\ f.reason # "" => OnGenerated(s, f).parser.finish = MapFinishReason[f.reason]
         /\ OnGenerated(s, f).parser.next = IF f.delta = "call" THEN s.next + 1 ELSE s.next
<1>1. PICK F : s \in Parsers(F)
  BY DEF IsParser
<1> DEFINE finish == IF f.reason = "" THEN s.finish ELSE MapFinishReason[f.reason]
           usage == TakeUsage(s.usage, f.usage)
           next == IF f.delta = "call" THEN NextCall(s) ELSE s.next
           p == OnGenerated(s, f).parser
<1>2. p = [s EXCEPT !.started = TRUE, !.finish = finish, !.usage = usage, !.next = next]
  BY DEF OnGenerated
<1>3. f.reason # "" => finish = MapFinishReason[f.reason]
  BY Zenon
<1>4. next = IF f.delta = "call" THEN s.next + 1 ELSE s.next
  BY DEF NextCall
<1> HIDE DEF p, finish, usage, next
<1>5. p.finish = finish /\ p.next = next
  BY <1>1, <1>2 DEF Parsers
<1>6. f.reason # "" => p.finish = MapFinishReason[f.reason]
  BY <1>3, <1>5, Zenon
<1>7. p.next = IF f.delta = "call" THEN s.next + 1 ELSE s.next
  BY <1>4, <1>5, Zenon
<1> QED BY <1>6, <1>7, Zenon DEF p

LEMMA MessageFinish ==
  ASSUME NEW s, IsParser(s), NEW f
  PROVE  /\ f.type = "message_delta" =>
              OnMessageEvent(s, f).parser.finish = MapStopReason[f.reason]
         /\ f.type = "message_stop" => OnMessageEvent(s, f).parser.finish = s.finish
<1>1. PICK F : s \in Parsers(F)
  BY DEF IsParser
<1> DEFINE usage == MergedUsage(s.usage, f.usage)
           finish == MapStopReason[f.reason]
           p == OnMessageEvent(s, f).parser
<1>2. f.type = "message_delta" => p = [s EXCEPT !.finish = finish, !.usage = usage]
  BY DEF OnMessageEvent
<1>3. f.type = "message_stop" => p = s
  BY DEF OnMessageEvent
<1> HIDE DEF p, finish, usage
<1>4. f.type = "message_delta" => p.finish = finish
  BY <1>1, <1>2 DEF Parsers
<1> QED BY <1>3, <1>4 DEF p, finish

LEMMA ResponseFinish ==
  ASSUME NEW s, IsParser(s), NEW f
  PROVE  LET p == OnResponseEvent(s, f).parser IN
         /\ f.type = "response.completed" => p.finish = ResponsesFinish(s.next > 0, f.reason)
         /\ Announces(f) => p.next = s.next + 1 /\ p.indexes = Append(s.indexes, f.index)
         /\ ~Announces(f) => p.next = s.next /\ p.indexes = s.indexes
<1>1. PICK F : s \in Parsers(F)
  BY DEF IsParser
<1> DEFINE p == OnResponseEvent(s, f).parser
           finish == ResponsesFinish(s.next > 0, f.reason)
<1>2. CASE f.type = "response.completed"
  <2>1. p = [s EXCEPT !.usage = f.usage, !.finish = finish] /\ ~Announces(f)
    BY <1>2 DEF OnResponseEvent, Announces
  <2> HIDE DEF p, finish
  <2>2. p.finish = finish /\ p.next = s.next /\ p.indexes = s.indexes
    BY <1>1, <2>1 DEF Parsers
  <2> QED BY <2>1, <2>2 DEF p, finish
<1>3. CASE Announces(f)
  <2> DEFINE list == Append(s.indexes, f.index)
             next == s.next + 1
  <2>1. p = [s EXCEPT !.indexes = list, !.next = next]
    BY <1>3 DEF OnResponseEvent, Announces
  <2>2. f.type # "response.completed"
    BY <1>3 DEF Announces
  <2> HIDE DEF p, list, next
  <2>3. p.indexes = list /\ p.next = next
    BY <1>1, <2>1 DEF Parsers
  <2> QED BY <1>3, <2>2, <2>3 DEF p, list, next
<1>4. CASE f.type # "response.completed" /\ ~Announces(f)
  <2>1. p = [s EXCEPT !.started = TRUE] \/ p = s
    BY <1>4 DEF OnResponseEvent, Announces
  <2> HIDE DEF p
  <2>2. p.next = s.next /\ p.indexes = s.indexes
    BY <1>1, <2>1 DEF Parsers
  <2> QED BY <1>4, <2>2 DEF p
<1> QED BY <1>2, <1>3, <1>4

\* The calls that were announced before the one that comes next.
LEMMA AnsweringSoFar ==
  ASSUME Heard, NEW k \in 0 .. Ending, CanSend(k)
  PROVE  /\ IsFiniteSet(Answering) /\ Cardinality(Answering) \in Nat
         /\ IsCall(k) /\ arrived[k] = 0 => k \notin Answering /\ Cardinality(Answering) = CallsBefore(k)
         /\ k = Ending => (Answering # {} <=> HasCalls(answer))
<1>1. /\ Counted /\ InTurn /\ answer \in AnswerType /\ protocol \in Protocol
      /\ Len(answer.blocks) \in Nat /\ Ending = Len(answer.blocks) + 1
  BY PartsOfAnswer DEF Heard, Counted
<1>2. IsFiniteSet(Answering)
  <2>1. Answering \subseteq 1 .. Ending - 1 /\ Ending - 1 \in Int /\ 1 \in Int
    BY <1>1 DEF Answering
  <2>2. IsFiniteSet(1 .. Ending - 1)
    BY <2>1, FS_Interval
  <2> QED BY <2>1, <2>2, FS_Subset
<1>3. Cardinality(Answering) \in Nat
  BY <1>2, FS_CardinalityType
<1>4. \A j \in 0 .. Ending : arrived[j] \in Nat /\ j \in Nat
  BY <1>1 DEF Counted
<1>5. ASSUME NEW j, IsCall(j), j < k PROVE arrived[j] > 0
  <2>1. j \in 0 .. k - 1 /\ j \in 0 .. Ending /\ InBlocks(j) /\ BlockAt(j).kind = "call"
    BY <1>1, <1>5 DEF IsCall, InBlocks, BlockAt
  <2>2. Through(j) \/ arrived[j] > 0
    BY <2>1 DEF CanSend
  <2>3. Len(FramesOf(j)) = Framing(j) /\ Framing(j) > 0
    BY <1>1, <2>1, BlockText, FramingOfCall
  <2> QED BY <2>2, <2>3 DEF Through
<1>6. ASSUME IsCall(k), arrived[k] = 0
      PROVE  k \notin Answering /\ Cardinality(Answering) = CallsBefore(k)
  <2> DEFINE before == {j \in 1 .. k - 1 : answer.blocks[j].kind = "call"}
  <2>1. k \notin Answering
    BY <1>6 DEF Answering
  <2>2. ASSUME NEW j \in Answering PROVE j \in before
    <3>1. j \in 1 .. Ending - 1 /\ IsCall(j) /\ arrived[j] > 0 /\ j # k /\ j \in 0 .. Ending
      BY <1>1, <2>1 DEF Answering
    <3>2. ~(k < j)
      <4> SUFFICES ASSUME k < j PROVE FALSE
        OBVIOUS
      <4>1. k \in 0 .. j - 1
        BY <1>1, <3>1
      <4>2. Through(k) \/ arrived[k] > 0
        BY <1>1, <3>1, <4>1 DEF InTurn
      <4>3. ~Through(k)
        BY DEF CanSend
      <4> QED BY <1>6, <4>2, <4>3
    <3> QED BY <3>1, <3>2 DEF IsCall
  <2>3. ASSUME NEW j \in before PROVE j \in Answering
    <3>1. j \in 1 .. Ending - 1 /\ j < k
      BY <1>1, <2>3
    <3>2. IsCall(j)
      BY <2>3, <3>1 DEF IsCall
    <3> QED BY <1>5, <3>1, <3>2 DEF Answering
  <2>4. Answering = before
    <3> HIDE DEF before
    <3> QED BY <2>2, <2>3
  <2> QED BY <2>1, <2>4 DEF CallsBefore
<1>7. ASSUME k = Ending PROVE Answering # {} <=> HasCalls(answer)
  <2>1. ASSUME NEW j \in 1 .. Len(answer.blocks), answer.blocks[j].kind = "call" PROVE Answering # {}
    <3>1. IsCall(j) /\ j < k /\ j \in 1 .. Ending - 1
      BY <1>1, <1>7, <2>1 DEF IsCall
    <3> QED BY <1>5, <3>1 DEF Answering
  <2>2. ASSUME NEW j \in Answering PROVE HasCalls(answer)
    <3>1. j \in 1 .. Len(answer.blocks) /\ answer.blocks[j].kind = "call"
      BY <1>1 DEF Answering, IsCall
    <3> QED BY <3>1 DEF HasCalls
  <2> QED BY <2>1, <2>2 DEF HasCalls
<1> QED BY <1>2, <1>3, <1>6, <1>7

-----------------------------------------------------------------------------
(* What has been read, and what of it may be believed.                     *)

\* The parts of the answer as a view has them.
Parts(v) == [k \in 1 .. Ending - 1 |-> To(v, k, arrived[k])]

\* What was heard may be taken at its word, a view has all of it, and the
\* parser knows the reason.
Trusted == ~garbled /\ (protocol = "openai" => answer.typed)
Shown == Legible(emitted) /\ \A v : IsView(v) => Seen(v, emitted) = FlattenSeq(Parts(v))
Concluded == arrived[Ending] > 0 /\ ~Unread => parser.finish = Whole(protocol, answer).finish
Believed == Trusted => Shown /\ Counts /\ Indexed /\ Concluded

LEMMA ReasonGiven ==
  ASSUME answer \in AnswerType
  PROVE  /\ Reason("openai", answer.reason) # "" /\ Reason("gemini", answer.reason) # ""
         /\ Reason("responses", answer.reason) \in {"completed", "incomplete"}
<1>1. answer.reason \in {"stop", "tool_calls", "length", "content_filter"}
  BY DEF AnswerType
<1> DEFINE r == answer.reason
<1>2. Reason("openai", r) = r
  BY DEF Reason
<1>3. Reason("gemini", r) \in {"STOP", "MAX_TOKENS", "SAFETY"}
  BY <1>1 DEF Reason
<1>4. Reason("responses", r) \in {"completed", "incomplete"}
  BY <1>1 DEF Reason
<1> QED BY <1>1, <1>2, <1>3, <1>4, Zenon

LEMMA FinishOfWhole ==
  ASSUME NEW a
  PROVE  /\ Whole("openai", a).finish = Reason("openai", a.reason)
         /\ Whole("gemini", a).finish = MapFinishReason[Reason("gemini", a.reason)]
         /\ Whole("anthropic", a).finish = MapStopReason[Reason("anthropic", a.reason)]
         /\ Whole("responses", a).finish = ResponsesFinish(HasCalls(a), Reason("responses", a.reason))
BY DEF Whole, WholeChoice, WholeItems, WholeMessage, WholeCandidate, Canonical

\* The reason of the answer is the parser's once it has arrived.
LEMMA FinishIsWhole ==
  ASSUME Heard, Counts, ~Unread, CanSend(Ending), NEW n, n = arrived[Ending] + 1,
         n # 1 => parser.finish = Whole(protocol, answer).finish
  PROVE  OnFrame(protocol, parser, Sent(Ending, n)).parser.finish = Whole(protocol, answer).finish
<1> DEFINE f == Sent(Ending, n)
           r == OnFrame(protocol, parser, f)
<1>0. Ending \in 0 .. Ending /\ Counted /\ answer \in AnswerType /\ protocol \in Protocol
  <2>1. answer \in AnswerType /\ protocol \in Protocol /\ Counted
    BY DEF Heard, Counted
  <2>2. Len(answer.blocks) \in Nat /\ Ending = Len(answer.blocks) + 1
    BY <2>1, PartsOfAnswer
  <2> QED BY <2>1, <2>2
<1>1. IsParser(parser) /\ n \in 1 .. Len(FramesOf(Ending))
  BY <1>0, NextSent
<1>2. /\ Len(FramesOf(Ending)) = IF protocol \in {"openai", "anthropic"} THEN 2 ELSE 1
      /\ Tails(n, f)
  BY <1>0, <1>1, TailSent
<1>3. n = 1 \/ (n = 2 /\ protocol \in {"openai", "anthropic"})
  <2>1. \A m : (m \in 1 .. 1 => m = 1) /\ (m \in 1 .. 2 => m = 1 \/ m = 2)
    OBVIOUS
  <2> QED BY <1>1, <1>2, <2>1
<1>4. /\ n = 1 => f.reason = Reason(protocol, answer.reason)
      /\ n = 2 /\ protocol = "openai" => f.reason = ""
  <2>1. /\ Sent(Ending, 1).reason = Reason(protocol, answer.reason)
        /\ protocol = "openai" => Sent(Ending, 2).reason = ""
    BY <1>0, TailReason
  <2> QED BY <2>1, Zenon
<1>5. CASE protocol = "openai"
  <2>1. r = OnChunk(parser, f) /\ f.type \notin {"error", "untyped"}
    BY <1>2, <1>5 DEF OnFrame, Tails
  <2> HIDE DEF r, f
  <2>2. /\ f.reason = "" => r.parser.finish = parser.finish
        /\ f.reason # "" => r.parser.finish = f.reason
    BY <1>1, <2>1, ChunkFinish, Zenon
  <2>3. Reason("openai", answer.reason) # ""
    BY <1>0, ReasonGiven, Zenon
  <2>4. Whole(protocol, answer).finish = Reason("openai", answer.reason)
    BY <1>5, FinishOfWhole
  <2>5. n = 2 => n # 1
    OBVIOUS
  <2> QED BY <1>3, <1>4, <1>5, <2>2, <2>3, <2>4, <2>5, Zenon DEF r, f
<1>6. CASE protocol = "gemini"
  <2>1. r = OnGenerated(parser, f)
    BY <1>6 DEF OnFrame
  <2> HIDE DEF r, f
  <2>2. f.reason # "" => r.parser.finish = MapFinishReason[f.reason]
    BY <1>1, <2>1, GeneratedFinish, Zenon
  <2>3. Reason("gemini", answer.reason) # ""
    BY <1>0, ReasonGiven, Zenon
  <2>4. Whole(protocol, answer).finish = MapFinishReason[Reason("gemini", answer.reason)]
    BY <1>6, FinishOfWhole
  <2>5. n = 1
    BY <1>3, <1>6
  <2> QED BY <1>4, <1>6, <2>2, <2>3, <2>4, <2>5, Zenon DEF r, f
<1>7. CASE protocol = "anthropic"
  <2>1. r = OnMessageEvent(parser, f)
    BY <1>7 DEF OnFrame
  <2>2. f.type = IF n = 1 THEN "message_delta" ELSE "message_stop"
    BY <1>2, <1>7 DEF Tails
  <2> HIDE DEF r, f
  <2>3. /\ f.type = "message_delta" => r.parser.finish = MapStopReason[f.reason]
        /\ f.type = "message_stop" => r.parser.finish = parser.finish
    BY <1>1, <2>1, MessageFinish
  <2>4. Whole(protocol, answer).finish = MapStopReason[Reason("anthropic", answer.reason)]
    BY <1>7, FinishOfWhole
  <2>5. n = 1 => f.reason = Reason("anthropic", answer.reason)
    BY <1>4, <1>7, Zenon
  <2> QED BY <2>2, <2>3, <2>4, <2>5 DEF r, f
<1>8. CASE protocol = "responses"
  <2>1. r = OnResponseEvent(parser, f)
    BY <1>8 DEF OnFrame
  <2>2. Reason(protocol, answer.reason) = "completed"
    BY <1>0, <1>8, ReasonGiven DEF Unread
  <2>3. f.type = "response.completed"
    BY <1>2, <1>8, <2>2 DEF Tails
  <2>4. n = 1
    BY <1>3, <1>8
  <2> HIDE DEF r, f
  <2>5. r.parser.finish = ResponsesFinish(parser.next > 0, f.reason)
    BY <1>1, <2>1, <2>3, ResponseFinish
  <2>6. parser.next > 0 <=> HasCalls(answer)
    <3>1. /\ IsFiniteSet(Answering) /\ Cardinality(Answering) \in Nat
          /\ Answering # {} <=> HasCalls(answer)
      BY <1>0, AnsweringSoFar
    <3>2. Cardinality(Answering) = 0 <=> Answering = {}
      BY <3>1, FS_EmptySet
    <3>3. parser.next = Cardinality(Answering)
      BY <1>8 DEF Counts
    <3> QED BY <3>1, <3>2, <3>3
  <2>7. Whole(protocol, answer).finish = ResponsesFinish(HasCalls(answer), Reason("responses", answer.reason))
    BY <1>8, FinishOfWhole
  <2>8. f.reason = Reason("responses", answer.reason)
    BY <1>4, <1>8, <2>4, Zenon
  <2> QED BY <2>5, <2>6, <2>7, <2>8 DEF ResponsesFinish, r, f
<1> QED BY <1>0, <1>5, <1>6, <1>7, <1>8 DEF Protocol

\* The blocks of an answer, while it stays the same.
LEMMA SameBlocks ==
  ASSUME answer' = answer, protocol' = protocol
  PROVE  /\ Ending' = Ending
         /\ \A k : /\ BlockAt(k)' = BlockAt(k) /\ NumberOf(k)' = NumberOf(k)
                   /\ Entry(k)' = Entry(k) /\ AtOnce(k)' = AtOnce(k)
                   /\ Lead(k)' = Lead(k) /\ Pieced(k)' = Pieced(k)
<1>1. Ending' = Ending /\ \A k : CallsBefore(k)' = CallsBefore(k)
  BY SameAnswer
<1>2. ASSUME NEW k
      PROVE  /\ BlockAt(k)' = BlockAt(k) /\ AtOnce(k)' = AtOnce(k) /\ Lead(k)' = Lead(k)
             /\ Pieced(k)' = Pieced(k)
  BY DEF BlockAt, AtOnce, Lead, Pieced
<1>3. ASSUME NEW k PROVE NumberOf(k)' = NumberOf(k) /\ NameOf(k)' = NameOf(k)
  BY <1>1, <1>2 DEF NumberOf, NameOf
<1>4. ASSUME NEW k PROVE Entry(k)' = Entry(k)
  BY <1>3 DEF Entry
<1> QED BY <1>1, <1>2, <1>3, <1>4

LEMMA PartsNext ==
  ASSUME answer' = answer, protocol' = protocol, NEW v
  PROVE  Parts(v)' = [k \in 1 .. Ending - 1 |-> To(v, k, arrived'[k])]
<1>1. Ending' = Ending
  BY SameBlocks
<1>2. ASSUME NEW k PROVE To(v, k, arrived[k])' = To(v, k, arrived'[k])
  <2>1. /\ BlockAt(k)' = BlockAt(k) /\ NumberOf(k)' = NumberOf(k)
        /\ Entry(k)' = Entry(k) /\ AtOnce(k)' = AtOnce(k)
        /\ Lead(k)' = Lead(k) /\ Pieced(k)' = Pieced(k)
    BY SameBlocks
  <2> QED BY <2>1 DEF To, Tells, Pre, PiecesIn
<1> QED BY <1>1, <1>2 DEF Parts

LEMMA PartsListed ==
  ASSUME Counted, NEW v
  PROVE  /\ Parts(v) \in Seq(Seq(Shows)) /\ Len(Parts(v)) = Ending - 1
         /\ \A k \in 1 .. Ending - 1 : /\ Parts(v)[k] = To(v, k, arrived[k])
                                       /\ arrived[k] \in 0 .. Framing(k)
         /\ FlattenSeq(Parts(v)) \in Seq(Shows)
<1>1. /\ answer \in AnswerType /\ protocol \in Protocol
      /\ Len(answer.blocks) \in Nat /\ Ending = Len(answer.blocks) + 1
  BY PartsOfAnswer DEF Counted
<1>2. ASSUME NEW k \in 1 .. Ending - 1
      PROVE  arrived[k] \in 0 .. Framing(k) /\ To(v, k, arrived[k]) \in Seq(Shows)
  <2>1. InBlocks(k) /\ k \in 0 .. Ending
    BY <1>1 DEF InBlocks
  <2>2. Framing(k) \in Nat /\ Len(FramesOf(k)) = Framing(k)
    BY <1>1, <2>1, FramingOfCall, BlockText
  <2>3. arrived[k] \in Nat /\ (arrived[k] = 0 \/ arrived[k] <= Framing(k))
    BY <2>1, <2>2 DEF Counted
  <2>4. arrived[k] \in 0 .. Framing(k)
    BY <2>2, <2>3
  <2> QED BY <1>1, <2>1, <2>4, ShowsGrow
<1> DEFINE ss == Parts(v)
           m == Ending - 1
<1>3. m \in Nat
  BY <1>1
<1>4. ss = [k \in 1 .. m |-> To(v, k, arrived[k])]
  BY DEF Parts
<1>5. \A k \in 1 .. m : To(v, k, arrived[k]) \in Seq(Shows)
  BY <1>2
<1> HIDE DEF ss, m
<1>6. ss \in Seq(Seq(Shows)) /\ Len(ss) = m /\ \A k \in 1 .. m : ss[k] = To(v, k, arrived[k])
  BY <1>3, <1>4, <1>5
<1>7. FlattenSeq(ss) \in Seq(Shows)
  BY <1>6, FlattenMore
<1> QED BY <1>2, <1>6, <1>7 DEF ss, m

\* What a frame adds is seen at the end of its block, behind which nothing is yet.
LEMMA ShownStep ==
  ASSUME Counted, InTurn, Counted', Shown, NEW k \in 0 .. Ending, CanSend(k),
         NEW n, n = arrived[k] + 1,
         arrived' = [arrived EXCEPT ![k] = n], UNCHANGED <<protocol, answer>>,
         NEW out, Utters(k, n, out), emitted' = emitted \o out
  PROVE  Shown'
<1>1. /\ answer \in AnswerType /\ protocol \in Protocol
      /\ Len(answer.blocks) \in Nat /\ Ending = Len(answer.blocks) + 1
      /\ n \in 1 .. Len(FramesOf(k)) /\ arrived[k] \in Nat /\ Ending' = Ending
      /\ arrived' \in [0 .. Ending -> Nat] /\ \A j \in 0 .. Ending : arrived[j] \in Nat
  BY NextInTurn, PartsOfAnswer, SameBlocks DEF Counted
<1>2. arrived'[k] = n /\ \A j \in 0 .. Ending : j # k => arrived'[j] = arrived[j]
  BY <1>1 DEF Counted
<1>3. Legible(emitted) /\ \A v : IsView(v) => Seen(v, emitted) = FlattenSeq(Parts(v))
  BY DEF Shown
<1>4. ASSUME NEW v
      PROVE  /\ Parts(v) \in Seq(Seq(Shows)) /\ Len(Parts(v)) = Ending - 1
             /\ \A j \in 1 .. Ending - 1 : Parts(v)[j] = To(v, j, arrived[j])
             /\ FlattenSeq(Parts(v)) \in Seq(Shows)
             /\ Parts(v)' = [j \in 1 .. Ending - 1 |-> To(v, j, arrived'[j])]
  BY PartsListed, PartsNext
<1>5. CASE ~InBlocks(k)
  <2>1. Quiet(out)
    BY <1>5 DEF Utters
  <2>2. ASSUME NEW v, IsView(v)
        PROVE  Legible(emitted \o out) /\ Seen(v, emitted \o out) = FlattenSeq(Parts(v)')
    <3>1. Parts(v)' = Parts(v)
      <4>1. \A j \in 1 .. Ending - 1 : j # k /\ j \in 0 .. Ending
        BY <1>1, <1>5 DEF InBlocks
      <4>2. \A j \in 1 .. Ending - 1 : To(v, j, arrived'[j]) = To(v, j, arrived[j])
        BY <1>2, <4>1
      <4>3. Parts(v) = [j \in 1 .. Ending - 1 |-> To(v, j, arrived[j])]
        BY DEF Parts
      <4> QED BY <1>4, <4>2, <4>3
    <3>2. Legible(out) /\ Seen(v, out) = <<>>
      BY <2>1, <2>2 DEF Quiet
    <3>3. /\ Legible(emitted \o out)
          /\ Seen(v, emitted \o out) = Seen(v, emitted) \o Seen(v, out)
      BY <1>3, <3>2, SeenOfTwo
    <3> DEFINE x == FlattenSeq(Parts(v))
    <3>4. Seen(v, emitted) = x /\ x \in Seq(Shows)
      BY <1>3, <1>4, <2>2
    <3> HIDE DEF x
    <3>5. x \o <<>> = x
      BY <3>4
    <3> QED BY <3>1, <3>2, <3>3, <3>4, <3>5 DEF x
  <2>3. IsView([kind |-> "call"])
    BY DEF IsView
  <2> QED BY <2>2, <2>3 DEF Shown
<1>6. CASE InBlocks(k)
  <2>0. /\ k \in 1 .. Ending - 1 /\ n \in 1 .. Framing(k) /\ Len(FramesOf(k)) = Framing(k)
        /\ n - 1 = arrived[k]
    <3>1. Len(FramesOf(k)) = Framing(k)
      BY <1>1, <1>6, BlockText
    <3>2. k \in 1 .. Ending - 1
      BY <1>6 DEF InBlocks
    <3>3. n - 1 = arrived[k]
      BY <1>1
    <3> QED BY <1>1, <3>1, <3>2, <3>3
  <2>1. ASSUME NEW j \in k + 1 .. Ending - 1, NEW v, Adds(v, k, n) # <<>>
        PROVE  To(v, j, arrived[j]) = <<>>
    <3>1. j \in 0 .. Ending /\ InBlocks(j) /\ k \in 0 .. j - 1 /\ j # k
      BY <1>1, <2>0 DEF InBlocks
    <3>2. CASE ~(arrived[j] > 0)
      <4>1. arrived[j] = 0
        BY <1>1, <3>1, <3>2
      <4> QED BY <1>1, <3>1, <4>1, ShowsGrow
    <3>3. CASE arrived[j] > 0
      <4>1. Through(k) \/ (Interleaves /\ IsCall(k) /\ IsCall(j) /\ arrived[k] > 0)
        BY <3>1, <3>3 DEF InTurn
      <4>2. Interleaves /\ IsCall(k) /\ IsCall(j) /\ arrived[k] > 0
        BY <4>1 DEF CanSend
      <4>3. BlockAt(k).kind = "call" /\ BlockAt(j).kind = "call" /\ n # 1
        BY <1>1, <4>2 DEF IsCall, BlockAt
      <4>4. v.kind # "call" /\ Tells(v, k)
        BY <2>1, <4>3 DEF Adds
      <4>5. NumberOf(k) # NumberOf(j)
        <5>1. NumberOf(k) = CallsBefore(k) /\ NumberOf(j) = CallsBefore(j)
          BY <4>2 DEF NumberOf, Interleaves
        <5> QED BY <1>1, <3>1, <4>2, <5>1, CallsAreNumbered
      <4>6. ~Tells(v, j)
        BY <4>3, <4>4, <4>5 DEF Tells
      <4> QED BY <4>4, <4>6 DEF To
    <3> QED BY <3>2, <3>3
  <2>2. ASSUME NEW v, IsView(v)
        PROVE  Legible(emitted \o out) /\ Seen(v, emitted \o out) = FlattenSeq(Parts(v)')
    <3> DEFINE ss == Parts(v)
               tt == Parts(v)'
               x == Adds(v, k, n)
               m == Ending - 1
    <3>1. Legible(out) /\ Seen(v, out) = x
      BY <1>6, <2>2 DEF Utters, Puts
    <3>2. /\ Legible(emitted \o out)
          /\ Seen(v, emitted \o out) = Seen(v, emitted) \o Seen(v, out)
      BY <1>3, <3>1, SeenOfTwo
    <3>3. ss \in Seq(Seq(Shows)) /\ Len(ss) = m /\ \A j \in 1 .. m : ss[j] = To(v, j, arrived[j])
      BY <1>4
    <3>4. x \in Seq(Shows) /\ To(v, k, n) = To(v, k, arrived[k]) \o x
      BY <1>1, <1>6, <2>0, ShowsGrow
    <3>5. tt = [j \in 1 .. m |-> To(v, j, arrived'[j])]
      BY <1>4
    <3>6. m \in Nat /\ k \in 1 .. m
      BY <1>1, <2>0
    <3>7. \A j \in 1 .. m : j # k => arrived'[j] = arrived[j]
      BY <1>1, <1>2
    <3>8. x # <<>> => \A j \in k + 1 .. m : To(v, j, arrived[j]) = <<>>
      BY <2>1
    <3> HIDE DEF ss, tt, x, m
    <3>9. \A j \in 1 .. m : tt[j] = To(v, j, arrived'[j])
      BY <3>5
    <3>10. tt[k] = ss[k] \o x
      BY <1>2, <3>3, <3>4, <3>6, <3>9
    <3>11. \A j \in 1 .. m : j # k => tt[j] = ss[j]
      BY <3>3, <3>7, <3>9
    <3>12. \A j \in k + 1 .. m : j \in 1 .. m
      BY <3>6
    <3>13. tt \in Seq(Seq(Shows)) /\ Len(tt) = m
      <4>1. \A j \in 1 .. m : ss[j] \in Seq(Shows)
        BY <3>3
      <4>2. ss[k] \o x \in Seq(Shows)
        BY <3>4, <3>6, <4>1
      <4>3. \A j \in 1 .. m : tt[j] \in Seq(Shows)
        BY <3>10, <3>11, <4>1, <4>2
      <4>4. \A j \in 1 .. m : To(v, j, arrived'[j]) \in Seq(Shows)
        BY <3>9, <4>3
      <4> QED BY <3>5, <3>6, <4>4
    <3>14. Grows(ss, tt, k, x)
      BY <3>3, <3>6, <3>8, <3>10, <3>11, <3>12, <3>13 DEF Grows
    <3>15. FlattenSeq(tt) = FlattenSeq(ss) \o x
      BY <3>3, <3>4, <3>13, <3>14, FlattenGrows
    <3>16. Seen(v, emitted) = FlattenSeq(ss)
      BY <1>3, <2>2 DEF ss
    <3> QED BY <3>1, <3>2, <3>15, <3>16 DEF tt
  <2>3. IsView([kind |-> "call"])
    BY DEF IsView
  <2> QED BY <2>2, <2>3 DEF Shown
<1> QED BY <1>5, <1>6

\* The calls that are announced after a frame of part k.
LEMMA AnsweringNext ==
  ASSUME Counted, NEW k \in 0 .. Ending, arrived' = [arrived EXCEPT ![k] = arrived[k] + 1],
         UNCHANGED <<protocol, answer>>
  PROVE  Answering' = Answered(k)
<1>1. /\ Len(answer.blocks) \in Nat /\ Ending = Len(answer.blocks) + 1
      /\ Ending' = Ending /\ (\A j : IsCall(j)' = IsCall(j)) /\ arrived \in [0 .. Ending -> Nat]
  BY PartsOfAnswer, SameAnswer DEF Counted
<1>2. /\ arrived'[k] > 0 /\ \A j \in 0 .. Ending : j # k => arrived'[j] = arrived[j]
  BY <1>1
<1>3. Answering' = {j \in 1 .. Ending - 1 : IsCall(j) /\ arrived'[j] > 0}
  BY <1>1 DEF Answering
<1>4. \A j \in 1 .. Ending - 1 : j \in 0 .. Ending
  BY <1>1
<1>5. IsCall(k) => k \in 1 .. Ending - 1
  BY DEF IsCall
<1> QED BY <1>2, <1>3, <1>4, <1>5 DEF Answering, Answered

-----------------------------------------------------------------------------
(* The next frame is read.                                                 *)

\* A frame that arrives undamaged is read as it was sent.
LEMMA ArriveReads ==
  ASSUME Heard, NEW k \in 0 .. Ending, Arrive(k), Trusted', NEW n, n = arrived[k] + 1
  PROVE  /\ Trusted /\ CanSend(k) /\ UNCHANGED <<protocol, answer>>
         /\ arrived' = [arrived EXCEPT ![k] = n]
         /\ parser' = OnFrame(protocol, parser, Sent(k, n)).parser
         /\ emitted' = emitted \o OnFrame(protocol, parser, Sent(k, n)).out
<1>1. /\ CanSend(k) /\ UNCHANGED <<protocol, answer>> /\ arrived' = [arrived EXCEPT ![k] = n]
      /\ garbled' = (garbled \/ (cut.inside /\ NextFrame(k).text # <<>>))
      /\ Read(IF cut.inside THEN Garbled(NextFrame(k)) ELSE NextFrame(k))
  BY DEF Arrive
<1>2. Trusted /\ (cut.inside => NextFrame(k).text = <<>>)
  BY <1>1, Zenon DEF Trusted
<1>3. NextFrame(k) = Sent(k, n)
  BY DEF NextFrame, Sent
<1>4. Read(Sent(k, n))
  BY <1>1, <1>2, <1>3 DEF Garbled
<1> DEFINE f == Sent(k, n)
<1>5. Read(f)
  BY <1>4
<1> HIDE DEF f
<1>6. parser' = OnFrame(protocol, parser, f).parser /\ emitted' = emitted \o OnFrame(protocol, parser, f).out
  BY <1>5 DEF Read
<1> QED BY <1>1, <1>2, <1>6 DEF f

\* What every adapter yields, and what it keeps of a call.
LEMMA FrameUtters ==
  ASSUME Heard, Open, Counts, Indexed, Trusted, NEW k \in 0 .. Ending, CanSend(k),
         NEW n, n = arrived[k] + 1, NEW r, r = OnFrame(protocol, parser, Sent(k, n))
  PROVE  /\ Utters(k, n, r.out)
         /\ protocol \in {"gemini", "responses"} =>
              r.parser.next = IF IsCall(k) /\ arrived[k] = 0 THEN parser.next + 1 ELSE parser.next
         /\ protocol = "responses" =>
              r.parser.indexes = IF IsCall(k) /\ arrived[k] = 0 THEN Append(parser.indexes, k - 1)
                                                                ELSE parser.indexes
<1> DEFINE f == Sent(k, n)
<1>1. /\ answer \in AnswerType /\ protocol \in Protocol /\ Counted /\ IsParser(parser)
      /\ n \in 1 .. Len(FramesOf(k)) /\ (k = 0 \/ k = Ending \/ InBlocks(k))
      /\ ~InBlocks(0) /\ ~InBlocks(Ending) /\ (k = 0 => n = 1)
  BY NextSent
<1>2. arrived[k] \in Nat /\ (n = 1 <=> arrived[k] = 0)
  BY <1>1 DEF Counted
<1>3. protocol \in {"gemini", "responses"} /\ IsCall(k) /\ arrived[k] = 0 => parser.next = CallsBefore(k)
  BY AnsweringSoFar DEF Counts
<1>4. CASE protocol = "openai"
  <2>1. r = OnChunk(parser, f)
    BY <1>4 DEF OnFrame
  <2> HIDE DEF f
  <2>2. Utters(k, n, OnChunk(parser, Sent(k, n)).out)
    BY <1>4, ChunkUtters DEF Trusted
  <2> QED BY <1>4, <2>1, <2>2 DEF f
<1>5. CASE protocol = "gemini"
  <2>1. r = OnGenerated(parser, f)
    BY <1>5 DEF OnFrame
  <2>2. IsCall(k) => arrived[k] = 0
    <3> SUFFICES ASSUME IsCall(k) PROVE arrived[k] = 0
      OBVIOUS
    <3>1. InBlocks(k) /\ BlockAt(k).kind = "call"
      BY DEF IsCall, InBlocks, BlockAt
    <3>2. Framing(k) = 1
      BY <1>5, <3>1 DEF Framing, AtOnce
    <3>3. n \in 1 .. Framing(k)
      BY <3>1, NextSent
    <3> QED BY <1>2, <3>2, <3>3
  <2>3. f.delta = "call" <=> IsCall(k)
    <3>1. CASE InBlocks(k)
      <4>1. f.delta = BlockAt(k).kind
        BY <1>1, <1>5, <3>1, BlockSent DEF Generated
      <4>2. IsCall(k) <=> BlockAt(k).kind = "call"
        BY <3>1, NextSent
      <4> QED BY <4>1, <4>2
    <3>2. CASE ~InBlocks(k)
      <4>1. f.delta = "none"
        BY <1>1, <3>2, HeadSent, TailSent DEF Heads, Tails
      <4> QED BY <3>2, <4>1 DEF IsCall, InBlocks
    <3> QED BY <3>1, <3>2
  <2> HIDE DEF f
  <2>4. r.parser.next = IF f.delta = "call" THEN parser.next + 1 ELSE parser.next
    <3>1. OnGenerated(parser, f).parser.next = IF f.delta = "call" THEN parser.next + 1 ELSE parser.next
      BY <1>1, GeneratedFinish, Zenon
    <3> QED BY <2>1, <3>1
  <2>5. Utters(k, n, OnGenerated(parser, Sent(k, n)).out)
    BY <1>3, <1>5, <2>2, GeneratedUtters
  <2> QED BY <1>5, <2>1, <2>2, <2>3, <2>4, <2>5 DEF f
<1>6. CASE protocol = "anthropic"
  <2>1. r = OnMessageEvent(parser, f)
    BY <1>6 DEF OnFrame
  <2> HIDE DEF f
  <2>2. Utters(k, n, OnMessageEvent(parser, Sent(k, n)).out)
    BY <1>6, MessageUtters
  <2> QED BY <1>6, <2>1, <2>2 DEF f
<1>7. CASE protocol = "responses"
  <2>1. r = OnResponseEvent(parser, f)
    BY <1>7 DEF OnFrame
  <2>2. (Announces(f) <=> IsCall(k) /\ arrived[k] = 0) /\ (Announces(f) => f.index = k - 1)
    <3>1. CASE InBlocks(k)
      <4>1. Itemised(k, n, f)
        BY <1>1, <1>7, <3>1, BlockSent
      <4>2. (IsCall(k) <=> BlockAt(k).kind = "call") /\ n \in Nat /\ (n = 1 \/ n > 1)
            /\ BlockAt(k).kind \in {"text", "think", "call"}
        BY <1>1, <1>2, <3>1, NextSent
      <4>3. CASE n = 1
        <5>1. /\ f.type = "response.output_item.added" /\ f.index = k - 1
              /\ f.delta = IF IsCall(k) THEN "call" ELSE "none"
          BY <4>1, <4>2, <4>3 DEF Itemised
        <5> QED BY <1>2, <4>3, <5>1 DEF Announces
      <4>4. CASE n > 1
        <5>1. f.type \in {"response.function_call_arguments.delta", "response.output_text.delta",
                          "response.reasoning_summary_text.delta"}
          BY <4>1, <4>2, <4>4 DEF Itemised
        <5>2. n # 1
          BY <4>2, <4>4
        <5> QED BY <1>2, <5>1, <5>2 DEF Announces
      <4> QED BY <4>2, <4>3, <4>4
    <3>2. CASE ~InBlocks(k)
      <4>1. f.delta = "none"
        BY <1>1, <3>2, HeadSent, TailSent DEF Heads, Tails
      <4> QED BY <3>2, <4>1 DEF IsCall, InBlocks, Announces
    <3> QED BY <3>1, <3>2
  <2> HIDE DEF f
  <2>3. /\ Announces(f) => /\ r.parser.next = parser.next + 1
                           /\ r.parser.indexes = Append(parser.indexes, f.index)
        /\ ~Announces(f) => r.parser.next = parser.next /\ r.parser.indexes = parser.indexes
    BY <1>1, <2>1, ResponseFinish
  <2>4. Utters(k, n, OnResponseEvent(parser, Sent(k, n)).out)
    BY <1>3, <1>7, ResponseUtters
  <2> QED BY <2>1, <2>2, <2>3, <2>4 DEF f
<1> QED BY <1>1, <1>4, <1>5, <1>6, <1>7 DEF Protocol

LEMMA ArriveBelieved ==
  ASSUME phase = "reading", Heard, Open, Counted', Believed, NEW k \in 0 .. Ending, Arrive(k)
  PROVE  Believed'
<1> SUFFICES ASSUME Trusted' PROVE Shown' /\ Counts' /\ Indexed' /\ Concluded'
  BY DEF Believed
<1> DEFINE n == arrived[k] + 1
           r == OnFrame(protocol, parser, Sent(k, n))
           new == IsCall(k) /\ arrived[k] = 0
<1>1. /\ Trusted /\ CanSend(k) /\ UNCHANGED <<protocol, answer>>
      /\ arrived' = [arrived EXCEPT ![k] = n]
      /\ parser' = r.parser /\ emitted' = emitted \o r.out
  <2> HIDE DEF n
  <2>1. n = arrived[k] + 1
    BY DEF n
  <2> QED BY <2>1, ArriveReads
<1>2. Shown /\ Counts /\ Indexed /\ Concluded /\ Counted /\ InTurn /\ IsParser(parser)
  BY <1>1 DEF Believed, Heard
<1>3. /\ Utters(k, n, r.out)
      /\ protocol \in {"gemini", "responses"} =>
           parser'.next = IF new THEN parser.next + 1 ELSE parser.next
      /\ protocol = "responses" =>
           parser'.indexes = IF new THEN Append(parser.indexes, k - 1) ELSE parser.indexes
  <2> HIDE DEF n, r
  <2>1. n = arrived[k] + 1 /\ r = OnFrame(protocol, parser, Sent(k, n))
    BY DEF n, r
  <2>2. /\ Utters(k, n, r.out)
        /\ protocol \in {"gemini", "responses"} =>
             r.parser.next = IF IsCall(k) /\ arrived[k] = 0 THEN parser.next + 1 ELSE parser.next
        /\ protocol = "responses" =>
             r.parser.indexes = IF IsCall(k) /\ arrived[k] = 0 THEN Append(parser.indexes, k - 1)
                                                               ELSE parser.indexes
    BY <1>1, <1>2, <2>1, FrameUtters
  <2> QED BY <1>1, <2>2
<1>4. /\ Ending' = Ending /\ Unread' = Unread /\ (\A j : CallsBefore(j)' = CallsBefore(j))
      /\ Answering' = Answered(k)
  BY <1>1, <1>2, SameAnswer, AnsweringNext
<1>5. Shown'
  <2> DEFINE out == r.out
  <2> HIDE DEF n, out
  <2>1. n = arrived[k] + 1 /\ emitted' = emitted \o out /\ Utters(k, n, out)
    BY <1>1, <1>3 DEF n, out
  <2> QED BY <1>1, <1>2, <2>1, ShownStep
<1>6. /\ IsFiniteSet(Answering) /\ Cardinality(Answering) \in Nat
      /\ new => k \notin Answering /\ Cardinality(Answering) = CallsBefore(k)
  BY <1>1, AnsweringSoFar
<1>7. /\ new => Answered(k) = Answering \union {k}
      /\ ~new => Answered(k) = Answering
  <2>1. ~new => ~IsCall(k) \/ arrived[k] > 0
    BY <1>2 DEF Counted
  <2>2. ~new => Answered(k) = Answering
    BY <1>2, <2>1, AnsweredSets
  <2> QED BY <2>2 DEF Answered
<1> HIDE DEF n, r, new
<1>8. Counts'
  <2> SUFFICES ASSUME protocol \in {"gemini", "responses"}
               PROVE  parser'.next = Cardinality(Answered(k))
    BY <1>1, <1>4 DEF Counts
  <2>1. parser.next = Cardinality(Answering)
    BY <1>2 DEF Counts
  <2>2. CASE new
    <3>1. Cardinality(Answering \union {k}) = Cardinality(Answering) + 1
      BY <1>6, <2>2, FS_AddElement
    <3> QED BY <1>3, <1>7, <2>1, <2>2, <3>1
  <2>3. CASE ~new
    BY <1>3, <1>7, <2>1, <2>3
  <2> QED BY <2>2, <2>3
<1>9. Indexed'
  <2> SUFFICES ASSUME protocol = "responses", NEW i \in 1 .. Len(parser'.indexes)
               PROVE  \E j \in Answered(k) : i = CallsBefore(j) + 1 /\ parser'.indexes[i] = j - 1
    BY <1>1, <1>4 DEF Indexed
  <2> DEFINE old == parser.indexes
  <2>1. old \in Seq(Int) /\ parser.next = Len(old) /\ Len(old) \in Nat
    BY DEF Open, Heard, IsParser, Parsers
  <2>2. \A m \in 1 .. Len(old) :
           \E j \in Answering : m = CallsBefore(j) + 1 /\ old[m] = j - 1
    BY <1>2 DEF Indexed
  <2>3. Answering \subseteq Answered(k)
    BY DEF Answered
  <2> HIDE DEF old
  <2>4. CASE ~new
    <3>1. parser'.indexes = old
      BY <1>3, <2>4 DEF old
    <3> QED BY <2>2, <2>3, <3>1
  <2>5. CASE new
    <3>1. parser'.indexes = Append(old, k - 1)
      BY <1>3, <2>5 DEF old
    <3>2. k \in Nat
      BY <1>2 DEF Counted
    <3>3. /\ Len(Append(old, k - 1)) = Len(old) + 1 /\ Append(old, k - 1)[Len(old) + 1] = k - 1
          /\ \A m \in 1 .. Len(old) : Append(old, k - 1)[m] = old[m]
      BY <2>1, AppendProperties
    <3>4. CASE i \in 1 .. Len(old)
      <4>1. parser'.indexes[i] = old[i]
        BY <3>1, <3>3, <3>4
      <4>2. PICK j \in Answering : i = CallsBefore(j) + 1 /\ old[i] = j - 1
        BY <2>2, <3>4
      <4> QED BY <2>3, <4>1, <4>2
    <3>5. CASE i = Len(old) + 1
      <4>1. k \in Answered(k)
        BY <1>7, <2>5
      <4>2. Len(old) = CallsBefore(k)
        BY <1>2, <1>6, <2>1, <2>5 DEF Counts
      <4> QED BY <3>1, <3>3, <3>5, <4>1, <4>2
    <3>6. i \in 1 .. Len(old) + 1
      BY <3>1, <3>3
    <3> QED BY <2>1, <3>4, <3>5, <3>6
  <2> QED BY <2>4, <2>5
<1>10. Concluded'
  <2> SUFFICES ASSUME arrived'[Ending] > 0, ~Unread
               PROVE  parser'.finish = Whole(protocol, answer).finish
    BY <1>1, <1>4 DEF Concluded
  <2>1. /\ Ending \in Nat /\ k \in Nat /\ arrived \in [0 .. Ending -> Nat]
        /\ Ending \in 0 .. Ending
    <3>1. answer \in AnswerType
      BY <1>2 DEF Counted
    <3>2. Len(answer.blocks) \in Nat /\ Ending = Len(answer.blocks) + 1
      BY <3>1, PartsOfAnswer
    <3> QED BY <1>2, <3>2 DEF Counted
  <2>2. k = Ending
    <3> SUFFICES ASSUME k # Ending PROVE FALSE
      OBVIOUS
    <3>1. arrived[Ending] > 0 /\ k \in 0 .. Ending - 1
      BY <1>1, <2>1
    <3>2. Through(k) \/ IsCall(Ending)
      BY <1>2, <2>1, <3>1 DEF InTurn
    <3> QED BY <1>1, <2>1, <3>2 DEF CanSend, IsCall
  <2>3. n # 1 => parser.finish = Whole(protocol, answer).finish
    <3>1. n # 1 => arrived[Ending] > 0
      BY <2>1, <2>2 DEF n
    <3> QED BY <1>2, <3>1 DEF Concluded
  <2>4. n = arrived[Ending] + 1 /\ CanSend(Ending)
    BY <1>1, <2>2 DEF n
  <2>5. OnFrame(protocol, parser, Sent(Ending, n)).parser.finish = Whole(protocol, answer).finish
    BY <1>2, <2>3, <2>4, FinishIsWhole
  <2> QED BY <1>1, <2>2, <2>5 DEF r
<1> QED BY <1>5, <1>8, <1>9, <1>10

-----------------------------------------------------------------------------
(* Every step keeps what has been read.                                    *)

\* Nothing that can be seen has come, and the parser kept what it knew.
LEMMA BelievedStays ==
  ASSUME Counted, Believed, UNCHANGED <<protocol, answer, arrived, garbled>>,
         parser'.next = parser.next, parser'.indexes = parser.indexes,
         parser'.finish = parser.finish,
         NEW out, Quiet(out), emitted' = emitted \o out \/ emitted' = emitted
  PROVE  Believed'
<1> SUFFICES ASSUME Trusted' PROVE Shown' /\ Counts' /\ Indexed' /\ Concluded'
  BY DEF Believed
<1>1. Shown /\ Counts /\ Indexed /\ Concluded
  BY DEF Believed, Trusted
<1>2. /\ Ending' = Ending /\ Unread' = Unread /\ (\A j : CallsBefore(j)' = CallsBefore(j))
      /\ \A j : IsCall(j)' = IsCall(j)
  BY SameAnswer
<1>3. Answering' = Answering
  BY <1>2 DEF Answering
<1>4. \A v : Parts(v)' = Parts(v)
  BY PartsNext DEF Parts
<1>5. ASSUME NEW v, IsView(v)
      PROVE  Legible(emitted \o out) /\ Seen(v, emitted \o out) = FlattenSeq(Parts(v))
  <2> DEFINE x == FlattenSeq(Parts(v))
  <2>1. Legible(emitted) /\ Legible(out) /\ Seen(v, emitted) = x /\ Seen(v, out) = <<>>
    BY <1>1, <1>5 DEF Shown, Quiet
  <2>2. x \in Seq(Shows)
    BY PartsListed
  <2> HIDE DEF x
  <2>3. /\ Legible(emitted \o out)
        /\ Seen(v, emitted \o out) = Seen(v, emitted) \o Seen(v, out)
    BY <2>1, SeenOfTwo
  <2>4. x \o <<>> = x
    BY <2>2
  <2> QED BY <2>1, <2>3, <2>4 DEF x
<1>6. Shown'
  <2>1. IsView([kind |-> "call"])
    BY DEF IsView
  <2>2. Legible(emitted') /\ \A v : IsView(v) => Seen(v, emitted') = FlattenSeq(Parts(v))
    BY <1>1, <1>5, <2>1 DEF Shown
  <2> QED BY <1>4, <2>2 DEF Shown
<1>7. Counts'
  BY <1>1, <1>3 DEF Counts
<1>8. Indexed'
  BY <1>1, <1>2, <1>3 DEF Indexed
<1>9. Concluded'
  BY <1>1, <1>2 DEF Concluded
<1> QED BY <1>6, <1>7, <1>8, <1>9

LEMMA ErrorBelieved ==
  ASSUME phase = "reading", Heard, Open, Believed, ArriveError
  PROVE  Believed'
<1> DEFINE f == Frame("error")
           r == OnFrame(protocol, parser, f)
<1>1. /\ UNCHANGED <<protocol, answer, arrived, garbled>> /\ protocol \in Protocol
      /\ IsParser(parser) /\ Stream(emitted) /\ Counted
  BY DEF ArriveError, Heard, Counted, Open
<1>2. parser' = r.parser /\ emitted' = emitted \o r.out
  <2> HIDE DEF f
  <2>1. Read(f)
    BY DEF ArriveError, f
  <2> QED BY <2>1 DEF Read
<1>3. f.type = "error" /\ Plain(f) /\ f.delta = "none"
  BY PlainFrame
<1>4. CASE protocol = "openai"
  <2>1. r.parser = parser /\ r.out = <<>>
    BY <1>3, <1>4 DEF OnFrame, OnChunk
  <2> HIDE DEF r
  <2> QED BY <1>1, <1>2, <2>1, QuietNone, BelievedStays
<1>5. CASE protocol = "gemini"
  <2>1. r = OnGenerated(parser, f)
    BY <1>5 DEF OnFrame
  <2>2. f.reason = "" /\ f.usage \in Report
    BY <1>3, Zenon DEF Plain, Report
  <2>3. \E b, u : r.out = StartedUnless(b) \o UsageUpdated(u) \o <<>>
    <3> DEFINE u == IF f.usage = {} THEN {} ELSE MergedUsage(parser.usage, f.usage)
               last == CASE f.delta = "think" -> Delta("reasoning", 0, f.text)
                         [] f.delta = "text" -> Delta("content", 0, f.text)
                         [] f.delta = "call" ->
                              CallStarted(parser.next, GeminiCallId(parser.next))
                              \o (IF f.text = <<>> THEN <<>> ELSE Delta("args", parser.next, f.text))
                         [] OTHER -> <<>>
    <3> HIDE DEF r, f
    <3>1. r.out = StartedUnless(parser.started) \o UsageUpdated(u) \o last
      BY <2>1 DEF OnGenerated
    <3>2. last = <<>>
      BY <1>3
    <3> HIDE DEF u, last
    <3> QED BY <3>1, <3>2
  <2> HIDE DEF r, f
  <2>4. Quiet(r.out)
    BY <2>3, QuietEvents, QuietNone, QuietTwo
  <2>5. (parser.started <=> emitted # <<>>) /\ Opened(emitted) = 0 .. parser.next - 1
        /\ parser.next \in Nat
    BY <1>1, <1>5 DEF Open, IsParser, Parsers
  <2>6. f.reason = "" => OnGenerated(parser, f).parser.finish = parser.finish
    BY <1>1, <2>2, <2>5, GeneratedRead, Zenon
  <2>7. r.parser.finish = parser.finish
    BY <2>1, <2>2, <2>6, Zenon
  <2>8. r.parser.next = parser.next
    <3>1. OnGenerated(parser, f).parser.next = IF f.delta = "call" THEN parser.next + 1 ELSE parser.next
      BY <1>1, GeneratedFinish, Zenon
    <3> QED BY <1>3, <2>1, <3>1
  <2>9. CASE Trusted
    <3>1. r.parser.indexes = parser.indexes
      <4>1. PICK F : parser \in Parsers(F)
        BY <1>1 DEF IsParser
      <4> DEFINE finish == IF f.reason = "" THEN parser.finish ELSE MapFinishReason[f.reason]
                 usage == TakeUsage(parser.usage, f.usage)
                 next == IF f.delta = "call" THEN NextCall(parser) ELSE parser.next
                 p == r.parser
      <4>2. p = [parser EXCEPT !.started = TRUE, !.finish = finish, !.usage = usage, !.next = next]
        BY <2>1 DEF OnGenerated
      <4> HIDE DEF p, finish, usage, next
      <4>3. p.indexes = parser.indexes
        BY <4>1, <4>2 DEF Parsers
      <4> QED BY <4>3 DEF p
    <3> QED BY <1>1, <1>2, <2>4, <2>7, <2>8, <3>1, BelievedStays
  <2>10. CASE ~Trusted
    BY <1>1, <2>10 DEF Believed, Trusted
  <2> QED BY <2>9, <2>10
<1>6. CASE protocol \in {"anthropic", "responses"}
  <2>1. r.parser = parser /\ r.out = <<Event("error")>>
    BY <1>3, <1>6 DEF OnFrame, OnMessageEvent, OnResponseEvent
  <2> HIDE DEF r, f
  <2>2. Quiet(r.out)
    BY <2>1, QuietEvents
  <2> QED BY <1>1, <1>2, <2>1, <2>2, BelievedStays
<1> QED BY <1>1, <1>4, <1>5, <1>6 DEF Protocol

LEMMA OpenBelieved ==
  ASSUME Silent, NEW a \in AnswerType, UNCHANGED <<protocol, parser, emitted>>,
         protocol \in Protocol, answer' = a,
         arrived' = [k \in 0 .. Len(a.blocks) + 1 |-> 0]
  PROVE  Believed'
<1>1. Len(a.blocks) \in Nat
  BY DEF AnswerType
<1>2. Ending' = Len(a.blocks) + 1 /\ Ending' \in Nat
  BY <1>1 DEF Ending
<1>3. /\ \A k \in 0 .. Ending' : arrived'[k] = 0
      /\ Ending' \in 0 .. Ending' /\ \A k \in 1 .. Ending' - 1 : k \in 0 .. Ending'
  BY <1>1, <1>2
<1>4. emitted' = <<>> /\ parser'.next = 0 /\ parser'.indexes = <<>>
  BY FreshStream DEF Silent
<1>5. Answering' = {}
  BY <1>3 DEF Answering
<1>6. Counts'
  BY <1>4, <1>5, FS_EmptySet DEF Counts
<1>7. Indexed'
  <2>1. 1 .. Len(<<>>) = {}
    OBVIOUS
  <2> QED BY <1>4, <2>1 DEF Indexed
<1>8. Concluded'
  <2>1. ~(arrived'[Ending'] > 0)
    BY <1>3
  <2> QED BY <2>1 DEF Concluded
<1>9. Shown'
  <2>1. ASSUME NEW v PROVE FlattenSeq(Parts(v)') = <<>>
    <3> DEFINE m == Ending' - 1
               tt == Parts(v)'
    <3>1. m \in Nat
      BY <1>1, <1>2
    <3>2. ASSUME NEW k \in 1 .. m PROVE To(v, k, arrived[k])' = <<>>
      <4>1. arrived'[k] = 0
        BY <1>3, <3>2
      <4>2. Pre(k, arrived[k])' = <<>>
        <5>1. Lead(k)' >= 0
          BY DEF Lead
        <5>2. PiecesIn(k, arrived[k])' = 0
          BY <4>1, <5>1 DEF PiecesIn
        <5>3. \A s \in Seq(STRING) : SubSeq(s, 1, 0) = <<>>
          OBVIOUS
        <5>4. a.blocks \in Seq(Block) /\ k \in 1 .. Len(a.blocks)
          BY <1>1, <1>2, <3>2 DEF AnswerType
        <5>5. a.blocks[k].pieces \in Seq(STRING)
          <6>1. a.blocks[k] \in Block
            BY <5>4
          <6> QED BY <6>1 DEF Block
        <5>6. BlockAt(k)' = a.blocks[k]
          BY DEF BlockAt
        <5> QED BY <5>2, <5>3, <5>5, <5>6 DEF Pre
      <4> QED BY <4>1, <4>2 DEF To
    <3>3. tt = [k \in 1 .. m |-> <<>>]
      BY <3>2 DEF Parts
    <3> HIDE DEF tt, m
    <3>4. tt \in Seq(Seq({})) /\ \A k \in 1 .. Len(tt) : tt[k] = <<>>
      BY <3>1, <3>3
    <3>5. FlattenSeq(tt) = <<>>
      BY <3>4, FlattenEmpties
    <3> QED BY <3>5 DEF tt
  <2>2. Legible(emitted') /\ \A v : Seen(v, emitted') = <<>>
    BY <1>4, SeenOfNone
  <2> QED BY <2>1, <2>2 DEF Shown
<1> QED BY <1>6, <1>7, <1>8, <1>9 DEF Believed

\* A stream that is read may be believed, and what it ends with is the parser's
\* reason.
ReadInv ==
  /\ phase = "reading" => Believed
  /\ phase = "done" /\ ~Silent =>
       Believed /\ (result.outcome = "ok" => Last(emitted).finish = parser.finish)

LEMMA ReadInit == Init => ReadInv
BY DEF Init, ReadInv

LEMMA ReadNext == StreamInv /\ StreamInv' /\ ReadInv /\ [Next]_vars => ReadInv'
<1> SUFFICES ASSUME StreamInv, StreamInv', ReadInv, [Next]_vars PROVE ReadInv'
  OBVIOUS
<1>1. ASSUME phase \in {"idle", "sent"}, phase' \in {"sent", "done"}, UNCHANGED <<protocol, stream>>
      PROVE  ReadInv'
  BY <1>1 DEF StreamInv, ReadInv, Silent, stream
<1>2. ASSUME NEW o, NEW p, NEW m, Begin(o, p, m) PROVE ReadInv'
  <2>1. Silent /\ phase' \in {"sent", "done"} /\ UNCHANGED stream
    BY <1>2 DEF Begin, StreamInv
  <2> QED BY <2>1 DEF ReadInv, Silent, stream
<1>3. ASSUME NEW outcome, Finish(outcome) PROVE ReadInv'
  BY <1>1, <1>3 DEF Finish
<1>4. ASSUME NEW page, NEW more, TakePage(page, more) PROVE ReadInv'
  BY <1>1, <1>4 DEF TakePage
<1>5. ASSUME NEW a \in Answers, OpenStream(a) PROVE ReadInv'
  <2>1. Silent /\ protocol \in Protocol /\ a \in AnswerType
    BY <1>5, AnswersAssumption DEF OpenStream, StreamInv
  <2>2. Believed'
    BY <1>5, <2>1, OpenBelieved DEF OpenStream
  <2> QED BY <1>5, <2>2 DEF OpenStream, ReadInv
<1>6. ASSUME phase = "reading" PROVE Heard /\ Open /\ Believed /\ Counted /\ IsSeq(emitted) /\ IsParser(parser)
  BY <1>6 DEF StreamInv, ReadInv, Heard, Open, Stream
<1>7. ASSUME NEW k \in DOMAIN arrived, Arrive(k) PROVE ReadInv'
  <2>1. phase = "reading"
    BY <1>7 DEF Arrive
  <2>2. k \in 0 .. Ending
    BY <1>6, <1>7, <2>1 DEF Counted
  <2>3. phase' = "reading" /\ Heard'
    BY <1>6, <1>7, <2>1, <2>2, ArriveKeeps
  <2>4. Believed'
    BY <1>6, <1>7, <2>1, <2>2, <2>3, ArriveBelieved DEF Heard
  <2> QED BY <2>3, <2>4 DEF ReadInv
<1>8. ASSUME NEW k, NEW inside, ArrivePart(k, inside) PROVE ReadInv'
  <2>1. phase = "reading" /\ phase' = phase
        /\ UNCHANGED <<protocol, answer, arrived, garbled, parser, emitted>>
    BY <1>8 DEF ArrivePart
  <2>2. Believed'
    BY <1>6, <2>1, QuietNone, BelievedStays
  <2> QED BY <2>1, <2>2 DEF ReadInv
<1>9. CASE ArriveError
  <2>1. phase = "reading"
    BY <1>9 DEF ArriveError
  <2>2. Believed'
    BY <1>6, <1>9, <2>1, ErrorBelieved
  <2>3. phase' = phase \/ (phase' = "done" /\ result'.outcome # "ok")
    BY <1>9 DEF ArriveError, Read, Failed
  <2> QED BY <2>1, <2>2, <2>3 DEF ReadInv
<1>10. ASSUME phase = "reading", phase' = "done", NEW e, e.text = <<>>, e.kind \in {"completed", "error"},
              emitted' = Append(emitted, e), UNCHANGED <<protocol, answer, arrived, garbled, parser>>,
              result'.outcome = "ok" => e.finish = parser.finish
       PROVE  ReadInv'
  <2>1. emitted' = emitted \o <<e>> /\ Quiet(<<e>>)
    BY <1>6, <1>10, OneMore, QuietOne
  <2>2. Believed'
    BY <1>6, <1>10, <2>1, BelievedStays
  <2>3. Last(emitted') = e
    <3>1. Len(emitted) \in Nat /\ Len(emitted') = Len(emitted) + 1 /\ emitted'[Len(emitted) + 1] = e
      BY <1>6, <1>10, OneMore
    <3> QED BY <3>1 DEF Last
  <2> QED BY <1>10, <2>2, <2>3 DEF ReadInv
<1>11. CASE End
  <2> DEFINE e == [Event("completed") EXCEPT !.finish = parser.finish, !.usage = parser.usage]
  <2>1. e.kind = "completed" /\ e.finish = parser.finish /\ e.text = <<>>
    BY DEF Event
  <2>2. /\ phase = "reading" /\ phase' = "done" /\ emitted' = Append(emitted, e)
        /\ UNCHANGED <<protocol, answer, arrived, garbled, parser>>
    BY <1>11 DEF End
  <2> HIDE DEF e
  <2> QED BY <1>10, <2>1, <2>2
<1>12. ASSUME NEW category, Break(category) PROVE ReadInv'
  <2> DEFINE e == Event("error")
  <2>1. e.kind = "error" /\ e.text = <<>>
    BY DEF Event
  <2>2. /\ phase = "reading" /\ phase' = "done" /\ emitted' = Append(emitted, e)
        /\ UNCHANGED <<protocol, answer, arrived, garbled, parser>>
        /\ result'.outcome # "ok"
    BY <1>12 DEF Break, Failed
  <2> HIDE DEF e
  <2> QED BY <1>10, <2>1, <2>2
<1>13. CASE Return
  BY <1>13 DEF Return, ReadInv
<1>14. CASE UNCHANGED vars
  <2>1. UNCHANGED <<protocol, answer, arrived, garbled, parser, emitted, phase, result>>
    BY <1>14 DEF vars, stream
  <2>2. Silent' <=> Silent
    BY <2>1 DEF Silent
  <2>3. CASE phase = "reading" \/ (phase = "done" /\ ~Silent)
    <3>1. Counted /\ Believed
      BY <2>3 DEF StreamInv, ReadInv, Heard
    <3>2. Believed'
      BY <2>1, <3>1, QuietNone, BelievedStays
    <3> QED BY <2>1, <2>2, <3>2 DEF ReadInv
  <2>4. CASE ~(phase = "reading" \/ (phase = "done" /\ ~Silent))
    BY <2>1, <2>2, <2>4 DEF ReadInv
  <2> QED BY <2>3, <2>4
<1> QED BY <1>2, <1>3, <1>4, <1>5, <1>7, <1>8, <1>9, <1>11, <1>12, <1>13, <1>14
        DEF Next, Unreachable, Refuse, Unreadable, AnswerHealthy, AnswerWhole,
            AnswerVectorsSkipping, AnswerVectorsInPlace, AnswerList, AnswerPageAfter,
            AnswerPageToken

-----------------------------------------------------------------------------
(* Everything has arrived.                                                 *)

\* Every frame of the answer has arrived.
Delivered == \A k \in 0 .. Ending : Through(k)

LEMMA PartsDelivered ==
  ASSUME Counted, Delivered, NEW v
  PROVE  \A k \in 1 .. Ending - 1 :
           Parts(v)[k] = IF v.kind = "call"
                           THEN IF BlockAt(k).kind = "call" THEN <<Entry(k)>> ELSE <<>>
                           ELSE IF Tells(v, k) THEN BlockAt(k).pieces ELSE <<>>
<1> TAKE k \in 1 .. Ending - 1
<1>1. answer \in AnswerType /\ protocol \in Protocol /\ InBlocks(k) /\ k \in 0 .. Ending
  <2>1. answer \in AnswerType /\ protocol \in Protocol
    BY DEF Counted
  <2>2. Len(answer.blocks) \in Nat /\ Ending = Len(answer.blocks) + 1
    BY <2>1, PartsOfAnswer
  <2> QED BY <2>1, <2>2 DEF InBlocks
<1>2. arrived[k] = Framing(k)
  BY <1>1, BlockText DEF Delivered, Through
<1>3. Parts(v)[k] = To(v, k, Framing(k))
  BY <1>2, PartsListed
<1>4. Pre(k, Framing(k)) = BlockAt(k).pieces
  BY <1>1, TextGrows
<1>5. BlockAt(k).kind = "call" => Framing(k) > 0
  BY <1>1, FramingOfCall
<1> QED BY <1>3, <1>4, <1>5 DEF To

LEMMA GatheredIsSeen ==
  ASSUME NEW kind, NEW index
  PROVE  /\ kind # "call" => Gathered(kind, index) = Seen([kind |-> kind, index |-> index], emitted)
         /\ CallsGathered = Seen([kind |-> "call", index |-> 0], emitted)
<1>1. ASSUME kind # "call"
      PROVE  Gathered(kind, index) = Seen([kind |-> kind, index |-> index], emitted)
  <2> DEFINE v == [kind |-> kind, index |-> index]
  <2>1. \A e : See(v, e) = IF e.kind = kind /\ e.index = index THEN e.text ELSE <<>>
    BY <1>1 DEF See
  <2> HIDE DEF v
  <2>2. Gathered(kind, index) = Seen(v, emitted)
    BY <2>1, Zenon DEF Gathered, Seen
  <2> QED BY <2>2 DEF v
<1>2. CallsGathered = Seen([kind |-> "call", index |-> 0], emitted)
  <2> DEFINE v == [kind |-> "call", index |-> 0]
  <2>1. \A e : See(v, e) = IF e.kind = "call" THEN <<[index |-> e.index, id |-> e.id]>> ELSE <<>>
    BY DEF See
  <2> HIDE DEF v
  <2>2. CallsGathered = Seen(v, emitted)
    BY <2>1, Zenon DEF CallsGathered, Seen
  <2> QED BY <2>2 DEF v
<1> QED BY <1>1, <1>2

\* The texts and the thoughts come out as in the whole answer.
LEMMA TextsRead ==
  ASSUME Counted, Delivered, Shown,
         NEW kind, NEW of, <<kind, of>> \in {<<"content", "text">>, <<"reasoning", "think">>}
  PROVE  Gathered(kind, 0) = Joined(answer, of)
<1> DEFINE v == [kind |-> kind, index |-> 0]
<1>1. (kind = "content" /\ of = "text") \/ (kind = "reasoning" /\ of = "think")
  OBVIOUS
<1>2. IsView(v) /\ v.kind = kind /\ kind # "call" /\ kind # "args"
  BY <1>1 DEF IsView
<1>3. \A k : Tells(v, k) <=> BlockAt(k).kind = of
  BY <1>1 DEF Tells
<1>4. Gathered(kind, 0) = Seen(v, emitted)
  BY <1>2, GatheredIsSeen
<1> HIDE DEF v
<1>5. Seen(v, emitted) = FlattenSeq(Parts(v))
  BY <1>2 DEF Shown
<1> DEFINE m == Ending - 1
           tt == [k \in 1 .. m |-> IF BlockAt(k).kind = of THEN BlockAt(k).pieces ELSE <<>>]
<1>6. m = Len(answer.blocks)
  BY PartsOfAnswer DEF Counted
<1>7. Parts(v) = tt
  <2>1. \A k \in 1 .. m : Parts(v)[k] = tt[k]
    BY <1>2, <1>3, PartsDelivered
  <2> HIDE DEF tt
  <2>2. Parts(v) = [k \in 1 .. m |-> Parts(v)[k]]
    BY DEF Parts
  <2>3. tt = [k \in 1 .. m |-> tt[k]]
    BY DEF tt
  <2> HIDE DEF m
  <2> QED BY <2>1, <2>2, <2>3, Zenon
<1>8. Joined(answer, of) = FlattenSeq(tt)
  BY <1>6 DEF Joined, BlockAt
<1> QED BY <1>4, <1>5, <1>7, <1>8

\* No two calls are announced under one index.
LEMMA NumbersApart ==
  ASSUME answer \in AnswerType, NEW j, NEW k, IsCall(j), IsCall(k), NumberOf(j) = NumberOf(k)
  PROVE  j = k
<1>1. j \in Nat /\ k \in Nat
  BY PartsOfAnswer DEF IsCall, InBlocks
<1>2. CASE protocol = "anthropic"
  BY <1>1, <1>2 DEF NumberOf
<1>3. CASE protocol # "anthropic"
  BY <1>3, CallsAreNumbered DEF NumberOf
<1> QED BY <1>2, <1>3

\* The arguments gathered under a call's index are the call's.
LEMMA ArgsRead ==
  ASSUME Counted, Delivered, Shown, NEW k, IsCall(k)
  PROVE  Gathered("args", NumberOf(k)) = BlockAt(k).pieces
<1> DEFINE v == [kind |-> "args", index |-> NumberOf(k)]
           tt == Parts(v)
<1>1. IsView(v) /\ v.kind = "args" /\ v.index = NumberOf(k)
  BY DEF IsView
<1>2. Gathered("args", NumberOf(k)) = Seen(v, emitted)
  BY GatheredIsSeen
<1> HIDE DEF v
<1>3. Seen(v, emitted) = FlattenSeq(tt)
  BY <1>1 DEF Shown
<1>4. tt \in Seq(Seq(Shows)) /\ Len(tt) = Ending - 1 /\ k \in 1 .. Len(tt)
  BY PartsListed DEF IsCall
<1>5. \A j \in 1 .. Len(tt) : Tells(v, j) <=> j = k
  <2> TAKE j \in 1 .. Len(tt)
  <2>1. Tells(v, j) <=> IsCall(j) /\ NumberOf(j) = NumberOf(k)
    BY <1>1, <1>4 DEF Tells, IsCall, BlockAt
  <2>2. answer \in AnswerType
    BY DEF Counted
  <2> QED BY <2>1, <2>2, NumbersApart
<1>6. \A j \in 1 .. Len(tt) : tt[j] = IF Tells(v, j) THEN BlockAt(j).pieces ELSE <<>>
  BY <1>1, <1>4, PartsDelivered
<1> HIDE DEF tt
<1>7. FlattenSeq(tt) = tt[k]
  BY <1>4, <1>5, <1>6, FlattenAlone
<1> QED BY <1>2, <1>3, <1>4, <1>5, <1>6, <1>7

\* The calls come out in order, each with its name and its arguments.
Named == [k \in 1 .. Ending - 1 |-> NameOf(k)]

LEMMA CallsRead ==
  ASSUME Counted, Delivered, Shown
  PROVE  Streamed.calls = CallsListed(answer, Named)
<1> DEFINE m == Ending - 1
           A == {Entry(k) : k \in {j \in 1 .. m : IsCall(j)}}
           B == {[id |-> x.id, args |-> Gathered("args", x.index)] : x \in A}
           g == [x \in A |-> [id |-> x.id, args |-> Gathered("args", x.index)]]
           ss == [k \in 1 .. m |-> IF IsCall(k) THEN <<Entry(k)>> ELSE <<>>]
           c == CallsGathered
           entries == [k \in 1 .. m |-> IF IsCall(k) THEN <<[id |-> NameOf(k), args |-> BlockAt(k).pieces]>>
                                                     ELSE <<>>]
<1>1. answer \in AnswerType /\ m = Len(answer.blocks) /\ m \in Nat
  <2>1. answer \in AnswerType
    BY DEF Counted
  <2>2. Len(answer.blocks) \in Nat /\ Ending = Len(answer.blocks) + 1
    BY <2>1, PartsOfAnswer
  <2> QED BY <2>1, <2>2
<1>2. \A k \in 1 .. m : IsCall(k) <=> BlockAt(k).kind = "call"
  BY DEF IsCall, BlockAt
<1>3. c = FlattenSeq(ss)
  <2> DEFINE v == [kind |-> "call", index |-> 0]
  <2>1. IsView(v) /\ v.kind = "call"
    BY DEF IsView
  <2>2. c = Seen(v, emitted)
    BY GatheredIsSeen
  <2> HIDE DEF v
  <2>3. Seen(v, emitted) = FlattenSeq(Parts(v))
    BY <2>1 DEF Shown
  <2>4. \A k \in 1 .. m : Parts(v)[k] = ss[k]
    BY <1>2, <2>1, PartsDelivered
  <2>5. Parts(v) = [k \in 1 .. m |-> Parts(v)[k]]
    BY DEF Parts
  <2> HIDE DEF m
  <2>6. ss = [k \in 1 .. m |-> ss[k]]
    OBVIOUS
  <2> HIDE DEF ss
  <2>7. Parts(v) = ss
    BY <2>4, <2>5, <2>6, Zenon
  <2> QED BY <2>2, <2>3, <2>7
<1>4. ss \in Seq(Seq(A)) /\ Len(ss) = m
  <2>1. \A k \in 1 .. m : ss[k] \in Seq(A)
    <3> TAKE k \in 1 .. m
    <3>1. CASE IsCall(k)
      <4>1. Entry(k) \in A
        BY <3>1
      <4> HIDE DEF A
      <4>2. <<Entry(k)>> \in Seq(A)
        BY <4>1
      <4> QED BY <3>1, <4>2
    <3>2. CASE ~IsCall(k)
      <4> HIDE DEF A
      <4>1. <<>> \in Seq(A)
        OBVIOUS
      <4> QED BY <3>2, <4>1
    <3> QED BY <3>1, <3>2
  <2> DEFINE S == Seq(A)
  <2> HIDE DEF S, m
  <2>2. ss = [k \in 1 .. m |-> ss[k]]
    OBVIOUS
  <2>3. \A k \in 1 .. m : ss[k] \in S
    BY <2>1 DEF S
  <2> HIDE DEF ss
  <2>4. ss \in [1 .. m -> S]
    BY <2>2, <2>3, Zenon
  <2>5. ss \in Seq(S) /\ Len(ss) = m
    BY <1>1, <2>4
  <2> QED BY <2>5 DEF S
<1>5. Sends(g, A, B) /\ \A x \in A : g[x] = [id |-> x.id, args |-> Gathered("args", x.index)]
  <2> HIDE DEF A
  <2> QED BY DEF Sends
<1>6. c \in Seq(A)
  <2> HIDE DEF A, ss, c
  <2>1. <<>> \in Seq(A)
    OBVIOUS
  <2> QED BY <1>3, <1>4, <2>1, FlattenMore
<1>7. Streamed.calls = Mapped(g, c)
  <2> DEFINE e(n) == [id |-> c[n].id, args |-> Gathered("args", c[n].index)]
  <2>1. Streamed.calls = [n \in 1 .. Len(c) |-> e(n)]
    BY DEF Streamed
  <2> HIDE DEF A, c, g
  <2>2. \A n \in 1 .. Len(c) : g[c[n]] = e(n)
    <3> TAKE n \in 1 .. Len(c)
    <3>1. c[n] \in A
      BY <1>6
    <3> QED BY <1>5, <3>1
  <2> HIDE DEF e
  <2> QED BY <2>1, <2>2, Zenon DEF Mapped
<1>8. Mapped(g, c) = FlattenSeq([k \in 1 .. m |-> Mapped(g, ss[k])])
  <2> HIDE DEF A, B, g, ss, c, m
  <2>1. Mapped(g, FlattenSeq(ss)) = FlattenSeq([k \in 1 .. Len(ss) |-> Mapped(g, ss[k])])
    BY <1>4, <1>5, MappedOfFlatten
  <2> QED BY <1>3, <1>4, <2>1
<1>9. \A k \in 1 .. m : Mapped(g, ss[k]) = entries[k]
  <2> TAKE k \in 1 .. m
  <2>1. CASE IsCall(k)
    <3> DEFINE x == Entry(k)
    <3>1. x \in A /\ ss[k] = <<x>>
      BY <2>1
    <3>2. x.id = NameOf(k) /\ x.index = NumberOf(k)
      BY DEF Entry
    <3> HIDE DEF x, A, g, ss
    <3>3. g[x] = [id |-> NameOf(k), args |-> BlockAt(k).pieces]
      BY <1>5, <2>1, <3>1, <3>2, ArgsRead
    <3>4. Mapped(g, <<x>>) = <<g[x]>>
      BY DEF Mapped
    <3> QED BY <2>1, <3>1, <3>3, <3>4
  <2>2. CASE ~IsCall(k)
    <3>1. ss[k] = <<>> /\ entries[k] = <<>>
      BY <2>2
    <3>2. Mapped(g, <<>>) = <<>>
      BY DEF Mapped
    <3> QED BY <3>1, <3>2
  <2> QED BY <2>1, <2>2
<1>10. CallsListed(answer, Named) = FlattenSeq(entries)
  <2> DEFINE ll == [k \in 1 .. m |-> IF answer.blocks[k].kind = "call"
                                       THEN <<[id |-> Named[k], args |-> answer.blocks[k].pieces]>>
                                       ELSE <<>>]
  <2>1. CallsListed(answer, Named) = FlattenSeq(ll)
    BY <1>1 DEF CallsListed
  <2>2. \A k \in 1 .. m : ll[k] = entries[k]
    BY <1>2 DEF Named, BlockAt
  <2>3. ll = [k \in 1 .. m |-> ll[k]] /\ entries = [k \in 1 .. m |-> entries[k]]
    OBVIOUS
  <2> HIDE DEF m, ll, entries
  <2> QED BY <2>1, <2>2, <2>3, Zenon
<1>11. [k \in 1 .. m |-> Mapped(g, ss[k])] = entries
  <2>1. entries = [k \in 1 .. m |-> entries[k]]
    OBVIOUS
  <2> HIDE DEF m, g, ss, entries
  <2> QED BY <1>9, <2>1, Zenon
<1> QED BY <1>7, <1>8, <1>10, <1>11

LEMMA CallsOfWhole ==
  ASSUME answer \in AnswerType, protocol \in Protocol
  PROVE  Whole(protocol, answer) =
           Canonical(answer, CallsListed(answer, Named), Whole(protocol, answer).finish)
<1> DEFINE m == Len(answer.blocks)
           ids == [k \in 1 .. m |-> answer.blocks[k].id]
           numbers == [k \in 1 .. m |-> GeminiCallId(CallsBefore(k))]
<1>1. Ending - 1 = m
  BY PartsOfAnswer
<1>2. ASSUME NEW list, NEW finish
      PROVE  Canonical(answer, list, finish).finish = finish
  BY DEF Canonical
<1>3. protocol # "gemini" => Named = ids
  BY <1>1 DEF Named, NameOf, BlockAt
<1>4. protocol = "gemini" => Named = numbers
  BY <1>1 DEF Named, NameOf
<1>5. CallsAsNamed(answer) = CallsListed(answer, ids)
  BY DEF CallsAsNamed
<1>6. CallsNumbered(answer) = CallsListed(answer, numbers)
  BY DEF CallsNumbered, CallsBefore
<1> HIDE DEF m, ids, numbers
<1>7. protocol = "openai" => \E finish : Whole(protocol, answer) = Canonical(answer, CallsAsNamed(answer), finish)
  BY DEF Whole, WholeChoice
<1>8. protocol = "responses" => \E finish : Whole(protocol, answer) = Canonical(answer, CallsAsNamed(answer), finish)
  BY DEF Whole, WholeItems
<1>9. protocol = "anthropic" => \E finish : Whole(protocol, answer) = Canonical(answer, CallsAsNamed(answer), finish)
  BY DEF Whole, WholeMessage
<1>10. protocol = "gemini" => \E finish : Whole(protocol, answer) = Canonical(answer, CallsNumbered(answer), finish)
  BY DEF Whole, WholeCandidate
<1>11. \E finish : Whole(protocol, answer) = Canonical(answer, CallsListed(answer, Named), finish)
  BY <1>3, <1>4, <1>5, <1>6, <1>7, <1>8, <1>9, <1>10, Zenon DEF Protocol
<1> QED BY <1>2, <1>11

\* The stream of an answer whose events have all arrived, of whatever vendor
\* and however the pieces of its calls came in turn, reads as the whole
\* answer does (chat_stream() and response_to_canonical() of each adapter).
THEOREM StreamsReadAsWhole == Spec => []StreamAgreesWithWhole
<1>1. StreamInv /\ ReadInv => StreamAgreesWithWhole
  <2> SUFFICES ASSUME StreamInv, ReadInv, Finished, result.outcome = "ok",
                      \A k \in DOMAIN arrived : Through(k), Trusted, ~Unread
               PROVE  Streamed = Whole(protocol, answer)
    BY DEF StreamAgreesWithWhole, Trusted, Unread
  <2>1. Heard /\ Believed /\ Last(emitted).finish = parser.finish
    BY DEF StreamInv, ReadInv, Finished, Silent
  <2>2. Counted /\ Shown /\ Concluded /\ answer \in AnswerType /\ protocol \in Protocol
    BY <2>1 DEF Heard, Counted, Believed
  <2>3. Delivered
    BY <2>2 DEF Delivered, Counted
  <2>4. parser.finish = Whole(protocol, answer).finish
    <3>1. Len(answer.blocks) \in Nat /\ Ending = Len(answer.blocks) + 1
      BY <2>2, PartsOfAnswer
    <3>2. Ending \in 0 .. Ending
      BY <3>1
    <3>3. arrived[Ending] = Len(FramesOf(Ending))
      BY <2>3, <3>2 DEF Delivered, Through
    <3>4. Len(FramesOf(Ending)) > 0
      <4>1. Len(FramesOf(Ending)) = IF protocol \in {"openai", "anthropic"} THEN 2 ELSE 1
        BY <2>2, TailSent
      <4> QED BY <4>1
    <3> QED BY <2>2, <3>3, <3>4 DEF Concluded
  <2>5. Gathered("content", 0) = Joined(answer, "text") /\ Gathered("reasoning", 0) = Joined(answer, "think")
    BY <2>2, <2>3, TextsRead
  <2>6. Streamed.calls = CallsListed(answer, Named)
    BY <2>2, <2>3, CallsRead
  <2>7. Streamed = [content |-> Gathered("content", 0), reasoning |-> Gathered("reasoning", 0),
                    calls |-> Streamed.calls, finish |-> Last(emitted).finish]
    BY DEF Streamed
  <2>8. Streamed = Canonical(answer, CallsListed(answer, Named), Whole(protocol, answer).finish)
    BY <2>1, <2>4, <2>5, <2>6, <2>7, Zenon DEF Canonical
  <2> QED BY <2>2, <2>8, CallsOfWhole
<1> QED BY <1>1, ReadInit, ReadNext, StreamsKeepOrder, PTL DEF Spec
=============================================================================
