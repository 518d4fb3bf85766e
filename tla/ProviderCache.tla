--------------------------- MODULE ProviderCache ---------------------------
(***************************************************************************)
(* One provider: its row, its credential and its cached adapter.           *)
(* ProviderService (crates/application/src/services.rs) creates, updates   *)
(* and deletes it in several steps, calls and health probes take an        *)
(* adapter from ProviderRegistry::get_for() (registry.rs), and the         *)
(* credential lives in the default secret store, the system keyring with   *)
(* process memory behind it (crates/secrets/src/lib.rs).  The cache is     *)
(* keyed by provider, so that one provider is enough.  Time stamps are     *)
(* microseconds; two writes of the row never have the same one.            *)
(***************************************************************************)
EXTENDS Naturals, Sequences

CONSTANTS
  Admin,    \* administrators, one call at a time each
  Caller,   \* requests and health probes that take an adapter
  MaxCalls  \* bound of the model: administrators' calls and recorded probes

VARIABLES
  row,      \* the row of the provider: updated_at counts the writes so far
  keyring,  \* the credential the keyring has: the how-manieth one, 0 for none
  memory,   \* the credential MemorySecretStore has
  cache,    \* the registry's entry; the time stamp stands for its fingerprint
  task,     \* what each administrator's call does next
  caller,   \* where each caller is, and the row and credential it read
  calls,    \* how many calls and recorded probes there were
  seen,     \* history: whether the keyring answered so far
  issued,   \* history: credentials issued so far
  written,  \* history: issued, at each write of the row
  settled,  \* history: the newest credential whose call has returned
  need,     \* history: settled, when each caller read the row (0 when idle)
  clean     \* history: no two calls overlapped, none ended half way

stores == <<keyring, memory, seen>>
cacheVars == <<row, stores, cache, task, caller, calls, issued, written, settled, need, clean>>

Idle == [pc |-> "idle", rotates |-> FALSE, kept |-> FALSE, cred |-> 0]
Waiting == [pc |-> "idle", stamp |-> 0, cred |-> 0]
Holding(value) == [pc |-> "call", stamp |-> 0, cred |-> value]
NoEntry == [stamp |-> 0, cred |-> 0]

RowType ==
  /\ row \in [state : {"absent", "there", "gone"}, stamp : Nat, configured : BOOLEAN]
  /\ written \in Seq(Nat)
  /\ row.state = "there" => row.stamp \in DOMAIN written

StoreType ==
  /\ keyring \in Nat /\ memory \in Nat
  /\ seen \in {"untried", "up", "down", "mixed"}

CacheType ==
  /\ cache \in [stamp : Nat, cred : Nat]
  /\ cache.stamp = 0 => cache = NoEntry

TaskType ==
  task \in [Admin -> [pc : {"idle", "write", "set", "configure", "invalidate",
                           "delete", "unset"},
                     rotates : BOOLEAN, kept : BOOLEAN, cred : Nat]]

CallerType ==
  /\ caller \in [Caller -> [pc : {"idle", "look", "resolve", "insert", "call"},
                            stamp : Nat, cred : Nat]]
  /\ \A r \in Caller :
       caller[r].pc \in {"look", "resolve", "insert"} => caller[r].stamp \in DOMAIN written
  /\ need \in [Caller -> Nat]

HistoryType ==
  /\ calls \in Nat
  /\ issued \in Nat /\ settled \in Nat
  /\ clean \in BOOLEAN

TypeOK ==
  /\ RowType /\ StoreType /\ CacheType
  /\ TaskType /\ CallerType /\ HistoryType

\* No provider yet, or one with its credential in the keyring.
CacheInit ==
  /\ \/ /\ row = [state |-> "absent", stamp |-> 0, configured |-> FALSE]
        /\ issued = 0 /\ written = <<>> /\ seen = "untried"
     \/ /\ row = [state |-> "there", stamp |-> 1, configured |-> TRUE]
        /\ issued = 1 /\ written = <<1>> /\ seen = "up"
  /\ keyring = issued /\ settled = issued
  /\ memory = 0
  /\ cache = NoEntry
  /\ task = [a \in Admin |-> Idle]
  /\ caller = [r \in Caller |-> Waiting]
  /\ calls = 0
  /\ need = [r \in Caller |-> 0]
  /\ clean = TRUE

-----------------------------------------------------------------------------
(* Faulty variants, each a plausible slip in the sources.                   *)

\* The fingerprint leaves updated_at out.
MatchesAnyStamp(stamp) == cache.stamp # 0

\* The second write of the row does not set credential_configured.
ConfiguredByAsKept(a) == task[a].kept

-----------------------------------------------------------------------------

\* The fingerprint of the entry is that of the row the caller read.
Matches(stamp) == cache.stamp = stamp

ConfiguredBy(a) == TRUE

Invalidated == NoEntry

\* UPDATE ... updated_at = now: the next stamp.
WriteRow(configured) ==
  /\ row' = [row EXCEPT !.stamp = Len(written) + 1, !.configured = configured]
  /\ written' = Append(written, issued)

Goto(a, pc) == task' = [task EXCEPT ![a].pc = pc]
EndCall(a) == task' = [task EXCEPT ![a] = Idle]

KeyringUp == seen' = IF seen \in {"untried", "up"} THEN "up" ELSE "mixed"
KeyringDown == seen' = IF seen \in {"untried", "down"} THEN "down" ELSE "mixed"

-----------------------------------------------------------------------------
(* CompositeSecretStore over keyring and memory: memory never fails.        *)

\* get(): what the keyring has, otherwise what memory has; an error is skipped.
GetSecret(value) ==
  /\ UNCHANGED <<keyring, memory>>
  /\ \/ KeyringUp /\ value = IF keyring # 0 THEN keyring ELSE memory
     \/ KeyringDown /\ value = memory

\* set(): into the keyring, or into memory when the keyring fails.
StoreSecret(value) ==
  \/ KeyringUp /\ keyring' = value /\ UNCHANGED memory
  \/ KeyringDown /\ memory' = value /\ UNCHANGED keyring

\* delete(): from the keyring, or from memory when the keyring fails or has none.
DropSecret ==
  \/ KeyringUp /\ keyring # 0 /\ keyring' = 0 /\ UNCHANGED memory
  \/ KeyringUp /\ keyring = 0 /\ memory' = 0 /\ UNCHANGED keyring
  \/ KeyringDown /\ memory' = 0 /\ UNCHANGED keyring

-----------------------------------------------------------------------------
(* ProviderService                                                          *)

NewCall(a) ==
  /\ task[a].pc = "idle"
  /\ calls < MaxCalls
  /\ calls' = calls + 1
  /\ clean' = (clean /\ \A b \in Admin : task[b].pc = "idle")

\* create() inserts the row; with a key it goes on like update().
Create(a) ==
  /\ NewCall(a)
  /\ row.state = "absent"
  /\ row' = [state |-> "there", stamp |-> Len(written) + 1, configured |-> FALSE]
  /\ written' = Append(written, issued)
  /\ Goto(a, "set") \/ Goto(a, "invalidate")
  /\ UNCHANGED <<stores, cache, caller, issued, settled, need>>

\* update(), with or without a new key: the repository reads the row ...
StartUpdate(a) ==
  /\ NewCall(a)
  /\ row.state = "there"
  /\ \E rotates \in BOOLEAN :
       task' = [task EXCEPT ![a] = [Idle EXCEPT !.pc = "write", !.rotates = rotates,
                                                !.kept = row.configured]]
  /\ UNCHANGED <<row, stores, cache, caller, issued, written, settled, need>>

\* ... and writes all of it.
Write(a) ==
  /\ task[a].pc = "write"
  /\ row.state = "there"
  /\ WriteRow(task[a].kept)
  /\ task' = [task EXCEPT ![a] =
                 [Idle EXCEPT !.pc = IF task[a].rotates THEN "set" ELSE "invalidate"]]
  /\ UNCHANGED <<stores, cache, caller, calls, issued, settled, need, clean>>

\* The row is gone or the query fails: nothing was changed yet.
WriteFails(a) ==
  /\ task[a].pc \in {"write", "delete"}
  /\ EndCall(a)
  /\ UNCHANGED <<row, stores, cache, caller, calls, issued, written, settled, need, clean>>

SetSecret(a) ==
  /\ task[a].pc = "set"
  /\ issued' = issued + 1
  /\ StoreSecret(issued + 1)
  /\ task' = [task EXCEPT ![a] = [Idle EXCEPT !.pc = "configure", !.cred = issued + 1]]
  /\ UNCHANGED <<row, cache, caller, calls, written, settled, need, clean>>

\* The second update() marks the credential as configured.
Configure(a) ==
  /\ task[a].pc = "configure"
  /\ row.state = "there"
  /\ WriteRow(ConfiguredBy(a))
  /\ Goto(a, "invalidate")
  /\ UNCHANGED <<stores, cache, caller, calls, issued, settled, need, clean>>

\* It fails: the call ends with an error, the new credential stays, and so does
\* the cached adapter.
ConfigureFails(a) ==
  /\ task[a].pc = "configure"
  /\ EndCall(a)
  /\ clean' = FALSE
  /\ UNCHANGED <<row, stores, cache, caller, calls, issued, written, settled, need>>

\* registry.invalidate(), and the call returns.
Invalidate(a) ==
  /\ task[a].pc = "invalidate"
  /\ cache' = Invalidated
  /\ settled' = IF task[a].cred > settled THEN task[a].cred ELSE settled
  /\ EndCall(a)
  /\ UNCHANGED <<row, stores, caller, calls, issued, written, need, clean>>

\* delete() of a provider without models.
StartDelete(a) ==
  /\ NewCall(a)
  /\ row.state = "there"
  /\ Goto(a, "delete")
  /\ UNCHANGED <<row, stores, cache, caller, issued, written, settled, need>>

DeleteRow(a) ==
  /\ task[a].pc = "delete"
  /\ row' = [row EXCEPT !.state = "gone"]
  /\ Goto(a, "unset")
  /\ UNCHANGED <<stores, cache, caller, calls, issued, written, settled, need, clean>>

Unset(a) ==
  /\ task[a].pc = "unset"
  /\ DropSecret
  /\ Goto(a, "invalidate")
  /\ UNCHANGED <<row, cache, caller, calls, issued, written, settled, need, clean>>

-----------------------------------------------------------------------------
(* ProviderRegistry::get_for() and its callers                              *)

\* The caller reads the row, long before it asks for an adapter.
ReadRow(r) ==
  /\ caller[r].pc = "idle"
  /\ row.state = "there"
  /\ caller' = [caller EXCEPT ![r] = [pc |-> "look", stamp |-> row.stamp, cred |-> 0]]
  /\ need' = [need EXCEPT ![r] = settled]
  /\ UNCHANGED <<row, stores, cache, task, calls, issued, written, settled, clean>>

Hit(r) ==
  /\ caller[r].pc = "look"
  /\ Matches(caller[r].stamp)
  /\ caller' = [caller EXCEPT ![r] = Holding(cache.cred)]
  /\ UNCHANGED <<row, stores, cache, task, calls, issued, written, settled, need, clean>>

Miss(r) ==
  /\ caller[r].pc = "look"
  /\ ~Matches(caller[r].stamp)
  /\ caller' = [caller EXCEPT ![r].pc = "resolve"]
  /\ UNCHANGED <<row, stores, cache, task, calls, issued, written, settled, need, clean>>

\* resolve_credential()
Resolve(r) ==
  /\ caller[r].pc = "resolve"
  /\ \E value \in {0, keyring, memory} :
       /\ GetSecret(value)
       /\ caller' = [caller EXCEPT ![r].pc = "insert", ![r].cred = value]
  /\ UNCHANGED <<row, cache, task, calls, issued, written, settled, need, clean>>

\* The adapter is built and put into the cache, whatever was invalidated since.
Insert(r) ==
  /\ caller[r].pc = "insert"
  /\ cache' = [stamp |-> caller[r].stamp, cred |-> caller[r].cred]
  /\ caller' = [caller EXCEPT ![r] = Holding(caller[r].cred)]
  /\ UNCHANGED <<row, stores, task, calls, issued, written, settled, need, clean>>

Release(r) ==
  /\ caller' = [caller EXCEPT ![r] = Waiting]
  /\ need' = [need EXCEPT ![r] = 0]

\* The call is over, or no adapter could be built.
CallOver(r) ==
  /\ caller[r].pc \in {"resolve", "insert", "call"}
  /\ Release(r)
  /\ UNCHANGED <<row, stores, cache, task, calls, issued, written, settled, clean>>

\* The call was a probe: set_health() touches updated_at.
RecordHealth(r) ==
  /\ caller[r].pc = "call"
  /\ calls < MaxCalls
  /\ calls' = calls + 1
  /\ IF row.state = "there" THEN WriteRow(row.configured) ELSE UNCHANGED <<row, written>>
  /\ Release(r)
  /\ UNCHANGED <<stores, cache, task, issued, settled, clean>>

\* The process starts again: memory and cache are empty, calls are cut short.
Restart ==
  /\ memory' = 0
  /\ cache' = Invalidated
  /\ task' = [a \in Admin |-> Idle]
  /\ caller' = [r \in Caller |-> Waiting]
  /\ need' = [r \in Caller |-> 0]
  /\ clean' = (clean /\ memory = 0 /\ \A a \in Admin : task[a].pc = "idle")
  /\ UNCHANGED <<row, keyring, seen, calls, issued, written, settled>>

CacheNext ==
  \/ \E a \in Admin : \/ Create(a) \/ StartUpdate(a) \/ Write(a) \/ WriteFails(a)
                      \/ SetSecret(a) \/ Configure(a) \/ ConfigureFails(a)
                      \/ Invalidate(a)
                      \/ StartDelete(a) \/ DeleteRow(a) \/ Unset(a)
  \/ \E r \in Caller : \/ ReadRow(r) \/ Hit(r) \/ Miss(r) \/ Resolve(r) \/ Insert(r)
                       \/ CallOver(r) \/ RecordHealth(r)
  \/ Restart

CacheSpec == CacheInit /\ [][CacheNext]_cacheVars

-----------------------------------------------------------------------------

\* The keyring has been there always or never.
Steady == seen # "mixed"

\* A rotated credential is really out of use: a caller that reads the provider
\* after the rotation has returned never calls it with an older credential,
\* whatever it finds in the cache, however slow other builds are and whichever
\* other calls fail half way -- as long as the keyring is there always or never.
CallsUseRotated ==
  Steady =>
    \A r \in Caller :
      caller[r].pc = "call" => caller[r].cred = 0 \/ caller[r].cred >= need[r]

\* The console's mark tells the truth: when no call is under way, none
\* overlapped with another and none ended half way, the stores have a
\* credential exactly if the provider is there and marked as configured.
MarkAgrees ==
  (clean /\ Steady /\ \A a \in Admin : task[a].pc = "idle") =>
    (keyring # 0 \/ memory # 0 <=> row.state = "there" /\ row.configured)

=============================================================================
