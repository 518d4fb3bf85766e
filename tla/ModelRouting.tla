---------------------------- MODULE ModelRouting ----------------------------
(***************************************************************************)
(* From the model name of a request to its candidates: resolve() and       *)
(* authorize() of crates/application/src/resolver.rs as prepare() calls    *)
(* them, reading the tables row by row while administrators edit models,   *)
(* providers and the targets of a virtual model (crates/application/src/   *)
(* services.rs over crates/persistence/src/virtual_models.rs, models.rs    *)
(* and providers.rs).  One virtual model: resolve() reads no other.        *)
(***************************************************************************)
EXTENDS Naturals, Sequences, SequencesExt

CONSTANTS
  Admin,        \* administrators, one call at a time each
  Request,      \* resolutions
  Model, Provider,
  ProviderOf,   \* models.provider_id
  KeyOf,        \* models.model_key
  Vm,           \* the virtual model
  VmKey,        \* its key
  TargetLists,  \* lists of targets an administrator submits
  AllowDirect,  \* application.allow_direct_models
  Restricted,   \* application.allowed_virtual_models is not empty
  VmAllowed,    \* ... and holds VmKey
  MaxCalls      \* bound of the model: administrators' calls

\* A priority is an i32, counted here from the least one: its order alone matters.
Row == [model : Model, prio : Nat, on : BOOLEAN]

ASSUME RoutingAssumption ==
  /\ ProviderOf \in [Model -> Provider]
  /\ Vm \notin Model \union Provider
  /\ Model \intersect Provider = {}
  /\ TargetLists \subseteq Seq(Row)
  /\ {AllowDirect, Restricted, VmAllowed} \subseteq BOOLEAN
  /\ MaxCalls \in Nat

Item == Model \union Provider \union {Vm}
Keys == {VmKey} \union {KeyOf[m] : m \in Model}

VARIABLES
  status,   \* the enabled column of each row, or not yet inserted, or deleted
  targets,  \* rows of virtual_model_targets, unique per model
  task,     \* what each administrator's call has still to do
  calls,    \* how many calls administrators have made
  asked,    \* history: the list of the last call that edits targets
  mixed,    \* history: such calls overlapped, or one failed half way
  pc,       \* where each resolution is
  key,      \* the model name of the request
  rows,     \* target rows read and not yet looked up
  cands,    \* candidates found so far
  wire,     \* the model name in the upstream request
  offSince, \* history: items that were not enabled since the resolution began
  stirred   \* history: since then a table changed or a query failed

tables == <<status, targets>>
admin == <<task, calls, asked, mixed>>
routing == <<pc, key, rows, cands, wire>>
vars == <<tables, admin, routing, offSince, stirred>>

Idle == [op |-> "idle", item |-> Vm, to |-> "on", list |-> <<>>]

Exists(i) == status[i] \in {"on", "off"}
ModelsOf(p) == {m \in Model : ProviderOf[m] = p /\ Exists(m)}
TargetModels == {t.model : t \in targets}
Editing(a) == task[a].op = "insert"
Referenced(ms) == ms \intersect TargetModels # {}

\* SELECT ... ORDER BY priority: rows of one priority in any order, though always
\* in the same one as long as the table is the same.
Ordered(ts) ==
  CHOOSE s \in [1 .. Cardinality(ts) -> ts] :
    \A i, j \in 1 .. Cardinality(ts) : i < j => s[i] # s[j] /\ s[i].prio <= s[j].prio

\* What a loop over a list keeps of it: what is at the given positions.
Picked(s, places) ==
  LET upTo[n \in 0 .. Len(s)] ==
        IF n = 0 THEN <<>>
        ELSE IF n \in places THEN Append(upTo[n - 1], s[n]) ELSE upTo[n - 1]
  IN  upTo[Len(s)]

\* The rows that target lists stand for: the last of two rows for one model wins.
Stands(list, i) == \A k \in DOMAIN list : k > i => list[k].model # list[i].model
AsTable(list) == {list[i] : i \in {n \in DOMAIN list : Stands(list, n)}}

\* Identifiers are never used again: what is absent may be created, what is
\* deleted stays deleted.
Init ==
  /\ status \in [Item -> {"on", "absent"}]
  /\ \A p \in Provider : status[p] = "on"
  /\ IF Exists(Vm)
     THEN \E list \in TargetLists : /\ targets = AsTable(list) /\ asked = list
                                   /\ \A m \in TargetModels : Exists(m)
     ELSE targets = {} /\ asked = <<>>
  /\ task = [a \in Admin |-> Idle]
  /\ calls = 0
  /\ mixed = FALSE
  /\ pc = [r \in Request |-> "new"]
  /\ key \in [Request -> Keys]
  /\ rows = [r \in Request |-> <<>>]
  /\ cands = [r \in Request |-> <<>>]
  /\ wire = [r \in Request |-> "none"]
  /\ offSince = [r \in Request |-> {}]
  /\ stirred = [r \in Request |-> FALSE]

-----------------------------------------------------------------------------
(* Faulty variants, each a plausible slip in the sources.                   *)

\* The enabled flag of a model is not looked at.
UsableAlways(m) == Exists(m)

\* ORDER BY priority DESC: the largest number first.
EnabledRowsReversed(ts) ==
  LET order == Reverse(Ordered(ts))
  IN  Picked(order, {n \in DOMAIN order : order[n].on})

-----------------------------------------------------------------------------

Usable(m) == status[m] = "on"

Cleared == {}

\* targets.iter().filter(enabled), in the order of the query.
EnabledRows(ts) ==
  LET order == Ordered(ts)
  IN  Picked(order, {n \in DOMAIN order : order[n].on})

\* INSERT ... ON CONFLICT(virtual_model_id, model_id) DO UPDATE.
Inserted(row) == {t \in targets : t.model # row.model} \union {row}

\* What a write of the tables does to the histories.
Stir ==
  /\ stirred' = [r \in Request |-> stirred[r] \/ pc[r] # "new"]
  /\ offSince' = [r \in Request |-> {i \in offSince[r] : status'[i] # "on"}]

-----------------------------------------------------------------------------
(* Administrators.  A repository update() reads the row, fills in the       *)
(* fields the caller left out and writes the whole row back.                *)

\* a makes another call.
NewCall(a) ==
  /\ task[a].op = "idle"
  /\ calls < MaxCalls
  /\ calls' = calls + 1

\* A caller that names the enabled column.
StartUpdate(a, i) ==
  /\ NewCall(a)
  /\ Exists(i)
  /\ \E to \in {"on", "off"} :
       task' = [task EXCEPT ![a] = [Idle EXCEPT !.op = "update", !.item = i, !.to = to]]
  /\ UNCHANGED <<tables, asked, mixed, routing, offSince, stirred>>

\* A caller that leaves enabled out writes what it read.
StartEdit(a, i) ==
  /\ NewCall(a)
  /\ Exists(i)
  /\ task' = [task EXCEPT ![a] = [Idle EXCEPT !.op = "update", !.item = i, !.to = status[i]]]
  /\ UNCHANGED <<tables, asked, mixed, routing, offSince, stirred>>

FinishUpdate(a) ==
  /\ task[a].op = "update"
  /\ status' = [status EXCEPT ![task[a].item] = IF @ = "deleted" THEN @ ELSE task[a].to]
  /\ task' = [task EXCEPT ![a] = Idle]
  /\ UNCHANGED <<targets, calls, asked, mixed, routing>>
  /\ Stir

\* ModelService::create(): the foreign key asks for the provider.
CreateModel(a, m) ==
  /\ NewCall(a)
  /\ status[m] = "absent" /\ Exists(ProviderOf[m])
  /\ \E to \in {"on", "off"} : status' = [status EXCEPT ![m] = to]
  /\ UNCHANGED <<targets, task, asked, mixed, routing>>
  /\ Stir

\* ModelService::delete(): refused by the foreign key of a target.
DeleteModel(a, m) ==
  /\ NewCall(a)
  /\ Exists(m) /\ ~Referenced({m})
  /\ status' = [status EXCEPT ![m] = "deleted"]
  /\ UNCHANGED <<targets, task, asked, mixed, routing>>
  /\ Stir

\* ProviderService::delete(): the models are counted ...
CountModels(a, p) ==
  /\ NewCall(a)
  /\ Exists(p) /\ ModelsOf(p) = {}
  /\ task' = [task EXCEPT ![a] = [Idle EXCEPT !.op = "delete", !.item = p]]
  /\ UNCHANGED <<tables, asked, mixed, routing, offSince, stirred>>

\* ... and then the row is deleted, with the models it has by now, unless one
\* of them is a target.
DeleteProvider(a) ==
  /\ task[a].op = "delete"
  /\ LET gone == ModelsOf(task[a].item)
     IN  IF Referenced(gone) THEN UNCHANGED status
         ELSE status' = [i \in Item |->
                IF i \in gone \union {task[a].item} THEN "deleted" ELSE status[i]]
  /\ task' = [task EXCEPT ![a] = Idle]
  /\ UNCHANGED <<targets, calls, asked, mixed, routing>>
  /\ Stir

\* VirtualModelService::delete(): the targets go with the row.
DeleteVm(a) ==
  /\ NewCall(a)
  /\ Exists(Vm)
  /\ status' = [status EXCEPT ![Vm] = "deleted"]
  /\ targets' = Cleared
  /\ asked' = <<>>
  /\ mixed' = \E b \in Admin : Editing(b)
  /\ UNCHANGED <<task, routing>>
  /\ Stir

\* replace_targets() after validate_targets(): the old rows are deleted in a
\* transaction of their own; create() of a new virtual model deletes none.
StartTargets(a, list) ==
  /\ NewCall(a)
  /\ \A i \in DOMAIN list : Exists(list[i].model)
  /\ status[Vm] # "deleted"
  /\ IF status[Vm] = "absent"
     THEN (\E to \in {"on", "off"} : status' = [status EXCEPT ![Vm] = to])
          /\ UNCHANGED targets
     ELSE targets' = Cleared /\ UNCHANGED status
  /\ task' = [task EXCEPT ![a] = [Idle EXCEPT !.op = "insert", !.list = list]]
  /\ asked' = list
  /\ mixed' = \E b \in Admin : Editing(b)
  /\ UNCHANGED routing
  /\ Stir

\* insert_targets(): one statement per row, no transaction; a foreign key that
\* is gone or a database error ends the loop.
InsertTarget(a) ==
  /\ Editing(a) /\ task[a].list # <<>>
  /\ Exists(Vm) /\ Exists(Head(task[a].list).model)
  /\ targets' = Inserted(Head(task[a].list))
  /\ task' = [task EXCEPT ![a].list = Tail(@)]
  /\ UNCHANGED <<status, calls, asked, mixed, routing>>
  /\ Stir

FailTargets(a) ==
  /\ Editing(a) /\ task[a].list # <<>>
  /\ task' = [task EXCEPT ![a] = Idle]
  /\ mixed' = TRUE
  /\ UNCHANGED <<tables, calls, asked, routing, offSince, stirred>>

EndTargets(a) ==
  /\ Editing(a) /\ task[a].list = <<>>
  /\ task' = [task EXCEPT ![a] = Idle]
  /\ UNCHANGED <<tables, calls, asked, mixed, routing, offSince, stirred>>

-----------------------------------------------------------------------------
(* resolve()                                                                *)

Goto(r, next) == pc' = [pc EXCEPT ![r] = next]

Begin(r) == offSince' = [offSince EXCEPT ![r] = {i \in Item : status[i] # "on"}]

\* get_by_key() finds the virtual model.
FindVm(r) ==
  /\ pc[r] = "new"
  /\ key[r] = VmKey /\ Exists(Vm)
  /\ Goto(r, IF status[Vm] = "on" THEN "targets" ELSE "disabled")
  /\ Begin(r)
  /\ UNCHANGED <<tables, admin, key, rows, cands, wire, stirred>>

\* It finds none, or the query fails, which is not told apart.
NoVm(r) ==
  /\ pc[r] = "new"
  /\ Goto(r, "direct")
  /\ Begin(r)
  /\ stirred' = [stirred EXCEPT ![r] = TRUE]
  /\ UNCHANGED <<tables, admin, key, rows, cands, wire>>

\* targets_for()
ReadTargets(r) ==
  /\ pc[r] = "targets"
  /\ rows' = [rows EXCEPT ![r] = EnabledRows(targets)]
  /\ Goto(r, "walk")
  /\ UNCHANGED <<tables, admin, key, cands, wire, offSince, stirred>>

\* models.get() and providers.get() of the next row; a missing one, a disabled
\* model or a query that fails passes over the target.
Look(r) ==
  /\ pc[r] = "walk" /\ rows[r] # <<>>
  /\ LET m == Head(rows[r]).model
     IN  \/ /\ Usable(m) /\ Exists(ProviderOf[m])
            /\ cands' = [cands EXCEPT ![r] = Append(@, m)]
            /\ UNCHANGED stirred
         \/ /\ ~Usable(m) \/ ~Exists(ProviderOf[m])
            /\ UNCHANGED <<cands, stirred>>
         \/ stirred' = [stirred EXCEPT ![r] = TRUE] /\ UNCHANGED cands
  /\ rows' = [rows EXCEPT ![r] = Tail(@)]
  /\ UNCHANGED <<tables, admin, pc, key, wire, offSince>>

\* The candidates are in priority order already; the sort leaves them so.
EndLook(r) ==
  /\ pc[r] = "walk" /\ rows[r] = <<>>
  /\ Goto(r, IF Restricted /\ ~VmAllowed THEN "denied"
             ELSE IF cands[r] = <<>> THEN "no_route" ELSE "routed")
  /\ UNCHANGED <<tables, admin, key, rows, cands, wire, offSince, stirred>>

\* Enabled models by key: none, one, or an ambiguous name.
FindDirect(r) ==
  /\ pc[r] = "direct"
  /\ LET found == {m \in Model : Usable(m) /\ KeyOf[m] = key[r]}
     IN  \/ found = {} /\ Goto(r, "not_found") /\ UNCHANGED cands
         \/ \E m \in found : /\ found = {m}
                             /\ cands' = [cands EXCEPT ![r] = <<m>>]
                             /\ Goto(r, "authorize")
         \/ (\E m, n \in found : m # n) /\ Goto(r, "ambiguous") /\ UNCHANGED cands
  /\ UNCHANGED <<tables, admin, key, rows, wire, offSince, stirred>>

\* providers.get() of the direct model, then authorize().
AuthorizeDirect(r) ==
  /\ pc[r] = "authorize"
  /\ Goto(r, IF ~Exists(ProviderOf[Head(cands[r])]) THEN "failed"
             ELSE IF ~AllowDirect \/ Restricted THEN "denied" ELSE "routed")
  /\ UNCHANGED <<tables, admin, key, rows, cands, wire, offSince, stirred>>

\* The first candidate is called with the request as it came in.
Call(r) ==
  /\ pc[r] = "routed"
  /\ wire' = [wire EXCEPT ![r] = key[r]]
  /\ Goto(r, "called")
  /\ UNCHANGED <<tables, admin, key, rows, cands, offSince, stirred>>

Next ==
  \/ \E a \in Admin :
       \/ \E i \in Item : StartUpdate(a, i) \/ StartEdit(a, i)
       \/ FinishUpdate(a)
       \/ \E m \in Model : CreateModel(a, m) \/ DeleteModel(a, m)
       \/ \E p \in Provider : CountModels(a, p)
       \/ DeleteProvider(a)
       \/ DeleteVm(a)
       \/ \E list \in TargetLists : StartTargets(a, list)
       \/ InsertTarget(a) \/ FailTargets(a) \/ EndTargets(a)
  \/ \E r \in Request : \/ FindVm(r) \/ NoVm(r) \/ ReadTargets(r)
                        \/ Look(r) \/ EndLook(r)
                        \/ FindDirect(r) \/ AuthorizeDirect(r) \/ Call(r)

Spec == Init /\ [][Next]_vars

-----------------------------------------------------------------------------

\* simulate() (services.rs): what it does not exclude, and the fallback order
\* the console shows.
Shown(t) ==
  /\ t.on
  /\ status[t.model] = "on"
  /\ status[ProviderOf[t.model]] = "on"

Simulated ==
  LET order == Ordered(targets)
      listed == Picked(order, {n \in DOMAIN order : Shown(order[n])})
  IN  [i \in DOMAIN listed |-> listed[i].model]

\* Resolved through the virtual model, with nothing written meanwhile.
Undisturbed(r) == pc[r] \in {"routed", "no_route"} /\ key[r] = VmKey /\ ~stirred[r]
                  /\ status[Vm] = "on"

\* A model that was switched off before a resolution began, and stayed off, is
\* never a candidate of it, however the edits interleave with its reads.
OffIsNotRouted ==
  \A r \in Request : \A i \in DOMAIN cands[r] : cands[r][i] \notin offSince[r]

\* When no call that edits targets is under way, none overlapped with another
\* and none failed, the table holds exactly the list that was asked for last,
\* although it is written row by row outside a transaction.
TargetsAreAsAsked ==
  (~mixed /\ \A a \in Admin : ~Editing(a)) => targets = AsTable(asked)

\* Resolver and simulator agree on the candidates and their order, as long as
\* every provider is enabled.
SimulatorAgreesOnEnabled ==
  (\A p \in Provider : status[p] = "on") =>
    \A r \in Request : Undisturbed(r) => cands[r] = Simulated

\* What the console was told to route and what it shows is what requests get.
ConsoleAgrees == TargetsAreAsAsked /\ SimulatorAgreesOnEnabled

\* "Virtual Model: swap backends freely" (README_EN.md:246): what reaches the
\* provider is the key of the model the route chose.
UpstreamKnowsTheModel ==
  \A r \in Request : pc[r] = "called" => wire[r] = KeyOf[Head(cands[r])]

=============================================================================
