------------------------- MODULE ModelRoutingProofs -------------------------
(***************************************************************************)
(* Theorems of ModelRouting, for any tables, administrators and requests.  *)
(***************************************************************************)
EXTENDS ModelRouting, FiniteSetTheorems, WellFoundedInduction, TLAPS

\* What has stayed off since a resolution began is off now, and none of its
\* candidates; it has none before it begins.
Avoids(r) ==
  /\ \A i \in offSince[r] : status[i] # "on"
  /\ \A i \in DOMAIN cands[r] : cands[r][i] \notin offSince[r]
  /\ pc[r] = "new" => cands[r] = <<>>
  /\ \E S : cands[r] \in Seq(S)

RoutingInv ==
  /\ pc = [r \in Request |-> pc[r]] /\ cands = [r \in Request |-> cands[r]]
  /\ offSince = [r \in Request |-> offSince[r]]
  /\ \A r \in Request : Avoids(r)

LEMMA RoutingStarts == Init => RoutingInv
<1> SUFFICES ASSUME Init PROVE RoutingInv
  OBVIOUS
<1>1. <<>> \in Seq({})
  OBVIOUS
<1> QED BY <1>1 DEF Init, RoutingInv, Avoids

\* A write of the tables: what it switches on is no longer off since then.
LEMMA WritesAvoid ==
  ASSUME RoutingInv, Stir, UNCHANGED routing
  PROVE  RoutingInv'
<1>1. UNCHANGED <<pc, cands>>
  BY DEF routing
<1>2. offSince' = [r \in Request |-> {i \in offSince[r] : status'[i] # "on"}]
  BY DEF Stir
<1> QED BY <1>1, <1>2 DEF RoutingInv, Avoids

\* A step of a call that writes nothing the resolutions read.
LEMMA OthersAvoid ==
  ASSUME RoutingInv, UNCHANGED <<status, pc, cands, offSince>>
  PROVE  RoutingInv'
BY DEF RoutingInv, Avoids

LEMMA AdminAvoids ==
  ASSUME RoutingInv, NEW a, NEW i, NEW list,
         \/ StartUpdate(a, i) \/ StartEdit(a, i) \/ FinishUpdate(a) \/ CreateModel(a, i)
         \/ DeleteModel(a, i) \/ CountModels(a, i) \/ DeleteProvider(a) \/ DeleteVm(a)
         \/ StartTargets(a, list) \/ InsertTarget(a) \/ FailTargets(a) \/ EndTargets(a)
  PROVE  RoutingInv'
<1>1. CASE \/ StartUpdate(a, i) \/ StartEdit(a, i) \/ CountModels(a, i)
           \/ FailTargets(a) \/ EndTargets(a)
  <2>1. UNCHANGED <<status, pc, cands, offSince>>
    BY <1>1 DEF StartUpdate, StartEdit, CountModels, FailTargets, EndTargets, tables, routing
  <2> QED BY <2>1, OthersAvoid
<1>2. CASE \/ FinishUpdate(a) \/ CreateModel(a, i) \/ DeleteModel(a, i) \/ DeleteProvider(a)
           \/ DeleteVm(a) \/ StartTargets(a, list) \/ InsertTarget(a)
  <2>1. Stir /\ UNCHANGED routing
    BY <1>2 DEF FinishUpdate, CreateModel, DeleteModel, DeleteProvider, DeleteVm, StartTargets,
       InsertTarget
  <2> QED BY <2>1, WritesAvoid
<1> QED BY <1>1, <1>2

\* The steps of resolve(): only what is on becomes a candidate.
LEMMA BeginAvoids ==
  ASSUME RoutingInv, NEW r \in Request, FindVm(r) \/ NoVm(r)
  PROVE  RoutingInv'
<1>1. /\ pc[r] = "new" /\ UNCHANGED <<status, cands>>
      /\ offSince' = [offSince EXCEPT ![r] = {i \in Item : status[i] # "on"}]
      /\ \E next \in {"targets", "disabled", "direct"} : pc' = [pc EXCEPT ![r] = next]
  BY DEF FindVm, NoVm, Begin, Goto, tables
<1> SUFFICES ASSUME NEW q \in Request PROVE Avoids(q)'
  BY <1>1 DEF RoutingInv
<1>2. CASE q = r
  BY <1>1, <1>2 DEF RoutingInv, Avoids
<1>3. CASE q # r
  <2>1. pc'[q] = pc[q] /\ offSince'[q] = offSince[q] /\ cands'[q] = cands[q]
    BY <1>1, <1>3 DEF RoutingInv
  <2> QED BY <1>1, <2>1 DEF RoutingInv, Avoids
<1> QED BY <1>2, <1>3

LEMMA ChoiceAvoids ==
  ASSUME RoutingInv, NEW r \in Request, NEW m, status[m] = "on", UNCHANGED <<status, offSince>>,
         \/ cands' = [cands EXCEPT ![r] = Append(@, m)] /\ UNCHANGED pc
         \/ /\ cands' = [cands EXCEPT ![r] = <<m>>]
            /\ pc' = [pc EXCEPT ![r] = "authorize"],
         pc[r] # "new"
  PROVE  RoutingInv'
<1> SUFFICES ASSUME NEW q \in Request PROVE Avoids(q)'
  BY DEF RoutingInv
<1>1. Avoids(q)
  BY DEF RoutingInv
<1>2. CASE q # r
  <2>1. pc'[q] = pc[q] /\ offSince'[q] = offSince[q] /\ cands'[q] = cands[q]
    BY <1>2 DEF RoutingInv
  <2> QED BY <1>1, <2>1 DEF Avoids
<1>3. CASE q = r
  <2>1. m \notin offSince'[r] /\ offSince'[r] = offSince[r] /\ pc'[r] # "new"
    BY <1>1, <1>3 DEF Avoids, RoutingInv
  <2>2. CASE cands'[r] = <<m>>
    <3>1. <<m>> \in Seq({m}) /\ DOMAIN <<m>> = {1} /\ <<m>>[1] = m
      OBVIOUS
    <3> QED BY <1>1, <1>3, <2>1, <2>2, <3>1 DEF Avoids
  <2>3. CASE cands'[r] = Append(cands[r], m)
    <3>1. PICK S : cands[r] \in Seq(S)
      BY <1>1, <1>3 DEF Avoids
    <3>2. cands[r] \in Seq(S \union {m})
      BY <3>1
    <3>3. /\ cands'[r] \in Seq(S \union {m})
          /\ \A i \in DOMAIN cands'[r] :
               cands'[r][i] = m \/ (i \in DOMAIN cands[r] /\ cands'[r][i] = cands[r][i])
      BY <2>3, <3>2
    <3> QED BY <1>1, <1>3, <2>1, <3>3 DEF Avoids
  <2> QED BY <2>2, <2>3 DEF RoutingInv
<1> QED BY <1>2, <1>3

LEMMA ResolveAvoids ==
  ASSUME RoutingInv, NEW r \in Request,
         \/ ReadTargets(r) \/ Look(r) \/ EndLook(r) \/ FindDirect(r) \/ AuthorizeDirect(r)
         \/ Call(r)
  PROVE  RoutingInv'
<1>1. UNCHANGED <<status, offSince>>
  BY DEF ReadTargets, Look, EndLook, FindDirect, AuthorizeDirect, Call, tables
<1>2. ASSUME UNCHANGED cands, NEW next, next # "new", pc' = [pc EXCEPT ![r] = next]
      PROVE  RoutingInv'
  <2> SUFFICES ASSUME NEW q \in Request PROVE Avoids(q)'
    BY <1>1, <1>2 DEF RoutingInv
  <2>1. pc'[q] = pc[q] \/ pc'[q] = next
    BY <1>2 DEF RoutingInv
  <2> QED BY <1>1, <1>2, <2>1 DEF RoutingInv, Avoids
<1>3. CASE ReadTargets(r) \/ EndLook(r) \/ AuthorizeDirect(r) \/ Call(r)
  BY <1>2, <1>3 DEF ReadTargets, EndLook, AuthorizeDirect, Call, Goto
<1>4. CASE Look(r)
  <2>1. UNCHANGED pc /\ pc[r] = "walk"
    BY <1>4 DEF Look
  <2>2. CASE UNCHANGED cands
    BY <1>1, <2>1, <2>2, OthersAvoid
  <2>3. CASE ~UNCHANGED cands
    <3>1. PICK m : status[m] = "on" /\ cands' = [cands EXCEPT ![r] = Append(@, m)]
      BY <1>4, <2>3 DEF Look, Usable
    <3> QED BY <1>1, <2>1, <3>1, ChoiceAvoids
  <2> QED BY <2>2, <2>3
<1>5. CASE FindDirect(r)
  <2>1. pc[r] = "direct"
    BY <1>5 DEF FindDirect
  <2>2. CASE UNCHANGED cands
    BY <1>2, <1>5, <2>2 DEF FindDirect, Goto
  <2>3. CASE ~UNCHANGED cands
    <3>1. PICK m \in Model :
            /\ status[m] = "on" /\ cands' = [cands EXCEPT ![r] = <<m>>]
            /\ pc' = [pc EXCEPT ![r] = "authorize"]
      BY <1>5, <2>3 DEF FindDirect, Goto, Usable
    <3> QED BY <1>1, <2>1, <3>1, ChoiceAvoids
  <2> QED BY <2>2, <2>3
<1> QED BY <1>3, <1>4, <1>5

\* A model that was switched off before a resolution began, and stayed off, is
\* never a candidate of it, for any tables and however the edits of any number
\* of administrators fall between its reads (resolve() and the repositories'
\* updates).
THEOREM OffStaysOut == Spec => []OffIsNotRouted
<1>1. Init => RoutingInv
  BY RoutingStarts
<1>2. RoutingInv /\ [Next]_vars => RoutingInv'
  <2> SUFFICES ASSUME RoutingInv, [Next]_vars PROVE RoutingInv'
    OBVIOUS
  <2>1. CASE UNCHANGED vars
    BY <2>1, OthersAvoid DEF vars, tables, routing
  <2>2. ASSUME NEW a \in Admin, NEW i \in Item, StartUpdate(a, i) \/ StartEdit(a, i)
        PROVE  RoutingInv'
    BY <2>2, AdminAvoids
  <2>3. ASSUME NEW a \in Admin, NEW m \in Model, CreateModel(a, m) \/ DeleteModel(a, m)
        PROVE  RoutingInv'
    BY <2>3, AdminAvoids
  <2>4. ASSUME NEW a \in Admin, NEW p \in Provider, CountModels(a, p) PROVE RoutingInv'
    BY <2>4, AdminAvoids
  <2>5. ASSUME NEW a \in Admin, NEW list \in TargetLists, StartTargets(a, list)
        PROVE  RoutingInv'
    BY <2>5, AdminAvoids
  <2>6. ASSUME NEW a \in Admin,
               \/ FinishUpdate(a) \/ DeleteProvider(a) \/ DeleteVm(a) \/ InsertTarget(a)
               \/ FailTargets(a) \/ EndTargets(a)
        PROVE  RoutingInv'
    BY <2>6, AdminAvoids
  <2>7. ASSUME NEW r \in Request, FindVm(r) \/ NoVm(r) PROVE RoutingInv'
    BY <2>7, BeginAvoids
  <2>8. ASSUME NEW r \in Request,
               \/ ReadTargets(r) \/ Look(r) \/ EndLook(r) \/ FindDirect(r)
               \/ AuthorizeDirect(r) \/ Call(r)
        PROVE  RoutingInv'
    BY <2>8, ResolveAvoids
  <2> QED BY <2>1, <2>2, <2>3, <2>4, <2>5, <2>6, <2>7, <2>8 DEF Next
<1>3. RoutingInv => OffIsNotRouted
  BY DEF RoutingInv, Avoids, OffIsNotRouted
<1> QED BY <1>1, <1>2, <1>3, PTL DEF Spec

-----------------------------------------------------------------------------
(* The table of targets and the list that was asked for.                   *)

\* What insert_targets() has written is the table of the rows it has been through.
Wrote(rows_in, list, whole) ==
  \E done \in Seq(Row) : whole = done \o list /\ rows_in = AsTable(done)

EditsFit ==
  /\ \A a, b \in Admin : Editing(a) /\ Editing(b) => a = b
  /\ (\A a \in Admin : ~Editing(a)) => targets = AsTable(asked)
  /\ \A a \in Admin : Editing(a) => Wrote(targets, task[a].list, asked)

\* Nothing is said of the table once calls overlapped, until one begins anew;
\* what create() counts on is that a virtual model that is not there has no rows.
TargetsInv ==
  /\ status = [i \in Item |-> status[i]] /\ task = [a \in Admin |-> task[a]]
  /\ asked \in Seq(Row)
  /\ \A a \in Admin : task[a].to \in {"on", "off"}
  /\ \A a \in Admin : Editing(a) => task[a].list \in Seq(Row)
  /\ status[Vm] = "absent" => targets = {}
  /\ ~mixed => EditsFit

\* An empty list is an empty table, and a row more is an upsert more.
LEMMA NoRows == AsTable(<<>>) = {}
  BY DEF AsTable

LEMMA RowMore ==
  ASSUME NEW s \in Seq(Row), NEW row \in Row
  PROVE  AsTable(Append(s, row)) = {t \in AsTable(s) : t.model # row.model} \union {row}
<1> DEFINE n == Len(s)
           all == Append(s, row)
<1>1. /\ n \in Nat /\ DOMAIN s = 1 .. n /\ DOMAIN all = 1 .. n + 1
      /\ all[n + 1] = row /\ \A i \in 1 .. n : all[i] = s[i]
  OBVIOUS
<1> HIDE DEF n, all
<1>2. Stands(all, n + 1)
  BY <1>1 DEF Stands
<1>3. ASSUME NEW i \in 1 .. n
      PROVE  Stands(all, i) <=> Stands(s, i) /\ s[i].model # row.model
  BY <1>1 DEF Stands
<1>4. AsTable(all) = {all[i] : i \in {k \in 1 .. n : Stands(all, k)}} \union {row}
  BY <1>1, <1>2 DEF AsTable
<1>5. AsTable(s) = {s[i] : i \in {k \in 1 .. n : Stands(s, k)}}
  BY <1>1 DEF AsTable
<1> QED BY <1>1, <1>3, <1>4, <1>5 DEF all

\* The row that is written goes over from what is to do to what is done.
LEMMA RowWritten ==
  ASSUME NEW done \in Seq(Row), NEW list \in Seq(Row), list # <<>>
  PROVE  /\ Head(list) \in Row /\ Tail(list) \in Seq(Row)
         /\ Append(done, Head(list)) \in Seq(Row)
         /\ done \o list = Append(done, Head(list)) \o Tail(list)
<1>1. Head(list) \in Row /\ Tail(list) \in Seq(Row) /\ Append(done, Head(list)) \in Seq(Row)
  OBVIOUS
<1>2. Len(list) > 0 /\ Len(Tail(list)) = Len(list) - 1 /\ Head(list) = list[1]
  OBVIOUS
<1>3. Len(done \o list) = Len(Append(done, Head(list)) \o Tail(list))
  BY <1>1, <1>2
<1>4. ASSUME NEW i \in 1 .. Len(done \o list)
      PROVE  (done \o list)[i] = (Append(done, Head(list)) \o Tail(list))[i]
  BY <1>1, <1>2, <1>4
<1> QED BY <1>1, <1>3, <1>4

\* The lists that are submitted are lists of rows.
LEMMA ListsOfRows == TargetLists \subseteq Seq(Row) /\ <<>> \in Seq(Row)
  BY RoutingAssumption

LEMMA TargetsStart == Init => TargetsInv
<1> SUFFICES ASSUME Init PROVE TargetsInv
  OBVIOUS
<1>1. /\ status = [i \in Item |-> status[i]] /\ task = [a \in Admin |-> Idle]
  BY DEF Init
<1>2. targets = AsTable(asked) /\ asked \in Seq(Row) /\ (status[Vm] = "absent" => targets = {})
  <2>1. CASE Exists(Vm)
    BY <2>1, ListsOfRows DEF Init, Exists
  <2>2. CASE ~Exists(Vm)
    BY <2>2, ListsOfRows, NoRows DEF Init
  <2> QED BY <2>1, <2>2
<1> QED BY <1>1, <1>2 DEF TargetsInv, EditsFit, Editing, Idle

\* A step that is none of a call that edits targets.
LEMMA OthersKeepTargets ==
  ASSUME TargetsInv, UNCHANGED <<targets, asked, mixed>>,
         status' = [i \in Item |-> status'[i]], task' = [a \in Admin |-> task'[a]],
         status'[Vm] = "absent" => status[Vm] = "absent",
         \A a \in Admin :
           \/ task'[a] = task[a]
           \/ ~Editing(a) /\ task'[a].op # "insert" /\ task'[a].to \in {"on", "off"}
  PROVE  TargetsInv'
<1>1. \A a \in Admin : (Editing(a)' <=> Editing(a)) /\ task'[a].to \in {"on", "off"}
                       /\ (Editing(a) => task'[a] = task[a])
  BY DEF Editing, TargetsInv
<1>2. ~mixed => EditsFit'
  BY <1>1 DEF TargetsInv, EditsFit
<1> QED BY <1>1, <1>2 DEF TargetsInv

\* One call goes on, the others stay as they are.
LEMMA OneTask ==
  ASSUME TargetsInv, NEW a \in Admin, NEW t, task' = [task EXCEPT ![a] = t]
  PROVE  /\ task' = [b \in Admin |-> task'[b]] /\ task'[a] = t
         /\ \A b \in Admin : b # a => task'[b] = task[b]
  BY DEF TargetsInv

LEMMA UpdatesKeepTargets ==
  ASSUME TargetsInv, NEW a \in Admin,
         \/ \E i \in Item : StartUpdate(a, i) \/ StartEdit(a, i)
         \/ \E p \in Provider : CountModels(a, p)
         \/ FinishUpdate(a) \/ DeleteProvider(a)
         \/ \E m \in Model : CreateModel(a, m) \/ DeleteModel(a, m)
  PROVE  TargetsInv'
<1>0. /\ task = [b \in Admin |-> task[b]] /\ status = [i \in Item |-> status[i]]
      /\ Vm \in Item /\ Vm \notin Model /\ task[a].to \in {"on", "off"}
  BY RoutingAssumption DEF TargetsInv, Item
<1>1. CASE \E i \in Item : StartUpdate(a, i) \/ StartEdit(a, i)
  <2>1. PICK i \in Item : StartUpdate(a, i) \/ StartEdit(a, i)
    BY <1>1
  <2>2. PICK to \in {"on", "off"} :
          task' = [task EXCEPT ![a] = [Idle EXCEPT !.op = "update", !.item = i, !.to = to]]
    BY <2>1 DEF StartUpdate, StartEdit, Exists
  <2>3. task'[a] = [Idle EXCEPT !.op = "update", !.item = i, !.to = to]
        /\ task' = [b \in Admin |-> task'[b]] /\ \A b \in Admin : b # a => task'[b] = task[b]
    BY <2>2, OneTask
  <2>4. task'[a].op = "update" /\ task'[a].to \in {"on", "off"}
    BY <2>3 DEF Idle
  <2>5. ~Editing(a) /\ UNCHANGED <<status, targets, asked, mixed>>
    BY <2>1 DEF StartUpdate, StartEdit, NewCall, Editing, tables
  <2> QED BY <1>0, <2>3, <2>4, <2>5, OthersKeepTargets
<1>2. CASE \E p \in Provider : CountModels(a, p)
  <2>1. PICK p \in Provider : CountModels(a, p)
    BY <1>2
  <2>2. task' = [task EXCEPT ![a] = [Idle EXCEPT !.op = "delete", !.item = p]]
    BY <2>1 DEF CountModels
  <2>3. task'[a] = [Idle EXCEPT !.op = "delete", !.item = p]
        /\ task' = [b \in Admin |-> task'[b]] /\ \A b \in Admin : b # a => task'[b] = task[b]
    BY <2>2, OneTask
  <2>4. task'[a].op = "delete" /\ task'[a].to = "on"
    BY <2>3 DEF Idle
  <2>5. ~Editing(a) /\ UNCHANGED <<status, targets, asked, mixed>>
    BY <2>1 DEF CountModels, NewCall, Editing, tables
  <2> QED BY <1>0, <2>3, <2>4, <2>5, OthersKeepTargets
<1>3. CASE FinishUpdate(a) \/ DeleteProvider(a)
  <2>1. task' = [task EXCEPT ![a] = Idle] /\ ~Editing(a) /\ UNCHANGED <<targets, asked, mixed>>
    BY <1>3 DEF FinishUpdate, DeleteProvider, Editing
  <2>2. task'[a] = Idle
        /\ task' = [b \in Admin |-> task'[b]] /\ \A b \in Admin : b # a => task'[b] = task[b]
    BY <2>1, OneTask
  <2>3. Idle.op # "insert" /\ Idle.to \in {"on", "off"}
    BY DEF Idle
  <2>4. status' = [i \in Item |-> status'[i]] /\ (status'[Vm] = "absent" => status[Vm] = "absent")
    BY <1>0, <1>3 DEF FinishUpdate, DeleteProvider
  <2> QED BY <2>1, <2>2, <2>3, <2>4, OthersKeepTargets
<1>4. CASE \E m \in Model : CreateModel(a, m) \/ DeleteModel(a, m)
  <2>1. PICK m \in Model : CreateModel(a, m) \/ DeleteModel(a, m)
    BY <1>4
  <2>2. PICK to : status' = [status EXCEPT ![m] = to]
    BY <2>1 DEF CreateModel, DeleteModel
  <2>3. status' = [i \in Item |-> status'[i]] /\ status'[Vm] = status[Vm]
    BY <1>0, <2>2
  <2>4. UNCHANGED <<task, targets, asked, mixed>>
    BY <2>1 DEF CreateModel, DeleteModel
  <2> QED BY <1>0, <2>3, <2>4, OthersKeepTargets
<1> QED BY <1>1, <1>2, <1>3, <1>4

\* What the calls that edit targets do.
LEMMA EditsKeepTargets ==
  ASSUME TargetsInv, NEW a \in Admin,
         \/ DeleteVm(a)
         \/ \E list \in TargetLists : StartTargets(a, list)
         \/ InsertTarget(a) \/ FailTargets(a) \/ EndTargets(a)
  PROVE  TargetsInv'
<1>0. /\ task = [b \in Admin |-> task[b]] /\ status = [i \in Item |-> status[i]]
      /\ Vm \in Item /\ asked \in Seq(Row)
      /\ \A b \in Admin : task[b].to \in {"on", "off"}
      /\ \A b \in Admin : Editing(b) => task[b].list \in Seq(Row)
  BY DEF TargetsInv, Item
<1>1. CASE DeleteVm(a)
  <2>1. /\ status' = [status EXCEPT ![Vm] = "deleted"] /\ targets' = {} /\ asked' = <<>>
        /\ mixed' = \E b \in Admin : Editing(b)
        /\ task' = task
    BY <1>1 DEF DeleteVm, Cleared
  <2>2. ~mixed' => EditsFit'
    BY <2>1, NoRows DEF EditsFit, Editing
  <2>3. status' = [i \in Item |-> status'[i]]
    BY <1>0, <2>1
  <2> QED BY <1>0, <2>1, <2>2, <2>3, ListsOfRows DEF TargetsInv, Editing
<1>2. ASSUME NEW list \in TargetLists, StartTargets(a, list) PROVE TargetsInv'
  <2>1. /\ targets' = {} /\ asked' = list
        /\ mixed' = \E b \in Admin : Editing(b)
        /\ task' = [task EXCEPT ![a] = [Idle EXCEPT !.op = "insert", !.list = list]]
    BY <1>2 DEF StartTargets, Cleared, TargetsInv
  <2>2. /\ task' = [b \in Admin |-> task'[b]]
        /\ task'[a] = [Idle EXCEPT !.op = "insert", !.list = list]
        /\ \A b \in Admin : b # a => task'[b] = task[b]
    BY <2>1, OneTask
  <2>3. task'[a].op = "insert" /\ task'[a].list = list /\ task'[a].to = "on"
    BY <2>2 DEF Idle
  <2>4. list \in Seq(Row) /\ <<>> \in Seq(Row) /\ list = <<>> \o list
    BY ListsOfRows
  <2>5. Wrote({}, list, list)
    BY <2>4, NoRows DEF Wrote
  <2>6. ~mixed' => EditsFit'
    BY <2>1, <2>2, <2>3, <2>5 DEF EditsFit, Editing
  <2>7. status' = [i \in Item |-> status'[i]]
    BY <1>0, <1>2 DEF StartTargets
  <2> QED BY <1>0, <2>1, <2>2, <2>3, <2>4, <2>6, <2>7 DEF TargetsInv, Editing
<1>3. CASE InsertTarget(a)
  <2> DEFINE list == task[a].list
             t == [task[a] EXCEPT !.list = Tail(list)]
  <2>1. /\ Editing(a) /\ list # <<>> /\ Exists(Vm) /\ UNCHANGED <<status, asked, mixed>>
        /\ targets' = {u \in targets : u.model # Head(list).model} \union {Head(list)}
        /\ task' = [task EXCEPT ![a] = t]
    BY <1>0, <1>3 DEF InsertTarget, Inserted
  <2>2. list \in Seq(Row)
    BY <1>0, <2>1
  <2>3. /\ task' = [b \in Admin |-> task'[b]] /\ task'[a] = t
        /\ \A b \in Admin : b # a => task'[b] = task[b]
    BY <2>1, OneTask
  <2>4. ASSUME ~mixed PROVE Wrote(targets', Tail(list), asked) /\ \A b \in Admin : b # a => ~Editing(b)
    <3>1. PICK done \in Seq(Row) : asked = done \o list /\ targets = AsTable(done)
      BY <2>1, <2>4 DEF TargetsInv, EditsFit, Wrote
    <3>2. /\ Append(done, Head(list)) \in Seq(Row) /\ Head(list) \in Row
          /\ asked = Append(done, Head(list)) \o Tail(list)
      BY <2>1, <2>2, <3>1, RowWritten
    <3>3. targets' = AsTable(Append(done, Head(list)))
      BY <2>1, <3>1, <3>2, RowMore
    <3> QED BY <2>1, <2>4, <3>2, <3>3 DEF Wrote, TargetsInv, EditsFit
  <2>5. t.op = task[a].op /\ t.list = Tail(list) /\ t.to = task[a].to
    BY <1>0, <2>1
  <2>6. ~mixed' => EditsFit'
    BY <2>1, <2>3, <2>4, <2>5 DEF EditsFit, Editing
  <2>7. Tail(list) \in Seq(Row)
    BY <2>1, <2>2, RowWritten
  <2> HIDE DEF t, list
  <2> QED BY <1>0, <2>1, <2>3, <2>5, <2>6, <2>7 DEF TargetsInv, Editing, Exists
<1>4. CASE FailTargets(a) \/ EndTargets(a)
  <2>1. /\ Editing(a) /\ task' = [task EXCEPT ![a] = Idle]
        /\ UNCHANGED <<status, targets, asked>>
        /\ mixed' = TRUE \/ (mixed' = mixed /\ task[a].list = <<>>)
    BY <1>4 DEF FailTargets, EndTargets, tables
  <2>2. /\ task' = [b \in Admin |-> task'[b]] /\ task'[a] = Idle
        /\ \A b \in Admin : b # a => task'[b] = task[b]
    BY <2>1, OneTask
  <2>3. Idle.op # "insert" /\ Idle.to = "on"
    BY DEF Idle
  <2>4. ASSUME ~mixed' PROVE EditsFit'
    <3>1. ~mixed /\ task[a].list = <<>>
      BY <2>1, <2>4
    <3>2. PICK done \in Seq(Row) : asked = done \o <<>> /\ targets = AsTable(done)
      BY <2>1, <3>1 DEF TargetsInv, EditsFit, Wrote
    <3>3. asked = done
      BY <3>2
    <3>4. \A b \in Admin : b # a => ~Editing(b)
      BY <2>1, <3>1 DEF TargetsInv, EditsFit
    <3> QED BY <2>1, <2>2, <2>3, <3>2, <3>3, <3>4 DEF EditsFit, Editing
  <2> QED BY <1>0, <2>1, <2>2, <2>3, <2>4 DEF TargetsInv, Editing
<1> QED BY <1>1, <1>2, <1>3, <1>4

LEMMA TargetsStep == TargetsInv /\ [Next]_vars => TargetsInv'
<1> SUFFICES ASSUME TargetsInv, [Next]_vars PROVE TargetsInv'
  OBVIOUS
<1>1. CASE UNCHANGED <<tables, admin>>
  BY <1>1, OthersKeepTargets DEF tables, admin, TargetsInv
<1>2. CASE UNCHANGED vars
  BY <1>1, <1>2 DEF vars
<1>3. ASSUME NEW r \in Request,
             \/ FindVm(r) \/ NoVm(r) \/ ReadTargets(r) \/ Look(r) \/ EndLook(r)
             \/ FindDirect(r) \/ AuthorizeDirect(r) \/ Call(r)
      PROVE  TargetsInv'
  BY <1>1, <1>3 DEF FindVm, NoVm, ReadTargets, Look, EndLook, FindDirect, AuthorizeDirect, Call
<1> QED BY <1>2, <1>3, UpdatesKeepTargets, EditsKeepTargets DEF Next

LEMMA TargetsAsAsked == TargetsInv => TargetsAreAsAsked
  BY DEF TargetsInv, EditsFit, TargetsAreAsAsked

\* Once a call that edits targets has answered, and none overlapped it or failed,
\* the table holds the list it was given, for any lists and administrators, although
\* replace_targets() writes it row by row outside a transaction.
THEOREM TargetsHoldTheList == Spec => []TargetsAreAsAsked
BY TargetsStart, TargetsStep, TargetsAsAsked, PTL DEF Spec

-----------------------------------------------------------------------------
(* The order of the targets and what loops keep of it.                     *)

\* Some of the natural numbers have a least one.
LEMMA Least ==
  ASSUME NEW T, T \subseteq Nat, T # {}
  PROVE  \E x \in T : \A y \in T : x <= y
<1> DEFINE Before == OpToRel(<, Nat)
<1>1. IsWellFoundedOn(Before, Nat)
  BY NatLessThanWellFounded
<1>2. Before = {ss \in Nat \X Nat : ss[1] < ss[2]}
  BY DEF OpToRel
<1> HIDE DEF Before
<1>3. PICK x \in T : \A y \in T : ~(<<y, x>> \in Before)
  BY <1>1, WFMin
<1>4. ASSUME NEW y \in T PROVE x <= y
  <2>1. <<y, x>> \in Nat \X Nat /\ <<y, x>>[1] = y /\ <<y, x>>[2] = x
    OBVIOUS
  <2>2. ~(y < x)
    BY <1>2, <1>3, <2>1
  <2> QED BY <2>2
<1> QED BY <1>4

\* An order of the rows of a table: each once, and none before a smaller priority.
IsOrder(s, ts) ==
  /\ s \in [1 .. Cardinality(ts) -> ts]
  /\ \A i, j \in 1 .. Cardinality(ts) : i < j => s[i] # s[j] /\ s[i].prio <= s[j].prio

\* Every table has one: the row of the least priority goes before the others'.
LEMMA OrdersExist ==
  ASSUME NEW ts \in SUBSET Row, IsFiniteSet(ts)
  PROVE  \E s : IsOrder(s, ts)
<1> DEFINE Without == {T \in SUBSET Row : IsFiniteSet(T) /\ ~ \E s : IsOrder(s, T)}
           Sizes == {Cardinality(T) : T \in Without}
<1> SUFFICES ASSUME Without # {} PROVE FALSE
  OBVIOUS
<1>1. Sizes \subseteq Nat /\ Sizes # {}
  BY FS_CardinalityType
<1>2. PICK T \in Without : \A U \in Without : Cardinality(T) <= Cardinality(U)
  <2>1. PICK n \in Sizes : \A k \in Sizes : n <= k
    BY <1>1, Least
  <2> QED BY <2>1
<1>3. T \subseteq Row /\ IsFiniteSet(T) /\ Cardinality(T) \in Nat
  BY <1>2, FS_CardinalityType
<1>4. T # {}
  <2> SUFFICES ASSUME T = {} PROVE FALSE
    OBVIOUS
  <2>1. Cardinality(T) = 0
    BY FS_EmptySet
  <2>2. IsOrder([i \in 1 .. 0 |-> i], T)
    BY <2>1 DEF IsOrder
  <2> QED BY <1>2, <2>2
<1>5. PICK t \in T : \A u \in T : t.prio <= u.prio
  <2>1. {u.prio : u \in T} \subseteq Nat
    BY <1>3 DEF Row
  <2>2. {u.prio : u \in T} # {}
    BY <1>4
  <2>3. PICK n \in {u.prio : u \in T} : \A k \in {u.prio : u \in T} : n <= k
    BY <2>1, <2>2, Least
  <2> QED BY <2>3
<1> DEFINE U == T \ {t}
           c == Cardinality(U)
<1>6. IsFiniteSet(U) /\ Cardinality(T) = c + 1
  <2>1. IsFiniteSet(U) /\ c = Cardinality(T) - 1
    BY <1>3, FS_RemoveElement
  <2> HIDE DEF c
  <2> QED BY <1>3, <2>1
<1>7. c \in Nat
  BY <1>6, FS_CardinalityType
<1>8. PICK s : IsOrder(s, U)
  <2>1. U \in SUBSET Row /\ ~(Cardinality(T) <= c)
    BY <1>3, <1>6, <1>7
  <2> QED BY <1>2, <1>6, <2>1
<1> DEFINE all == [i \in 1 .. c + 1 |-> IF i = 1 THEN t ELSE s[i - 1]]
<1>9. s \in [1 .. c -> U]
  BY <1>8 DEF IsOrder
<1>10. /\ all \in [1 .. c + 1 -> T] /\ all[1] = t
       /\ \A i \in 2 .. c + 1 : all[i] = s[i - 1] /\ s[i - 1] \in U
  <2> HIDE DEF c, U
  <2>1. \A i \in 2 .. c + 1 : i - 1 \in 1 .. c /\ i # 1 /\ i \in 1 .. c + 1
    BY <1>7
  <2>2. 1 \in 1 .. c + 1
    BY <1>7
  <2>3. \A i \in 1 .. c + 1 : i = 1 \/ i \in 2 .. c + 1
    BY <1>7
  <2>4. \A i \in 2 .. c + 1 : s[i - 1] \in U /\ s[i - 1] \in T
    BY <1>9, <2>1 DEF U
  <2> QED BY <2>1, <2>2, <2>3, <2>4
<1>11. ASSUME NEW i \in 1 .. c + 1, NEW j \in 1 .. c + 1, i < j
       PROVE  all[i] # all[j] /\ all[i].prio <= all[j].prio
  <2>1. j \in 2 .. c + 1 /\ j - 1 \in 1 .. c
    BY <1>7, <1>11
  <2>2. CASE i = 1
    BY <1>5, <1>10, <2>1, <2>2
  <2>3. CASE i # 1
    <3>1. i \in 2 .. c + 1 /\ i - 1 \in 1 .. c /\ i - 1 < j - 1
      BY <1>7, <1>11, <2>3
    <3> HIDE DEF all, c
    <3>2. s[i - 1] # s[j - 1] /\ s[i - 1].prio <= s[j - 1].prio
      BY <1>8, <2>1, <3>1 DEF IsOrder, c
    <3> QED BY <1>10, <2>1, <3>1, <3>2
  <2> QED BY <2>2, <2>3
<1>12. IsOrder(all, T)
  <2> HIDE DEF all, c
  <2> QED BY <1>6, <1>10, <1>11 DEF IsOrder
<1> QED BY <1>2, <1>12

LEMMA OrderedIsOrder ==
  ASSUME NEW ts \in SUBSET Row, IsFiniteSet(ts)
  PROVE  IsOrder(Ordered(ts), ts) /\ Ordered(ts) \in Seq(Row)
<1>1. PICK s : IsOrder(s, ts)
  BY OrdersExist
<1>2. IsOrder(Ordered(ts), ts)
  BY <1>1 DEF IsOrder, Ordered
<1>3. Cardinality(ts) \in Nat
  BY FS_CardinalityType
<1> QED BY <1>2, <1>3 DEF IsOrder

\* What a loop has kept after each of its first rounds: there is such, and no other.
Rounds(f, s, places, n) ==
  /\ f[0] = <<>>
  /\ \A k \in 1 .. n : f[k] = IF k \in places THEN Append(f[k - 1], s[k]) ELSE f[k - 1]
PicksTo(f, s, places, n) == f \in [0 .. n -> Seq(Row)] /\ Rounds(f, s, places, n)
Picks(f, s, places) == PicksTo(f, s, places, Len(s))

LEMMA RoundsAgree ==
  ASSUME NEW s, NEW places, NEW n \in Nat, NEW f, NEW h,
         Rounds(f, s, places, n), Rounds(h, s, places, n)
  PROVE  \A k \in 0 .. n : f[k] = h[k]
<1> DEFINE Differ == {k \in 0 .. n : f[k] # h[k]}
<1> SUFFICES ASSUME Differ # {} PROVE FALSE
  OBVIOUS
<1>1. PICK m \in Differ : \A k \in Differ : m <= k
  <2>1. Differ \subseteq Nat
    OBVIOUS
  <2> QED BY <2>1, Least
<1>2. m # 0
  BY <1>1 DEF Rounds
<1>3. m \in 1 .. n /\ m - 1 \in 0 .. n /\ ~(m <= m - 1)
  BY <1>1, <1>2
<1>4. f[m - 1] = h[m - 1]
  BY <1>1, <1>3
<1>5. f[m] = h[m]
  BY <1>3, <1>4 DEF Rounds
<1> QED BY <1>1, <1>5

LEMMA PicksExist ==
  ASSUME NEW s \in Seq(Row), NEW places
  PROVE  \E f : Picks(f, s, places)
<1> DEFINE None == {n \in 0 .. Len(s) : ~ \E f : PicksTo(f, s, places, n)}
<1>0. Len(s) \in Nat /\ \A k \in 1 .. Len(s) : s[k] \in Row
  OBVIOUS
<1> SUFFICES ASSUME None # {} PROVE FALSE
  <2>1. Len(s) \in 0 .. Len(s)
    BY <1>0
  <2> QED BY <2>1 DEF Picks
<1>1. None \subseteq Nat
  OBVIOUS
<1>2. PICK n \in None : \A k \in None : n <= k
  BY <1>1, Least
<1>3. n # 0
  <2>1. <<>> \in Seq(Row)
    OBVIOUS
  <2>2. PicksTo([k \in 0 .. 0 |-> <<>>], s, places, 0)
    BY <2>1 DEF PicksTo, Rounds
  <2> QED BY <1>2, <2>2
<1>4. n \in 1 .. Len(s) /\ n - 1 \in 0 .. Len(s) /\ n - 1 \notin None
  <2>1. n \in 0 .. Len(s)
    BY <1>2
  <2>2. n \in 1 .. Len(s) /\ n - 1 \in 0 .. Len(s) /\ ~(n <= n - 1)
    BY <1>0, <1>3, <2>1
  <2> QED BY <1>2, <2>2
<1>5. PICK f : PicksTo(f, s, places, n - 1)
  BY <1>4
<1> DEFINE last == IF n \in places THEN Append(f[n - 1], s[n]) ELSE f[n - 1]
           g == [k \in 0 .. n |-> IF k = n THEN last ELSE f[k]]
<1>6. last \in Seq(Row)
  <2>1. n - 1 \in 0 .. n - 1
    BY <1>0, <1>4
  <2>2. f[n - 1] \in Seq(Row) /\ s[n] \in Row
    BY <1>0, <1>4, <1>5, <2>1 DEF PicksTo, Rounds
  <2> QED BY <2>2
<1>7. g \in [0 .. n -> Seq(Row)] /\ g[n] = last /\ \A k \in 0 .. n - 1 : g[k] = f[k]
  <2> HIDE DEF last
  <2>1. n \in Nat /\ n \in 0 .. n /\ \A k \in 0 .. n : k = n \/ k \in 0 .. n - 1
    BY <1>0, <1>4
  <2>2. \A k \in 0 .. n - 1 : k \in 0 .. n /\ k # n /\ f[k] \in Seq(Row)
    BY <1>5, <2>1 DEF PicksTo, Rounds
  <2> QED BY <1>6, <2>1, <2>2
<1>8. PicksTo(g, s, places, n)
  <2> HIDE DEF g
  <2>1. n \in Nat /\ \A k \in 1 .. n : k - 1 \in 0 .. n - 1 /\ (k = n \/ (k \in 1 .. n - 1 /\ k \in 0 .. n - 1))
    BY <1>0, <1>4
  <2>2. 0 \in 0 .. n - 1 /\ g[0] = <<>>
    BY <1>4, <1>5, <1>7 DEF PicksTo, Rounds
  <2>3. ASSUME NEW k \in 1 .. n
        PROVE  g[k] = IF k \in places THEN Append(g[k - 1], s[k]) ELSE g[k - 1]
    <3>1. CASE k = n
      BY <1>7, <2>1, <3>1
    <3>2. CASE k # n
      BY <1>5, <1>7, <2>1, <3>2 DEF PicksTo, Rounds
    <3> QED BY <3>1, <3>2
  <2> QED BY <1>7, <2>2, <2>3 DEF PicksTo, Rounds
<1> QED BY <1>2, <1>8

LEMMA PickedIsLast ==
  ASSUME NEW s \in Seq(Row), NEW places
  PROVE  \E f : Picks(f, s, places) /\ Picked(s, places) = f[Len(s)]
<1> DEFINE m == Len(s)
           Step(g) == [n \in 0 .. Len(s) |->
                         IF n = 0 THEN <<>>
                         ELSE IF n \in places THEN Append(g[n - 1], s[n]) ELSE g[n - 1]]
           f == CHOOSE g : g = Step(g)
<1>1. m \in Nat
  OBVIOUS
<1>2. PICK h : PicksTo(h, s, places, m)
  BY PicksExist DEF Picks
<1>3. h = Step(h)
  <2>1. \A n \in 0 .. m :
          h[n] = IF n = 0 THEN <<>>
                 ELSE IF n \in places THEN Append(h[n - 1], s[n]) ELSE h[n - 1]
    <3> HIDE DEF m
    <3>1. \A n \in 0 .. m : n = 0 \/ n \in 1 .. m
      BY <1>1
    <3> QED BY <1>2, <3>1 DEF PicksTo, Rounds
  <2>2. h = [n \in 0 .. m |-> h[n]]
    BY <1>2 DEF PicksTo, Rounds
  <2> QED BY <2>1, <2>2
<1>4. f = Step(f)
  BY <1>3
<1>5. Picked(s, places) = f[m]
  BY DEF Picked
<1>6. \A n \in 0 .. m :
        f[n] = IF n = 0 THEN <<>>
               ELSE IF n \in places THEN Append(f[n - 1], s[n]) ELSE f[n - 1]
  <2> HIDE DEF f
  <2> QED BY <1>4
<1> HIDE DEF f, m, Step
<1>7. Rounds(f, s, places, m)
  <2>1. 0 \in 0 .. m /\ \A k \in 1 .. m : k \in 0 .. m /\ k # 0
    BY <1>1
  <2>2. f[0] = <<>>
    BY <1>6, <2>1
  <2>3. ASSUME NEW k \in 1 .. m
        PROVE  f[k] = IF k \in places THEN Append(f[k - 1], s[k]) ELSE f[k - 1]
    BY <1>6, <2>1
  <2> QED BY <2>2, <2>3 DEF Rounds
<1>8. m \in 0 .. m /\ f[m] = h[m]
  BY <1>1, <1>2, <1>7, RoundsAgree DEF PicksTo
<1> QED BY <1>2, <1>5, <1>8 DEF Picks, m

\* Rounds that keep nothing leave what was kept; the others add to its end.
LEMMA PicksPass ==
  ASSUME NEW s \in Seq(Row), NEW places, NEW f, Picks(f, s, places),
         NEW p \in 0 .. Len(s), NEW q \in p .. Len(s), \A k \in p + 1 .. q : k \notin places
  PROVE  f[q] = f[p]
<1> DEFINE Differ == {k \in p .. q : f[k] # f[p]}
<1>0. Len(s) \in Nat /\ p \in Nat /\ q \in Nat
  OBVIOUS
<1> SUFFICES ASSUME Differ # {} PROVE FALSE
  <2>1. q \in p .. q
    BY <1>0
  <2> QED BY <2>1
<1>1. PICK m \in Differ : \A k \in Differ : m <= k
  <2>1. Differ \subseteq Nat
    BY <1>0
  <2> QED BY <2>1, Least
<1>2. m \in p .. q /\ m # p
  BY <1>1
<1>3. m \in p + 1 .. q /\ m \in 1 .. Len(s) /\ m - 1 \in p .. q /\ ~(m <= m - 1)
  BY <1>0, <1>2
<1>4. f[m] = f[m - 1]
  BY <1>3 DEF Picks, PicksTo, Rounds
<1>5. f[m - 1] = f[p]
  BY <1>1, <1>3
<1> QED BY <1>1, <1>4, <1>5

\* An element more at the end of the second list is one more at the end of both.
LEMMA AppendToBoth ==
  ASSUME NEW a \in Seq(Row), NEW t \in Seq(Row), NEW x \in Row
  PROVE  Append(t, x) \in Seq(Row) /\ Append(a \o t, x) = a \o Append(t, x)
<1> DEFINE b == Append(a \o t, x)
           c == a \o Append(t, x)
<1>1. Append(t, x) \in Seq(Row) /\ Len(Append(t, x)) = Len(t) + 1 /\ a \o t \in Seq(Row)
      /\ Len(a \o t) = Len(a) + Len(t) /\ Len(a) \in Nat /\ Len(t) \in Nat
  OBVIOUS
<1>2. b \in Seq(Row) /\ c \in Seq(Row) /\ Len(b) = Len(a) + Len(t) + 1 /\ Len(c) = Len(b)
  BY <1>1
<1>3. ASSUME NEW i \in 1 .. Len(b) PROVE b[i] = c[i]
  <2>1. CASE i <= Len(a)
    BY <1>1, <1>2, <2>1
  <2>2. CASE i > Len(a) /\ i <= Len(a) + Len(t)
    BY <1>1, <1>2, <2>2
  <2>3. CASE i = Len(a) + Len(t) + 1
    BY <1>1, <1>2, <2>3
  <2> QED BY <1>1, <1>2, <2>1, <2>2, <2>3
<1> HIDE DEF b, c
<1>4. b = c
  BY <1>2, <1>3
<1> QED BY <1>1, <1>4 DEF b, c

GoesOn(a, b) == \E t \in Seq(Row) : b = a \o t

LEMMA PicksAdd ==
  ASSUME NEW s \in Seq(Row), NEW places, NEW f, Picks(f, s, places),
         NEW p \in 0 .. Len(s), NEW q \in p .. Len(s)
  PROVE  GoesOn(f[p], f[q])
<1> DEFINE Not == {k \in p .. q : ~GoesOn(f[p], f[k])}
<1>0. Len(s) \in Nat /\ p \in Nat /\ q \in Nat
  OBVIOUS
<1> SUFFICES ASSUME Not # {} PROVE FALSE
  <2>1. q \in p .. q
    BY <1>0
  <2> QED BY <2>1
<1>1. PICK m \in Not : \A k \in Not : m <= k
  <2>1. Not \subseteq Nat
    BY <1>0
  <2> QED BY <2>1, Least
<1>2. f[p] \in Seq(Row) /\ \A k \in 1 .. Len(s) : s[k] \in Row
  BY DEF Picks, PicksTo, Rounds
<1>3. m # p
  <2>1. <<>> \in Seq(Row) /\ f[p] = f[p] \o <<>>
    BY <1>2
  <2> QED BY <1>1, <2>1 DEF GoesOn
<1>4. m \in p .. q
  BY <1>1
<1>5. m \in 1 .. Len(s) /\ m - 1 \in p .. q /\ ~(m <= m - 1)
  BY <1>0, <1>3, <1>4
<1>6. PICK t \in Seq(Row) : f[m - 1] = f[p] \o t
  BY <1>1, <1>5 DEF GoesOn
<1>7. f[m] = f[m - 1] \/ f[m] = Append(f[m - 1], s[m])
  BY <1>5 DEF Picks, PicksTo, Rounds
<1>8. Append(t, s[m]) \in Seq(Row) /\ Append(f[p] \o t, s[m]) = f[p] \o Append(t, s[m])
  BY <1>2, <1>5, AppendToBoth
<1> QED BY <1>1, <1>6, <1>7, <1>8 DEF GoesOn

\* What is left to loop over begins with the next place that is kept...
LEMMA PicksNext ==
  ASSUME NEW s \in Seq(Row), NEW places, NEW f, Picks(f, s, places),
         NEW p \in 0 .. Len(s), NEW rest \in Seq(Row), f[p] \o rest = f[Len(s)],
         NEW k \in p + 1 .. Len(s), k \in places
  PROVE  rest # <<>>
         /\ \E q \in p + 1 .. Len(s) :
              /\ q \in places /\ \A j \in p + 1 .. q - 1 : j \notin places
              /\ Head(rest) = s[q] /\ Tail(rest) \in Seq(Row)
              /\ f[q] \o Tail(rest) = f[Len(s)]
<1>0. Len(s) \in Nat /\ p \in Nat
  OBVIOUS
<1> DEFINE Next1 == {j \in p + 1 .. Len(s) : j \in places}
<1>1. PICK q \in Next1 : \A j \in Next1 : q <= j
  <2>1. Next1 \subseteq Nat
    BY <1>0
  <2>2. k \in Next1
    OBVIOUS
  <2> HIDE DEF Next1
  <2> QED BY <2>1, <2>2, Least
<1>2. /\ q \in p + 1 .. Len(s) /\ q \in places /\ q \in 1 .. Len(s)
      /\ q - 1 \in p .. Len(s) /\ q \in 0 .. Len(s) /\ Len(s) \in q .. Len(s)
  BY <1>0, <1>1
<1>3. \A j \in p + 1 .. q - 1 : j \notin places
  BY <1>0, <1>1, <1>2
<1>4. f[q - 1] = f[p]
  BY <1>2, <1>3, PicksPass
<1> DEFINE a == f[p]
           x == s[q]
<1>5. a \in Seq(Row) /\ x \in Row
  <2>1. f \in [0 .. Len(s) -> Seq(Row)]
    BY DEF Picks, PicksTo
  <2>2. f[p] \in Seq(Row)
    BY <2>1
  <2>3. s[q] \in Row
    BY <1>2
  <2> QED BY <2>2, <2>3
<1> HIDE DEF Next1
<1>6. f[q] = Append(a, x)
  BY <1>2, <1>4 DEF Picks, PicksTo, Rounds
<1>7. PICK t \in Seq(Row) : f[Len(s)] = f[q] \o t
  <2> DEFINE n == Len(s)
  <2>1. q \in 0 .. Len(s) /\ n \in q .. Len(s)
    BY <1>2
  <2> HIDE DEF n
  <2>2. GoesOn(f[q], f[n])
    BY <2>1, PicksAdd
  <2> QED BY <2>2 DEF n, GoesOn
<1>8. a \o rest = Append(a, x) \o t
  BY <1>6, <1>7
<1> HIDE DEF a, x
<1>9. rest # <<>> /\ Head(rest) = x /\ Tail(rest) = t
  <2>1. /\ Len(a) \in Nat /\ Len(rest) \in Nat /\ Len(t) \in Nat
        /\ Len(rest) = Len(t) + 1
    <3>1. Len(a \o rest) = Len(a) + Len(rest) /\ Len(Append(a, x) \o t) = Len(a) + 1 + Len(t)
      BY <1>5
    <3>2. Len(a) \in Nat /\ Len(rest) \in Nat /\ Len(t) \in Nat
      BY <1>5
    <3> QED BY <1>8, <3>1, <3>2
  <2>2. rest # <<>> /\ Head(rest) = rest[1] /\ Tail(rest) \in Seq(Row)
        /\ Len(Tail(rest)) = Len(t)
    BY <2>1
  <2>3. rest[1] = x
    <3>1. (a \o rest)[Len(a) + 1] = rest[1]
      BY <1>5, <2>1
    <3>2. (Append(a, x) \o t)[Len(a) + 1] = x
      BY <1>5, <2>1
    <3> QED BY <1>8, <3>1, <3>2
  <2>4. ASSUME NEW i \in 1 .. Len(t) PROVE Tail(rest)[i] = t[i]
    <3>1. Tail(rest)[i] = rest[i + 1] /\ i + 1 \in 1 .. Len(rest)
      BY <2>1, <2>2
    <3>2. (a \o rest)[Len(a) + i + 1] = rest[i + 1]
      BY <1>5, <2>1, <3>1
    <3>3. (Append(a, x) \o t)[Len(a) + i + 1] = t[i]
      BY <1>5, <2>1
    <3> QED BY <1>8, <3>1, <3>2, <3>3
  <2> DEFINE u == Tail(rest)
  <2>5. u \in Seq(Row) /\ Len(u) = Len(t) /\ \A i \in 1 .. Len(t) : u[i] = t[i]
    BY <2>2, <2>4
  <2> HIDE DEF u
  <2>6. u = t
    BY <2>5
  <2> QED BY <2>2, <2>3, <2>6 DEF u
<1>10. f[q] \o Tail(rest) = f[Len(s)]
  BY <1>7, <1>9
<1> QED BY <1>2, <1>3, <1>9, <1>10 DEF x

\* ...and when nothing is left, there is none.
Meets(places, p, n) == \E k \in p + 1 .. n : k \in places

LEMMA PicksDone ==
  ASSUME NEW s \in Seq(Row), NEW places, NEW f, Picks(f, s, places),
         NEW p \in 0 .. Len(s), NEW rest \in Seq(Row), f[p] \o rest = f[Len(s)]
  PROVE  Meets(places, p, Len(s)) <=> rest # <<>>
<1>1. ASSUME rest = <<>>, NEW k \in p + 1 .. Len(s), k \in places PROVE FALSE
  BY <1>1, PicksNext
<1>2. ASSUME \A k \in p + 1 .. Len(s) : k \notin places PROVE rest = <<>>
  <2>1. Len(s) \in p .. Len(s)
    OBVIOUS
  <2>2. f[Len(s)] = f[p]
    BY <1>2, <2>1, PicksPass
  <2> DEFINE a == f[p]
  <2>3. a \in Seq(Row) /\ a \o rest = a
    BY <2>2 DEF Picks, PicksTo, Rounds
  <2> HIDE DEF a
  <2>4. Len(a) \in Nat /\ Len(rest) \in Nat /\ Len(a \o rest) = Len(a) + Len(rest)
    BY <2>3
  <2>5. Len(rest) = 0
    BY <2>3, <2>4
  <2> QED BY <2>5
<1> QED BY <1>1, <1>2 DEF Meets

-----------------------------------------------------------------------------
(* Resolutions and the simulator.                                          *)

Names(list) == [i \in DOMAIN list |-> list[i].model]

\* A loop over an order that has all that is enabled still to come but what it
\* has been through, of which it has chosen what is shown.
WalkedTo(order, enabled, shown, rest, chosen) ==
  /\ rest \in Seq(Row)
  /\ \E f, g : /\ Picks(f, order, enabled) /\ Picks(g, order, shown)
               /\ \E p \in 0 .. Len(order) : f[p] \o rest = f[Len(order)] /\ chosen = Names(g[p])

LEMMA NamesMore ==
  /\ Names(<<>>) = <<>>
  /\ \A t \in Seq(Row), x \in Row : Names(Append(t, x)) = Append(Names(t), x.model)
<1>1. Names(<<>>) = <<>>
  BY DEF Names
<1>2. ASSUME NEW t \in Seq(Row), NEW x \in Row
      PROVE  Names(Append(t, x)) = Append(Names(t), x.model)
  <2> DEFINE b == Names(Append(t, x))
             c == Append(Names(t), x.model)
             M == {u.model : u \in Row}
  <2>1. Names(t) \in Seq(M) /\ Len(Names(t)) = Len(t) /\ \A i \in 1 .. Len(t) : Names(t)[i] = t[i].model
    BY DEF Names
  <2>2. Append(t, x) \in Seq(Row) /\ Len(Append(t, x)) = Len(t) + 1 /\ Append(t, x)[Len(t) + 1] = x
        /\ \A i \in 1 .. Len(t) : Append(t, x)[i] = t[i]
    OBVIOUS
  <2>3. b \in Seq(M) /\ Len(b) = Len(t) + 1 /\ \A i \in 1 .. Len(b) : b[i] = Append(t, x)[i].model
    BY <2>2 DEF Names
  <2>4. x.model \in M
    OBVIOUS
  <2> HIDE DEF M
  <2>5. c \in Seq(M) /\ Len(c) = Len(t) + 1 /\ c[Len(t) + 1] = x.model
        /\ \A i \in 1 .. Len(t) : c[i] = Names(t)[i]
    BY <2>1, <2>4
  <2>6. \A i \in 1 .. Len(t) + 1 : i \in 1 .. Len(t) \/ i = Len(t) + 1
    OBVIOUS
  <2> HIDE DEF b, c
  <2>7. \A i \in 1 .. Len(t) + 1 : b[i] = c[i]
    BY <2>1, <2>2, <2>3, <2>5, <2>6
  <2>8. b = c
    BY <2>3, <2>5, <2>7
  <2> QED BY <2>8 DEF b, c
<1> QED BY <1>1, <1>2

LEMMA WalkBegins ==
  ASSUME NEW order \in Seq(Row), NEW enabled, NEW shown
  PROVE  WalkedTo(order, enabled, shown, Picked(order, enabled), <<>>)
<1>1. PICK f : Picks(f, order, enabled) /\ Picked(order, enabled) = f[Len(order)]
  BY PickedIsLast
<1>2. PICK g : Picks(g, order, shown)
  BY PicksExist
<1>3. 0 \in 0 .. Len(order) /\ Len(order) \in 0 .. Len(order)
  OBVIOUS
<1>4. Picked(order, enabled) \in Seq(Row)
  BY <1>1, <1>3 DEF Picks, PicksTo, Rounds
<1>5. f[0] \o Picked(order, enabled) = f[Len(order)]
  <2>1. f[0] = <<>>
    BY <1>1 DEF Picks, PicksTo, Rounds
  <2> QED BY <1>1, <1>4, <2>1
<1>6. Names(g[0]) = <<>>
  BY <1>2, NamesMore DEF Picks, PicksTo, Rounds
<1> QED BY <1>1, <1>2, <1>3, <1>4, <1>5, <1>6 DEF WalkedTo

LEMMA WalkGoesOn ==
  ASSUME NEW order \in Seq(Row), NEW enabled, NEW shown, shown \subseteq enabled,
         NEW rest, NEW chosen, WalkedTo(order, enabled, shown, rest, chosen), rest # <<>>
  PROVE  \E q \in 1 .. Len(order) :
           /\ q \in enabled /\ Head(rest) = order[q]
           /\ WalkedTo(order, enabled, shown, Tail(rest),
                IF q \in shown THEN Append(chosen, order[q].model) ELSE chosen)
<1>1. PICK f, g : /\ Picks(f, order, enabled) /\ Picks(g, order, shown)
                  /\ \E p \in 0 .. Len(order) :
                       f[p] \o rest = f[Len(order)] /\ chosen = Names(g[p])
  BY DEF WalkedTo
<1>2. PICK p \in 0 .. Len(order) : f[p] \o rest = f[Len(order)] /\ chosen = Names(g[p])
  BY <1>1
<1>3. rest \in Seq(Row)
  BY DEF WalkedTo
<1>4. PICK k \in p + 1 .. Len(order) : k \in enabled
  <2>1. Meets(enabled, p, Len(order))
    BY <1>1, <1>2, <1>3, PicksDone
  <2> QED BY <2>1 DEF Meets
<1>5. PICK q \in p + 1 .. Len(order) :
        /\ q \in enabled /\ \A j \in p + 1 .. q - 1 : j \notin enabled
        /\ Head(rest) = order[q] /\ Tail(rest) \in Seq(Row)
        /\ f[q] \o Tail(rest) = f[Len(order)]
  BY <1>1, <1>2, <1>3, <1>4, PicksNext
<1>6. q \in 1 .. Len(order) /\ q - 1 \in p .. Len(order) /\ q \in 0 .. Len(order)
  OBVIOUS
<1>7. g[q - 1] = g[p]
  <2>1. \A j \in p + 1 .. q - 1 : j \notin shown
    BY <1>5
  <2> DEFINE n == q - 1
  <2>2. n \in p .. Len(order) /\ \A j \in p + 1 .. n : j \notin shown
    BY <1>6, <2>1
  <2> HIDE DEF n
  <2>3. g[n] = g[p]
    BY <1>1, <2>2, PicksPass
  <2> QED BY <2>3 DEF n
<1>8. g[q] = IF q \in shown THEN Append(g[p], order[q]) ELSE g[p]
  BY <1>1, <1>6, <1>7 DEF Picks, PicksTo, Rounds
<1>9. g[p] \in Seq(Row) /\ order[q] \in Row
  <2>1. g \in [0 .. Len(order) -> Seq(Row)]
    BY <1>1 DEF Picks, PicksTo
  <2> QED BY <1>6, <2>1
<1>10. Names(g[q]) = IF q \in shown THEN Append(chosen, order[q].model) ELSE chosen
  BY <1>2, <1>8, <1>9, NamesMore
<1>11. WalkedTo(order, enabled, shown, Tail(rest), Names(g[q]))
  BY <1>1, <1>5, <1>6 DEF WalkedTo
<1> QED BY <1>5, <1>6, <1>10, <1>11

LEMMA WalkEnds ==
  ASSUME NEW order \in Seq(Row), NEW enabled, NEW shown, shown \subseteq enabled,
         NEW chosen, WalkedTo(order, enabled, shown, <<>>, chosen)
  PROVE  chosen = Names(Picked(order, shown))
<1>1. PICK f, g : /\ Picks(f, order, enabled) /\ Picks(g, order, shown)
                  /\ \E p \in 0 .. Len(order) :
                       f[p] \o <<>> = f[Len(order)] /\ chosen = Names(g[p])
  BY DEF WalkedTo
<1>2. PICK p \in 0 .. Len(order) : f[p] \o <<>> = f[Len(order)] /\ chosen = Names(g[p])
  BY <1>1
<1>3. PICK h : Picks(h, order, shown) /\ Picked(order, shown) = h[Len(order)]
  BY PickedIsLast
<1>4. <<>> \in Seq(Row) /\ Len(order) \in p .. Len(order)
  OBVIOUS
<1>5. \A k \in p + 1 .. Len(order) : k \notin enabled
  <2>1. ~Meets(enabled, p, Len(order))
    BY <1>1, <1>2, <1>4, PicksDone
  <2> QED BY <2>1 DEF Meets
<1>6. g[Len(order)] = g[p]
  BY <1>1, <1>4, <1>5, PicksPass
<1>7. h[Len(order)] = g[Len(order)]
  BY <1>1, <1>3, RoundsAgree DEF Picks, PicksTo
<1> QED BY <1>2, <1>3, <1>6, <1>7

Enabled(order) == {n \in DOMAIN order : order[n].on}
ShownIn(order) == {n \in DOMAIN order : Shown(order[n])}
AllOn == \A p \in Provider : status[p] = "on"
Table == targets \in SUBSET Row /\ IsFiniteSet(targets)

\* While nothing is written a resolution through the virtual model has walked
\* some way through the order the simulator sees, and ends where it ends.
Walked(r) ==
  WalkedTo(Ordered(targets), Enabled(Ordered(targets)), ShownIn(Ordered(targets)), rows[r], cands[r])

Agrees(r) ==
  /\ pc[r] \in {"direct", "authorize"} => stirred[r]
  /\ pc[r] \in {"new", "targets"} => cands[r] = <<>>
  /\ ~stirred[r] /\ AllOn =>
       /\ pc[r] = "walk" => Walked(r)
       /\ pc[r] \in {"routed", "no_route"} => cands[r] = Simulated

AgreeInv ==
  /\ pc = [r \in Request |-> pc[r]] /\ cands = [r \in Request |-> cands[r]]
  /\ rows = [r \in Request |-> rows[r]] /\ stirred = [r \in Request |-> stirred[r]]
  /\ \A r \in Request : Agrees(r)

\* The table is a finite set of rows: what calls insert is of their lists.
LEMMA TableStarts == Init => Table
<1>1. ASSUME NEW list \in Seq(Row) PROVE AsTable(list) \in SUBSET Row /\ IsFiniteSet(AsTable(list))
  <2> DEFINE n == Len(list)
             Kept == {i \in 1 .. n : Stands(list, i)}
             f == [i \in Kept |-> list[i]]
  <2>1. n \in Nat /\ DOMAIN list = 1 .. n /\ \A i \in 1 .. n : list[i] \in Row
    OBVIOUS
  <2> HIDE DEF n
  <2>2. IsFiniteSet(1 .. n)
    BY <2>1, FS_Interval
  <2>3. IsFiniteSet(Kept)
    <3>1. Kept \subseteq 1 .. n
      OBVIOUS
    <3> QED BY <2>2, <3>1, FS_Subset
  <2>4. AsTable(list) = {list[i] : i \in Kept}
    BY <2>1 DEF AsTable
  <2>5. f \in Surjection(Kept, AsTable(list))
    BY <2>4 DEF Surjection
  <2>6. IsFiniteSet(AsTable(list))
    BY <2>3, <2>5, FS_Surjection
  <2> QED BY <2>1, <2>4, <2>6
<1>2. IsFiniteSet({})
  BY FS_EmptySet
<1> SUFFICES ASSUME Init PROVE Table
  OBVIOUS
<1>3. CASE Exists(Vm)
  <2>1. PICK list \in TargetLists : targets = AsTable(list)
    BY <1>3 DEF Init
  <2> QED BY <1>1, <2>1, ListsOfRows DEF Table
<1>4. CASE ~Exists(Vm)
  BY <1>2, <1>4 DEF Init, Table
<1> QED BY <1>3, <1>4

LEMMA TableStays == TargetsInv /\ Table /\ [Next]_vars => Table'
<1> SUFFICES ASSUME TargetsInv, Table, [Next]_vars PROVE Table'
  OBVIOUS
<1>1. CASE UNCHANGED targets
  BY <1>1 DEF Table
<1>2. CASE targets' = {}
  BY <1>2, FS_EmptySet DEF Table
<1>3. ASSUME NEW a \in Admin, InsertTarget(a) PROVE Table'
  <2> DEFINE row == Head(task[a].list)
  <2>1. row \in Row
    <3>1. task[a].list \in Seq(Row) /\ task[a].list # <<>>
      BY <1>3 DEF InsertTarget, TargetsInv
    <3> QED BY <3>1
  <2>2. targets' = {t \in targets : t.model # row.model} \union {row}
    BY <1>3 DEF InsertTarget, Inserted
  <2> HIDE DEF row
  <2>3. IsFiniteSet({t \in targets : t.model # row.model})
    BY FS_Subset DEF Table
  <2>4. IsFiniteSet(targets')
    BY <2>2, <2>3, FS_AddElement
  <2> QED BY <2>1, <2>2, <2>4 DEF Table
<1>4. UNCHANGED targets \/ targets' = {} \/ \E a \in Admin : InsertTarget(a)
  BY DEF Next, vars, tables, StartUpdate, StartEdit, FinishUpdate, CreateModel, DeleteModel,
     CountModels, DeleteProvider, DeleteVm, StartTargets, FailTargets, EndTargets, FindVm, NoVm,
     ReadTargets, Look, EndLook, FindDirect, AuthorizeDirect, Call, Cleared
<1> QED BY <1>1, <1>2, <1>3, <1>4

\* A write stirs every resolution that has begun.
LEMMA WritesStir ==
  ASSUME AgreeInv, Stir, UNCHANGED routing
  PROVE  AgreeInv'
<1>1. UNCHANGED <<pc, cands, rows>>
  BY DEF routing
<1>2. stirred' = [r \in Request |-> stirred[r] \/ pc[r] # "new"]
  BY DEF Stir
<1> SUFFICES ASSUME NEW r \in Request PROVE Agrees(r)'
  BY <1>1, <1>2 DEF AgreeInv
<1>3. CASE pc[r] = "new"
  BY <1>1, <1>3 DEF AgreeInv, Agrees
<1>4. CASE pc[r] # "new"
  <2>1. stirred'[r]
    BY <1>2, <1>4
  <2> QED BY <1>1, <2>1 DEF AgreeInv, Agrees
<1> QED BY <1>3, <1>4

\* Without a write a resolution agrees as long as it stays where it is.
LEMMA NoWrite ==
  ASSUME UNCHANGED tables
  PROVE  /\ AllOn' <=> AllOn
         /\ Simulated' = Simulated
         /\ Ordered(targets)' = Ordered(targets)
         /\ ShownIn(Ordered(targets))' = ShownIn(Ordered(targets))
<1>1. status' = status /\ targets' = targets
  BY DEF tables
<1> QED BY <1>1 DEF AllOn, Simulated, ShownIn, Shown

LEMMA StaysAgree ==
  ASSUME AgreeInv, UNCHANGED tables, NEW r \in Request,
         pc'[r] = pc[r], cands'[r] = cands[r], rows'[r] = rows[r], stirred'[r] = stirred[r]
  PROVE  Agrees(r)'
<1>1. Walked(r)' <=> Walked(r)
  BY NoWrite DEF Walked, Enabled
<1> QED BY <1>1, NoWrite DEF AgreeInv, Agrees

LEMMA AgreeStarts == Init => AgreeInv
<1> SUFFICES ASSUME Init PROVE AgreeInv
  OBVIOUS
<1> QED BY DEF Init, AgreeInv, Agrees

\* What administrators do stirs, or writes nothing that a resolution reads.
LEMMA AdminAgrees ==
  ASSUME AgreeInv, NEW a, NEW i, NEW list,
         \/ StartUpdate(a, i) \/ StartEdit(a, i) \/ FinishUpdate(a) \/ CreateModel(a, i)
         \/ DeleteModel(a, i) \/ CountModels(a, i) \/ DeleteProvider(a) \/ DeleteVm(a)
         \/ StartTargets(a, list) \/ InsertTarget(a) \/ FailTargets(a) \/ EndTargets(a)
  PROVE  AgreeInv'
<1>1. CASE \/ StartUpdate(a, i) \/ StartEdit(a, i) \/ CountModels(a, i)
           \/ FailTargets(a) \/ EndTargets(a)
  <2>1. UNCHANGED <<tables, pc, cands, rows, stirred>>
    BY <1>1 DEF StartUpdate, StartEdit, CountModels, FailTargets, EndTargets, routing
  <2>2. \A r \in Request : Agrees(r)'
    BY <2>1, StaysAgree
  <2> QED BY <2>1, <2>2 DEF AgreeInv
<1>2. CASE \/ FinishUpdate(a) \/ CreateModel(a, i) \/ DeleteModel(a, i) \/ DeleteProvider(a)
           \/ DeleteVm(a) \/ StartTargets(a, list) \/ InsertTarget(a)
  <2>1. Stir /\ UNCHANGED routing
    BY <1>2 DEF FinishUpdate, CreateModel, DeleteModel, DeleteProvider, DeleteVm, StartTargets,
       InsertTarget
  <2> QED BY <2>1, WritesStir
<1> QED BY <1>1, <1>2

\* A step of one resolution is none of the others, and writes no table.
LEMMA OneResolves ==
  ASSUME AgreeInv, NEW r \in Request, UNCHANGED tables, Agrees(r)',
         pc' = pc \/ \E v : pc' = [pc EXCEPT ![r] = v],
         cands' = cands \/ \E v : cands' = [cands EXCEPT ![r] = v],
         rows' = rows \/ \E v : rows' = [rows EXCEPT ![r] = v],
         stirred' = stirred \/ stirred' = [stirred EXCEPT ![r] = TRUE]
  PROVE  AgreeInv'
<1>1. /\ pc' = [q \in Request |-> pc'[q]] /\ cands' = [q \in Request |-> cands'[q]]
      /\ rows' = [q \in Request |-> rows'[q]] /\ stirred' = [q \in Request |-> stirred'[q]]
  BY DEF AgreeInv
<1>2. ASSUME NEW q \in Request, q # r PROVE Agrees(q)'
  <2>1. /\ pc'[q] = pc[q] /\ cands'[q] = cands[q] /\ rows'[q] = rows[q]
        /\ stirred'[q] = stirred[q]
    BY <1>2 DEF AgreeInv
  <2> QED BY <2>1, StaysAgree
<1> QED BY <1>1, <1>2 DEF AgreeInv

\* The order the simulator and the resolver see is one of rows of the table.
LEMMA OrderOfTable ==
  ASSUME Table
  PROVE  /\ Ordered(targets) \in Seq(Row)
         /\ ShownIn(Ordered(targets)) \subseteq Enabled(Ordered(targets))
         /\ \A n \in DOMAIN Ordered(targets) :
              Ordered(targets)[n] \in Row /\ Ordered(targets)[n].model \in Model
<1>1. Ordered(targets) \in Seq(Row)
  BY OrderedIsOrder DEF Table
<1> DEFINE order == Ordered(targets)
<1> HIDE DEF order
<1>2. order \in Seq(Row)
  BY <1>1 DEF order
<1>3. \A n \in DOMAIN order : order[n] \in Row /\ order[n].model \in Model
  <2>1. \A n \in DOMAIN order : order[n] \in Row
    BY <1>2
  <2>2. \A t \in Row : t.model \in Model
    BY DEF Row
  <2> QED BY <2>1, <2>2
<1>4. ShownIn(order) \subseteq Enabled(order)
  BY DEF ShownIn, Enabled, Shown
<1> QED BY <1>2, <1>3, <1>4 DEF order

\* resolve() begins; without the virtual model it says nothing of the targets.
LEMMA FindAgrees ==
  ASSUME AgreeInv, NEW r \in Request, FindVm(r) \/ NoVm(r)
  PROVE  AgreeInv'
<1>1. /\ pc[r] = "new" /\ UNCHANGED <<tables, cands, rows>>
      /\ \/ UNCHANGED stirred /\ \E v \in {"targets", "disabled"} : pc' = [pc EXCEPT ![r] = v]
         \/ stirred' = [stirred EXCEPT ![r] = TRUE] /\ pc' = [pc EXCEPT ![r] = "direct"]
  BY DEF FindVm, NoVm, Goto
<1>2. cands'[r] = <<>>
  BY <1>1 DEF AgreeInv, Agrees
<1>3. pc'[r] \in {"targets", "disabled"} \/ (pc'[r] = "direct" /\ stirred'[r])
  BY <1>1 DEF AgreeInv
<1>4. Agrees(r)'
  BY <1>2, <1>3 DEF Agrees
<1> QED BY <1>1, <1>4, OneResolves

\* It reads the rows that are enabled, in the order the simulator reads them.
LEMMA ReadAgrees ==
  ASSUME AgreeInv, Table, NEW r \in Request, ReadTargets(r)
  PROVE  AgreeInv'
<1> DEFINE order == Ordered(targets)
<1>1. /\ pc[r] = "targets" /\ UNCHANGED <<tables, cands, stirred>>
      /\ rows' = [rows EXCEPT ![r] = Picked(order, Enabled(order))]
      /\ pc' = [pc EXCEPT ![r] = "walk"]
  BY DEF ReadTargets, Goto, EnabledRows, Enabled
<1>2. pc'[r] = "walk" /\ rows'[r] = Picked(order, Enabled(order)) /\ cands'[r] = <<>>
  BY <1>1 DEF AgreeInv, Agrees
<1>3. WalkedTo(order, Enabled(order), ShownIn(order), rows'[r], cands'[r])
  BY <1>2, OrderOfTable, WalkBegins
<1>4. Walked(r)'
  BY <1>1, <1>3, NoWrite DEF Walked, Enabled
<1>5. Agrees(r)'
  BY <1>2, <1>4 DEF Agrees
<1> QED BY <1>1, <1>5, OneResolves

\* A row it looks up gives a candidate when the simulator shows it.
LEMMA LookAgrees ==
  ASSUME AgreeInv, Table, NEW r \in Request, Look(r)
  PROVE  AgreeInv'
<1> DEFINE order == Ordered(targets)
           m == Head(rows[r]).model
<1>1. /\ pc[r] = "walk" /\ rows[r] # <<>> /\ UNCHANGED <<tables, pc>>
      /\ rows' = [rows EXCEPT ![r] = Tail(@)]
      /\ \/ /\ Usable(m) /\ Exists(ProviderOf[m]) /\ UNCHANGED stirred
            /\ cands' = [cands EXCEPT ![r] = Append(@, m)]
         \/ (~Usable(m) \/ ~Exists(ProviderOf[m])) /\ UNCHANGED <<cands, stirred>>
         \/ stirred' = [stirred EXCEPT ![r] = TRUE] /\ UNCHANGED cands
  BY DEF Look
<1>2. /\ rows'[r] = Tail(rows[r]) /\ pc'[r] = "walk"
      /\ \/ Usable(m) /\ Exists(ProviderOf[m]) /\ cands'[r] = Append(cands[r], m)
            /\ stirred'[r] = stirred[r]
         \/ (~Usable(m) \/ ~Exists(ProviderOf[m])) /\ cands'[r] = cands[r]
            /\ stirred'[r] = stirred[r]
         \/ stirred'[r]
  BY <1>1 DEF AgreeInv
<1>3. ASSUME ~stirred'[r], AllOn' PROVE Walked(r)'
  <2>1. AllOn /\ Walked(r)
    BY <1>1, <1>2, <1>3, NoWrite DEF AgreeInv, Agrees
  <2>2. PICK q \in 1 .. Len(order) :
          /\ q \in Enabled(order) /\ Head(rows[r]) = order[q]
          /\ WalkedTo(order, Enabled(order), ShownIn(order), Tail(rows[r]),
               IF q \in ShownIn(order) THEN Append(cands[r], order[q].model) ELSE cands[r])
    BY <1>1, <2>1, OrderOfTable, WalkGoesOn DEF Walked
  <2>3. q \in DOMAIN order /\ order[q].on /\ m = order[q].model /\ m \in Model
    BY <2>2, OrderOfTable DEF Enabled
  <2>4. status[ProviderOf[m]] = "on"
    BY <2>1, <2>3, RoutingAssumption DEF AllOn
  <2>5. q \in ShownIn(order) <=> Usable(m) /\ Exists(ProviderOf[m])
    BY <2>3, <2>4 DEF ShownIn, Shown, Usable, Exists
  <2>6. cands'[r] = IF q \in ShownIn(order) THEN Append(cands[r], order[q].model) ELSE cands[r]
    BY <1>2, <1>3, <2>3, <2>5
  <2>7. WalkedTo(order, Enabled(order), ShownIn(order), rows'[r], cands'[r])
    BY <1>2, <2>2, <2>6
  <2> QED BY <1>1, <2>7, NoWrite DEF Walked, Enabled
<1>4. Agrees(r)'
  BY <1>2, <1>3 DEF Agrees
<1> QED BY <1>1, <1>4, OneResolves

\* Behind the last row it has what the simulator shows.
LEMMA EndAgrees ==
  ASSUME AgreeInv, Table, NEW r \in Request, EndLook(r)
  PROVE  AgreeInv'
<1> DEFINE order == Ordered(targets)
<1>1. /\ pc[r] = "walk" /\ rows[r] = <<>> /\ UNCHANGED <<tables, cands, rows, stirred>>
      /\ \E v \in {"denied", "no_route", "routed"} : pc' = [pc EXCEPT ![r] = v]
  BY DEF EndLook, Goto
<1>2. pc'[r] \in {"denied", "no_route", "routed"}
  BY <1>1 DEF AgreeInv
<1>3. ASSUME ~stirred'[r], AllOn' PROVE cands'[r] = Simulated'
  <2>1. AllOn /\ Walked(r)
    BY <1>1, <1>3, NoWrite DEF AgreeInv, Agrees
  <2>2. cands[r] = Names(Picked(order, ShownIn(order)))
    BY <1>1, <2>1, OrderOfTable, WalkEnds DEF Walked
  <2>3. Simulated = Names(Picked(order, ShownIn(order)))
    BY DEF Simulated, Names, ShownIn
  <2> QED BY <1>1, <2>2, <2>3, NoWrite
<1>4. Agrees(r)'
  BY <1>2, <1>3 DEF Agrees
<1> QED BY <1>1, <1>4, OneResolves

\* Models found by their own key are none of the virtual model's.
LEMMA DirectAgrees ==
  ASSUME AgreeInv, NEW r \in Request, FindDirect(r) \/ AuthorizeDirect(r) \/ Call(r)
  PROVE  AgreeInv'
<1>1. /\ UNCHANGED <<tables, rows, stirred>> /\ pc[r] \in {"direct", "authorize", "routed"}
      /\ \E v : pc' = [pc EXCEPT ![r] = v]
      /\ cands' = cands \/ \E v : cands' = [cands EXCEPT ![r] = v]
  BY DEF FindDirect, AuthorizeDirect, Call, Goto
<1>2. CASE pc[r] \in {"direct", "authorize"}
  <2>1. stirred'[r]
    BY <1>1, <1>2 DEF AgreeInv, Agrees
  <2>2. pc'[r] \notin {"new", "targets"}
    BY <1>2 DEF AgreeInv, FindDirect, AuthorizeDirect, Call, Goto
  <2> QED BY <1>1, <2>1, <2>2, OneResolves DEF Agrees
<1>3. CASE pc[r] = "routed"
  <2>1. pc'[r] = "called"
    BY <1>3 DEF AgreeInv, FindDirect, AuthorizeDirect, Call, Goto
  <2> QED BY <1>1, <2>1, OneResolves DEF Agrees
<1> QED BY <1>1, <1>2, <1>3

LEMMA ConsoleStep == TargetsInv /\ Table /\ AgreeInv /\ [Next]_vars => AgreeInv'
<1> SUFFICES ASSUME Table, AgreeInv, [Next]_vars PROVE AgreeInv'
  OBVIOUS
<1>1. CASE UNCHANGED vars
  <2>1. UNCHANGED <<tables, pc, cands, rows, stirred>>
    BY <1>1 DEF vars, routing
  <2>2. \A r \in Request : Agrees(r)'
    BY <2>1, StaysAgree
  <2> QED BY <2>1, <2>2 DEF AgreeInv
<1>2. ASSUME NEW a \in Admin, NEW i \in Item,
             StartUpdate(a, i) \/ StartEdit(a, i)
      PROVE  AgreeInv'
  BY <1>2, AdminAgrees
<1>3. ASSUME NEW a \in Admin, NEW m \in Model, CreateModel(a, m) \/ DeleteModel(a, m)
      PROVE  AgreeInv'
  BY <1>3, AdminAgrees
<1>4. ASSUME NEW a \in Admin, NEW p \in Provider, CountModels(a, p) PROVE AgreeInv'
  BY <1>4, AdminAgrees
<1>5. ASSUME NEW a \in Admin, NEW list \in TargetLists, StartTargets(a, list) PROVE AgreeInv'
  BY <1>5, AdminAgrees
<1>6. ASSUME NEW a \in Admin,
             \/ FinishUpdate(a) \/ DeleteProvider(a) \/ DeleteVm(a) \/ InsertTarget(a)
             \/ FailTargets(a) \/ EndTargets(a)
      PROVE  AgreeInv'
  BY <1>6, AdminAgrees
<1>7. ASSUME NEW r \in Request,
             \/ FindVm(r) \/ NoVm(r) \/ ReadTargets(r) \/ Look(r) \/ EndLook(r)
             \/ FindDirect(r) \/ AuthorizeDirect(r) \/ Call(r)
      PROVE  AgreeInv'
  BY <1>7, FindAgrees, ReadAgrees, LookAgrees, EndAgrees, DirectAgrees
<1> QED BY <1>1, <1>2, <1>3, <1>4, <1>5, <1>6, <1>7 DEF Next

\* What administrators asked for is what the table holds, and the fallback order
\* the console shows is the one resolve() gives a request that no write and no
\* failed query came between, while every provider is enabled: for any targets,
\* rows of one priority included, and any number of requests and administrators.
THEOREM ConsoleTellsTheTruth == Spec => []ConsoleAgrees
<1>1. Init => TargetsInv /\ Table /\ AgreeInv
  BY TargetsStart, TableStarts, AgreeStarts
<1>2. TargetsInv /\ Table /\ AgreeInv /\ [Next]_vars => (TargetsInv /\ Table /\ AgreeInv)'
  BY TargetsStep, TableStays, ConsoleStep
<1>3. TargetsInv /\ AgreeInv => ConsoleAgrees
  BY TargetsAsAsked DEF AgreeInv, Agrees, AllOn, ConsoleAgrees, SimulatorAgreesOnEnabled,
     Undisturbed
<1> QED BY <1>1, <1>2, <1>3, PTL DEF Spec
=============================================================================
