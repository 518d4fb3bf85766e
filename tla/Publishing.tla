----------------------------- MODULE Publishing -----------------------------
(***************************************************************************)
(* The versions of one prompt or of one agent: drafts are created, one of  *)
(* them is published, and callers get the published one, rendered with     *)
(* their variables when it is a prompt's (crates/application/src/          *)
(* prompt_service.rs and agent_service.rs, which publish the same way).    *)
(* No call is a transaction: each read and write below is a step.          *)
(***************************************************************************)
EXTENDS Integers, Sequences, FiniteSets, Functions

CONSTANTS
  Kinds,        \* of the versioned thing: "prompt", "agent"
  Calls,        \* administrators' calls that may be under way at once
  Names,        \* variables a template may name
  Templates,    \* texts: sequences of names and of other tokens
  Bindings,     \* variable maps: [subset of Names -> texts]
  MaxVersions,  \* bound of the model: versions created
  MaxText       \* bound of the model: tokens of a rendered text

VARIABLES
  kind,      \* which of the two services
  status,    \* of each version, in the order of their numbers
  deleted,   \* the prompt or the agent is gone
  call,      \* what each call is doing, with its locals
  intended,  \* history: the version published last and not withdrawn, or 0
  disturbed, \* history: a publish failed, or overlapped another or a withdrawal
  failed,    \* history: a write of a publish failed
  template,  \* the text being rendered
  bindings,  \* the variables it is rendered with
  warnings   \* the names it left empty

versions == <<status, deleted>>
text == <<template, bindings, warnings>>
vars == <<kind, versions, call, intended, disturbed, failed, text>>

Idle == [pc |-> "idle", of |-> 0, current |-> 0]

Init ==
  /\ kind \in Kinds
  /\ status = <<"draft">> /\ deleted = FALSE
  /\ call = [c \in Calls |-> Idle]
  /\ intended = 0 /\ disturbed = FALSE /\ failed = FALSE
  /\ template = <<>> /\ bindings \in Bindings /\ warnings = {}

Published == {v \in DOMAIN status : status[v] = "published"}

\* published_version(): the highest number among the published ones.
Served == IF Published = {} THEN 0 ELSE CHOOSE v \in Published : \A w \in Published : w <= v

Publishing == {c \in Calls : call[c].pc \in {"retire", "publish"}}
Become(c, pc, of, current) ==
  call' = [call EXCEPT ![c] = [pc |-> pc, of |-> of, current |-> current]]
Set(v, s) == status' = IF v \in DOMAIN status THEN [status EXCEPT ![v] = s] ELSE status

-----------------------------------------------------------------------------
(* create_version(): the next number is read, then inserted; the pair of   *)
(* owner and number is unique.                                             *)

ReadNumber(c) ==
  /\ call[c].pc = "idle" /\ ~deleted /\ Len(status) < MaxVersions
  /\ Become(c, "insert", Len(status) + 1, 0)
  /\ UNCHANGED <<kind, versions, intended, disturbed, failed, text>>

InsertVersion(c) ==
  /\ call[c].pc = "insert"
  /\ status' = IF ~deleted /\ call[c].of = Len(status) + 1
               THEN Append(status, "draft") ELSE status
  /\ Become(c, "idle", 0, 0)
  /\ UNCHANGED <<kind, deleted, intended, disturbed, failed, text>>

-----------------------------------------------------------------------------
(* publish() and deprecate().                                              *)

\* Mutant: the published version is not looked for.
CurrentNone(v) == 0

Current(v) == IF Served = v THEN 0 ELSE Served

Publish(c, v) ==
  /\ call[c].pc = "idle" /\ v \in DOMAIN status
  /\ Become(c, IF Current(v) = 0 THEN "publish" ELSE "retire", v, Current(v))
  /\ disturbed' = (disturbed \/ Publishing # {})
  /\ UNCHANGED <<kind, versions, intended, failed, text>>

\* A prompt's version is read back after the write, and its absence is an
\* error; an agent's is read once more at the end.
Retire(c) ==
  /\ call[c].pc = "retire"
  /\ Set(call[c].current, "deprecated")
  /\ IF kind = "prompt" /\ deleted
     THEN Become(c, "idle", 0, 0)
     ELSE Become(c, "publish", call[c].of, 0)
  /\ UNCHANGED <<kind, deleted, intended, disturbed, failed, text>>

SetPublished(c) ==
  /\ call[c].pc = "publish"
  /\ Set(call[c].of, "published")
  /\ intended' = IF deleted THEN 0 ELSE call[c].of
  /\ Become(c, "idle", 0, 0)
  /\ UNCHANGED <<kind, deleted, disturbed, failed, text>>

\* A write fails and its error is returned.
WriteFails(c) ==
  /\ c \in Publishing
  /\ Become(c, "idle", 0, 0)
  /\ disturbed' = TRUE /\ failed' = TRUE
  /\ UNCHANGED <<kind, versions, intended, text>>

Deprecate(v) ==
  /\ v \in DOMAIN status
  /\ Set(v, "deprecated")
  /\ intended' = IF intended = v THEN 0 ELSE intended
  /\ disturbed' = (disturbed \/ Publishing # {})
  /\ UNCHANGED <<kind, deleted, call, failed, text>>

\* The versions go with their owner: their foreign key cascades.
Delete ==
  /\ ~deleted
  /\ deleted' = TRUE /\ status' = <<>> /\ intended' = 0
  /\ UNCHANGED <<kind, call, disturbed, failed, text>>

-----------------------------------------------------------------------------
(* resolve_published() and render_template(): the first name is replaced   *)
(* by its value, which is scanned again, or by nothing.                    *)

Placeholders(t) == {i \in DOMAIN t : t[i] \in Names}
First(t) == CHOOSE i \in Placeholders(t) : \A j \in Placeholders(t) : i <= j

Resolve ==
  /\ kind = "prompt" /\ Served # 0 /\ Placeholders(template) = {}
  /\ template' \in Templates /\ warnings' = {}
  /\ UNCHANGED <<kind, versions, call, intended, disturbed, failed, bindings>>

\* Mutant: a name without a value is left as it is.
ValueKept(n) == IF n \in DOMAIN bindings THEN bindings[n] ELSE <<n>>

Value(n) == IF n \in DOMAIN bindings THEN bindings[n] ELSE <<>>

Replace ==
  /\ Placeholders(template) # {} /\ Len(template) <= MaxText
  /\ LET i == First(template)
         n == template[i] IN
     /\ template' = SubSeq(template, 1, i - 1) \o Value(n)
                    \o SubSeq(template, i + 1, Len(template))
     /\ warnings' = IF n \in DOMAIN bindings THEN warnings ELSE warnings \cup {n}
  /\ UNCHANGED <<kind, versions, call, intended, disturbed, failed, bindings>>

Next ==
  \/ \E c \in Calls :
       \/ ReadNumber(c) \/ InsertVersion(c)
       \/ Retire(c) \/ SetPublished(c) \/ WriteFails(c)
       \/ \E v \in 1 .. MaxVersions : Publish(c, v)
  \/ \E v \in 1 .. MaxVersions : Deprecate(v)
  \/ Delete \/ Resolve \/ Replace

\* render_template() is a loop without an await.
Spec == Init /\ [][Next]_vars /\ WF_vars(Replace)

-----------------------------------------------------------------------------
(* Properties.                                                             *)

\* However publishes interleave: once the last of them has answered and none
\* of their writes failed, a version is published, unless all that were
\* asked for have been withdrawn since.
SomethingIsServed ==
  intended # 0 /\ Publishing = {} /\ ~failed => Served # 0

\* While no publish overlaps another call on the same owner or fails,
\* callers get exactly the version that was published last, or none after
\* its withdrawal, and no other version is published beside it
\* (publish() of both services, which retires the one version it has read);
\* and when they do overlap, some version is served.
PublishTakesEffect ==
  /\ SomethingIsServed
  /\ ~disturbed /\ Publishing = {} =>
       Served = intended /\ Cardinality(Published) <= 1

\* Rendering a template ends when no variable's value names, directly or
\* through others, the variable itself; each text it inserts is scanned
\* again, so that it does not end otherwise (render_template()).
Mentions(n) == {m \in Names : n \in DOMAIN bindings /\ m \in Range(bindings[n])}
Acyclic ==
  \E rank \in [Names -> 1 .. Cardinality(Names)] :
    \A n \in Names : \A m \in Mentions(n) : rank[m] < rank[n]
RenderingEnds == Acyclic => []<>(Placeholders(template) = {})
=============================================================================
