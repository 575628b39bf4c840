---------------------------- MODULE Evaluations ----------------------------
(***************************************************************************)
(* Requests made of many Checks: BatchCheck and the AuthZEN endpoints      *)
(* built on it (pkg/server/batch_check.go, authzen.go).  The store changes *)
(* while a request runs, a batch runs one Check for all its equal items,   *)
(* and the sequential endpoints stop at the first denial or permission.    *)
(*                                                                         *)
(* A load is [history, rewrite, request].  A relation is the union or the  *)
(* exclusion (rewrite) of two operands, and a Check reads the tuples of    *)
(* each, in either order and at different moments: nothing makes its reads *)
(* one snapshot.  The store goes through the versions history names, each  *)
(* [latest, relations, reads]: its latest model, the relations of each     *)
(* model, and the pair of what the two operands say, as a function of      *)
(* <<model, check>>.  A request is [kind, items, top, semantic, pinned,    *)
(* leaves]: its items, the top-level fields they fall back to, the model   *)
(* its header names (NoModel for none), and whether the caller may go      *)
(* away.                                                                   *)
(***************************************************************************)
EXTENDS Naturals, Sequences, FiniteSets, SequencesExt, TLC

\* The reducers of Check.
R == INSTANCE CheckResolution

CONSTANTS
  Loads,
  Versions,   \* what a store can be, by name
  MaxChecks,  \* maxChecksPerBatchCheck
  Nil,        \* an absent field
  NoModel     \* the empty model id

VARIABLES
  load,
  now,        \* the version of the store
  asked,      \* the version at which the request arrived
  phase,      \* "new", "actions", "batch", "pool", "serial", "done"
  model,      \* the model the running Checks are answered under
  batch,      \* the items of the BatchCheckRequest: [id, check]
  seen,       \* the read each running Check has made: [side, says]
  outcomes,   \* resultMap: the outcome of each distinct check
  responses,  \* the answers so far, in order
  under,      \* the model each of them was answered under
  cancelled,  \* whether the caller has gone
  answer      \* "none", "answered", or an error: "invalid", "failed"

vars == <<load, now, asked, phase, model, batch, seen, outcomes, responses, under, cancelled, answer>>

req == load.request
Store == Versions[load.history[now]]
Empty == [k \in {} |-> 0]

Start ==
  /\ now = 1 /\ asked = 1 /\ phase = "new" /\ model = NoModel /\ batch = <<>> /\ seen = Empty /\ outcomes = Empty
  /\ responses = <<>> /\ under = <<>> /\ cancelled = FALSE /\ answer = "none"
Init == load \in Loads /\ Start

(***************************************************************************)
(* The translation of an evaluation into a check.                          *)
(***************************************************************************)
\* Properties are named by what they belong to; the request's own context
\* wins where it uses the same name.
Prefixed(prefix, props) == [n \in {<<prefix, k>> : k \in DOMAIN props} |-> props[n[2]]]
Over(f, g) == [n \in DOMAIN f \cup DOMAIN g |-> IF n \in DOMAIN f THEN f[n] ELSE g[n]]

mergePropertiesToContext(context, subject, resource, action) ==
  Over(IF context = Nil THEN Empty ELSE context,
       Over(Prefixed("action", action.props),
            Over(Prefixed("resource", resource.props), Prefixed("subject", subject.props))))

resolveEvalFields(item, top) ==
  [f \in {"subject", "resource", "action", "context"} |-> IF item[f] = Nil THEN top[f] ELSE item[f]]

Complete(fields) == Nil \notin {fields.subject, fields.resource, fields.action}

buildCheckRequest(fields) ==
  [user |-> fields.subject.id, relation |-> fields.action.id, object |-> fields.resource.id,
   context |-> mergePropertiesToContext(fields.context, fields.subject, fields.resource, fields.action)]

Fields == [i \in DOMAIN req.items |-> resolveEvalFields(req.items[i], req.top)]

(***************************************************************************)
(* The requests.                                                           *)
(***************************************************************************)
Resolved(id) == IF id = NoModel THEN Store.latest ELSE id

Finish(a) == phase' = "done" /\ answer' = a

\* Evaluation, and Evaluations without items, which is one.
Evaluation ==
  /\ phase = "new" /\ req.kind = "evaluations" /\ req.items = <<>>
  /\ IF Complete(req.top) THEN phase' = "serial" /\ UNCHANGED answer ELSE Finish("invalid")
  /\ UNCHANGED <<load, now, asked, model, batch, seen, outcomes, responses, under, cancelled>>

\* Evaluations with a semantic that stops early.
EvaluationsInOrder ==
  /\ phase = "new" /\ req.kind = "evaluations" /\ req.items # <<>> /\ req.semantic # "execute_all"
  /\ phase' = "serial"
  /\ UNCHANGED <<load, now, asked, model, batch, seen, outcomes, responses, under, cancelled, answer>>

\* The correlation ids are the places of the items.
evaluateAll ==
  /\ phase = "new" /\ req.kind = "evaluations" /\ req.items # <<>> /\ req.semantic = "execute_all"
  /\ IF \A i \in DOMAIN req.items : Complete(Fields[i])
     THEN /\ batch' = [i \in DOMAIN req.items |-> [id |-> ToString(i), check |-> buildCheckRequest(Fields[i])]]
          /\ phase' = "batch" /\ model' = req.pinned /\ UNCHANGED answer
     ELSE Finish("invalid") /\ UNCHANGED <<batch, model>>
  /\ UNCHANGED <<load, now, asked, seen, outcomes, responses, under, cancelled>>

\* A BatchCheck of its own brings its checks and its correlation ids.
BatchCheckRequest ==
  /\ phase = "new" /\ req.kind = "batch"
  /\ batch' = req.items /\ phase' = "batch" /\ model' = req.pinned
  /\ UNCHANGED <<load, now, asked, seen, outcomes, responses, under, cancelled, answer>>

\* ActionSearch: one check for each relation of the resource's type, in the
\* order of a map, all under the model the relations were taken from.
ActionCheck(name) == buildCheckRequest([req.top EXCEPT !.action = [id |-> name, props |-> Empty]])

ActionSearch ==
  /\ phase = "new" /\ req.kind = "actions"
  /\ model' = Resolved(req.pinned)
  /\ \E names \in SetToSeqs(Store.relations[model']) :
       batch' = [i \in DOMAIN names |-> [id |-> ToString(i), check |-> ActionCheck(names[i])]]
  /\ phase' = "batch"
  /\ UNCHANGED <<load, now, asked, seen, outcomes, responses, under, cancelled, answer>>

(***************************************************************************)
(* BatchCheckQuery.Execute.                                                *)
(***************************************************************************)
validateCorrelationIDs(checks) ==
  \A i \in DOMAIN checks : checks[i].id # "" /\ \A j \in DOMAIN checks : checks[i].id = checks[j].id => i = j

\* Mutant: the context is left out of the key.
KeyWithoutContext(check) == <<check.object, check.relation, check.user>>

\* The items of one cache key share one Check; the store and the model are
\* the same for all of them.
generateCacheKeyFromCheck(check) == <<check.object, check.relation, check.user, check.context>>
Distinct == {generateCacheKeyFromCheck(batch[i].check) : i \in DOMAIN batch}
\* The item a key's Check is run for is the first of them.
FirstOf(key) ==
  batch[CHOOSE i \in DOMAIN batch :
          /\ generateCacheKeyFromCheck(batch[i].check) = key
          /\ \A j \in DOMAIN batch : generateCacheKeyFromCheck(batch[j].check) = key => i <= j].check

BatchCheck ==
  /\ phase = "batch"
  /\ model' = Resolved(model)
  /\ IF Len(batch) \in 1..MaxChecks /\ validateCorrelationIDs(batch)
     THEN phase' = "pool" /\ UNCHANGED answer
     ELSE Finish("invalid")
  /\ UNCHANGED <<load, now, asked, batch, seen, outcomes, responses, under, cancelled>>

\* What a Check makes of its two reads.
Says(check, reads) ==
  LET operands == <<{reads[1]}, {reads[2]}>>
  IN IF load.rewrite[check.relation] = "union" THEN R!union(operands) ELSE R!exclusion(operands)

\* The first read of a Check, of either operand.
CheckReads(check) ==
  /\ check \notin DOMAIN seen
  /\ \E side \in 1..2 :
       seen' = Over(seen, [c \in {check} |->
                            [side |-> side, says |-> Store.reads[<<model, check>>][side]]])

\* How a Check ends: with its second read, or with an error when the caller has gone.
CheckEnds(check) ==
  UNION {Says(check, [Store.reads[<<model, check>>] EXCEPT ![seen[c].side] = seen[c].says]) :
           c \in {check} \cap DOMAIN seen}
    \cup {e \in {"error"} : cancelled}

\* A Check of the pool.
PoolRead(key) ==
  /\ phase = "pool" /\ key \in Distinct \ DOMAIN outcomes
  /\ CheckReads(FirstOf(key))
  /\ UNCHANGED <<load, now, asked, phase, model, batch, outcomes, responses, under, cancelled, answer>>

\* Mutant: the Check of a caller who has gone leaves no outcome.
PoolCheckUnlessGone(key) ==
  /\ phase = "pool" /\ key \in Distinct \ DOMAIN outcomes
  /\ \E o \in CheckEnds(FirstOf(key)) :
       outcomes' = IF cancelled THEN outcomes ELSE Over(outcomes, [k \in {key} |-> o])
  /\ UNCHANGED <<load, now, asked, phase, model, batch, seen, responses, under, cancelled, answer>>

PoolCheck(key) ==
  /\ phase = "pool" /\ key \in Distinct \ DOMAIN outcomes
  /\ \E o \in CheckEnds(FirstOf(key)) : outcomes' = Over(outcomes, [k \in {key} |-> o])
  /\ UNCHANGED <<load, now, asked, phase, model, batch, seen, responses, under, cancelled, answer>>

\* After the pool the outcomes go to the correlation ids, and to the caller:
\* BatchCheck and Evaluations keep them in place of their items, ActionSearch
\* the relations that are allowed.
PoolDone ==
  /\ phase = "pool" /\ DOMAIN outcomes = Distinct
  /\ responses' = [i \in DOMAIN batch |-> outcomes[generateCacheKeyFromCheck(batch[i].check)]]
  /\ under' = [i \in DOMAIN batch |-> model]
  /\ Finish("answered")
  /\ UNCHANGED <<load, now, asked, model, batch, seen, outcomes, cancelled>>

\* What ActionSearch returns of a finished batch: a failed Check is left out.
Actions == {batch[i].check.relation : i \in {j \in DOMAIN responses : responses[j] = "allow"}}

(***************************************************************************)
(* evaluateWithShortCircuit: one Check after the other, each a request of  *)
(* its own that resolves the model again.                                  *)
(***************************************************************************)
Items == IF req.items = <<>> THEN <<req.top>> ELSE Fields
Denied(o) == o \in {"deny", "error"}

\* Mutant: an error does not stop deny_on_first_deny.
StopsAtDenials(o) == \/ req.semantic = "deny_on_first_deny" /\ o = "deny"
                     \/ req.semantic = "permit_on_first_permit" /\ o = "allow"

StopsAt(o) == \/ req.semantic = "deny_on_first_deny" /\ Denied(o)
              \/ req.semantic = "permit_on_first_permit" /\ o = "allow"

\* A lone Evaluation hands the error of its Check on.
Respond(o, m) ==
  /\ responses' = Append(responses, o) /\ under' = Append(under, m)
  /\ IF StopsAt(o) \/ Len(responses') = Len(Items)
     THEN Finish(IF req.items = <<>> /\ o = "error" THEN "failed" ELSE "answered")
     ELSE UNCHANGED <<phase, answer>>

SerialIncomplete ==
  /\ phase = "serial" /\ model = NoModel
  /\ ~Complete(Items[Len(responses) + 1])
  /\ Respond("error", NoModel)
  /\ UNCHANGED <<load, now, asked, model, batch, seen, outcomes, cancelled>>

SerialResolve ==
  /\ phase = "serial" /\ model = NoModel
  /\ Complete(Items[Len(responses) + 1])
  /\ model' = Resolved(req.pinned)
  /\ UNCHANGED <<load, now, asked, phase, batch, seen, outcomes, responses, under, cancelled, answer>>

SerialRead ==
  /\ phase = "serial" /\ model # NoModel
  /\ CheckReads(buildCheckRequest(Items[Len(responses) + 1]))
  /\ UNCHANGED <<load, now, asked, phase, model, batch, outcomes, responses, under, cancelled, answer>>

SerialCheck ==
  /\ phase = "serial" /\ model # NoModel
  /\ \E o \in CheckEnds(buildCheckRequest(Items[Len(responses) + 1])) : Respond(o, model)
  /\ model' = NoModel /\ seen' = Empty
  /\ UNCHANGED <<load, now, asked, batch, outcomes, cancelled>>

(***************************************************************************)
(* What goes on around the request.                                        *)
(***************************************************************************)
StoreChanges ==
  /\ now < Len(load.history) /\ phase # "done"
  /\ now' = now + 1
  /\ asked' = IF phase = "new" THEN now' ELSE asked
  /\ UNCHANGED <<load, phase, model, batch, seen, outcomes, responses, under, cancelled, answer>>

CallerGone ==
  /\ req.leaves /\ ~cancelled /\ phase # "done"
  /\ cancelled' = TRUE
  /\ UNCHANGED <<load, now, asked, phase, model, batch, seen, outcomes, responses, under, answer>>

Step ==
  \/ Evaluation \/ EvaluationsInOrder \/ evaluateAll \/ BatchCheckRequest \/ ActionSearch
  \/ BatchCheck
  \/ \E key \in Distinct : PoolRead(key) \/ PoolCheck(key)
  \/ PoolDone
  \/ SerialIncomplete \/ SerialResolve \/ SerialRead \/ SerialCheck

Next == Step \/ StoreChanges \/ CallerGone

Spec == Init /\ [][Next]_vars /\ WF_vars(Step)

(***************************************************************************)
(* Properties.                                                             *)
(***************************************************************************)
\* The checks the caller asked for, whatever the server made of them.
Wanted ==
  CASE req.kind = "batch" -> [i \in DOMAIN req.items |-> req.items[i].check]
    [] req.kind = "evaluations" -> [i \in DOMAIN Items |-> IF Complete(Items[i]) THEN buildCheckRequest(Items[i]) ELSE Nil]
    [] req.kind = "actions" -> [i \in DOMAIN batch |-> batch[i].check]

\* What a Check under m may say whose reads are made between the request and its answer.
Possible(m, check) ==
  UNION {Says(check, [side \in 1..2 |-> Versions[load.history[v[side]]].reads[<<m, check>>][side]]) :
           v \in (asked..now) \X (asked..now)}
    \cup {e \in {"error"} : cancelled}
LatestThen(m) == \E v \in asked..now : Versions[load.history[v]].latest = m

\* Every answer is what its own check makes of reads made during the request,
\* under the pinned model or one that was the latest then, although equal
\* checks share one run, runs finish in any order and the store changes in
\* between (Execute, evaluateAll, evaluateWithShortCircuit).  The reads of one
\* Check need not be of one moment: a write between them can give an answer the
\* check had at none, and where the store stood still the answer is exact.  No
\* item of a batch is left out, and its items agree on the model and on equal
\* checks; an action search returns a relation that reads of the request allow
\* and leaves out none that all of them do.
AnswersOwnCheck ==
  answer = "answered" =>
    /\ \A i \in DOMAIN responses :
         IF Wanted[i] = Nil THEN responses[i] = "error"
         ELSE /\ responses[i] \in Possible(under[i], Wanted[i])
              /\ IF req.pinned # NoModel THEN under[i] = req.pinned ELSE LatestThen(under[i])
    /\ batch # <<>> =>
         /\ Len(responses) = Len(Wanted)
         /\ \A i, j \in DOMAIN responses :
              under[i] = under[j] /\ (Wanted[i] = Wanted[j] => responses[i] = responses[j])
    /\ req.kind = "actions" => \A r \in Store.relations[model] :
         IF r \in Actions THEN "allow" \in Possible(model, ActionCheck(r)) ELSE Possible(model, ActionCheck(r)) # {"allow"}

\* A sequence that stops early says all that matters: read as "all of them"
\* (deny_on_first_deny) or "any of them" (permit_on_first_permit), the answers
\* given decide what the answers left out could not change, and none follows
\* the one that decided.
ShortCircuitDecides ==
  (answer = "answered" /\ req.kind = "evaluations" /\ req.items # <<>> /\ req.semantic # "execute_all") =>
    LET allowed == {i \in DOMAIN responses : responses[i] = "allow"}
        decided == IF req.semantic = "deny_on_first_deny" THEN DOMAIN responses \ allowed ELSE allowed
    IN /\ decided \subseteq {Len(responses)}
       /\ Len(responses) < Len(req.items) => decided # {}

\* The request is answered.
Answered == answer # "none"
=============================================================================
