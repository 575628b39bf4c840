---------------------------- MODULE ListObjects ----------------------------
(***************************************************************************)
(* ListObjects by reverse expansion: pkg/server/commands/list_objects.go   *)
(* and reverseexpand.  From the user the expansion follows the pruned      *)
(* edges of the model up to the objects of the target type, in a tree of   *)
(* concurrent tasks that share the visited usersets and the candidates     *)
(* already sent; a consumer takes the candidates, sends those that need no *)
(* evaluation on, and runs a Check for the others.                         *)
(*                                                                         *)
(* A load is one call [q, type, rel, user, max, deadline]: q as in         *)
(* CheckResolution, max the limit on the results (0 for none), and         *)
(* deadline whether the call may run into its deadline.  A task is an      *)
(* execute of a user, or the read of the tuples of an edge (op "read").    *)
(***************************************************************************)
EXTENDS CheckResolution, Relationships

CONSTANT Loads

VARIABLES
  load,       \* the call
  tasks,      \* the tasks of the reverse expansion that have not run yet
  visited,    \* visitedUsersetsMap: <<object, edge>>
  candidates, \* candidateObjectsMap
  chan,       \* reverseExpandResultsChan: candidates [obj, eval] not consumed
  expandErrs, \* the kinds of error the tasks have met
  expansion,  \* "running", then "closed" (the channel) or "failed"
  consumer,   \* "new", "reading", "waiting" (in pool.Wait), "done"
  checking,   \* the objects whose Check is running
  poolErr,    \* the first error of evaluate's pool: "none", "ctx", "cond", "fatal"
  cancelled,  \* whether the consumer has cancelled the pool's context
  timedOut,   \* whether the deadline has passed
  found,      \* objectsFound
  sending,    \* the objects counted and not sent yet: [obj, by], by the consumer or a Check
  results,    \* the objects in resultsChan
  answer      \* what the caller gets: "none", "objects", "invalid" or "error"

vars == <<load, tasks, visited, candidates, chan, expandErrs, expansion, consumer, checking,
          poolErr, cancelled, timedOut, found, sending, results, answer>>
expandVars == <<tasks, visited, candidates, expandErrs, expansion>>

NoEdge == [k |-> "none"]
Task(op, user, edge, flag, depth) ==
  [op |-> op, user |-> user, edge |-> edge, flag |-> flag, depth |-> depth]

Start ==
  /\ tasks = {} /\ visited = {} /\ candidates = {} /\ chan = {} /\ expandErrs = {}
  /\ expansion = "running" /\ consumer = "new" /\ checking = {}
  /\ poolErr = "none" /\ cancelled = FALSE /\ timedOut = FALSE
  /\ found = 0 /\ sending = {} /\ results = {} /\ answer = "none"
Init == load \in Loads /\ Start

\* The pool's context ends with the consumer's cancel, the first error of a
\* task of the pool, or the deadline.
Ended == cancelled \/ timedOut \/ poolErr # "none"

(***************************************************************************)
(* ListObjectsQuery.Execute: validation, then evaluate.                    *)
(***************************************************************************)
Execute ==
  /\ consumer = "new"
  /\ IF /\ \A t \in load.q.rd.ctx : ValidateTupleForWrite(load.q.ts, t)
        /\ HasRelation(load.q.ts, load.type, load.rel)
        /\ ValidateUser(load.q.ts, load.user)
     THEN /\ tasks' = {Task("execute", load.user, NoEdge, FALSE, 0)}
          /\ consumer' = "reading"
          /\ UNCHANGED answer
     ELSE consumer' = "done" /\ answer' = "invalid" /\ UNCHANGED tasks
  /\ UNCHANGED <<load, visited, candidates, chan, expandErrs, expansion, checking, poolErr,
                 cancelled, timedOut, found, sending, results>>

(***************************************************************************)
(* The reverse expansion.                                                  *)
(***************************************************************************)
\* Mutant: a candidate below an operator is sent as one that needs no Check.
trySendCandidateUnchecked(o, flag) ==
  IF o \in candidates THEN UNCHANGED <<candidates, chan>>
  ELSE candidates' = candidates \cup {o} /\ chan' = chan \cup {[obj |-> o, eval |-> FALSE]}

\* trySendCandidate: the first to find an object decides its status.  A send
\* on an ended context may be lost.
trySendCandidate(o, flag) ==
  IF o \in candidates THEN UNCHANGED <<candidates, chan>>
  ELSE /\ candidates' = candidates \cup {o}
       /\ \/ chan' = chan \cup {[obj |-> o, eval |-> flag]}
          \/ Ended /\ UNCHANGED chan

SourceRef(u) == [type |-> u.type, rel |-> Facet(u)]

\* The tasks an execute starts, one for each pruned edge: a computed edge is
\* executed at once, the tuples of the others are read.
Follow(task) ==
  LET edges == ToSet(GetPrunedRelationshipEdges(load.q.ts, load.type, load.rel, SourceRef(task.user)))
      depth == IF task.edge = NoEdge THEN 0 ELSE task.depth + 1
  IN {IF e.k = "computed"
      THEN Task("execute", [task.user EXCEPT !.rel = e.rel], e, task.flag \/ e.flag, depth)
      ELSE Task("read", task.user, e, task.flag \/ e.flag, depth) : e \in edges}

\* The edge without its flag, as edge.String() prints it.
EdgeKey(task) == <<task.user.type, task.user.id, [task.edge EXCEPT !.flag = FALSE]>>

ExecuteTask(task) ==
  LET userset == IsObjectRelation(task.user)
      o == [type |-> task.user.type, id |-> task.user.id]
  IN /\ task \in tasks /\ task.op = "execute"
     /\ CASE task.edge # NoEdge /\ task.depth >= load.q.depth ->
               /\ tasks' = tasks \ {task}
               /\ expandErrs' = expandErrs \cup {"depth"}
               /\ UNCHANGED <<visited, candidates, chan>>
          [] /\ ~(task.edge # NoEdge /\ task.depth >= load.q.depth)
             /\ userset /\ task.edge # NoEdge /\ EdgeKey(task) \in visited ->
               tasks' = tasks \ {task} /\ UNCHANGED <<visited, candidates, chan, expandErrs>>
          [] OTHER ->
               /\ visited' = visited \cup (IF userset /\ task.edge # NoEdge THEN {EdgeKey(task)} ELSE {})
               /\ IF userset /\ o.type = load.type /\ task.user.rel = load.rel
                  THEN trySendCandidate(o, task.flag)
                  ELSE UNCHANGED <<candidates, chan>>
               /\ tasks' = (tasks \ {task}) \cup Follow(task)
               /\ UNCHANGED expandErrs
     /\ UNCHANGED <<load, expansion, consumer, checking, poolErr, cancelled, timedOut, found, sending, results, answer>>

\* readTuplesAndExecute: the tuples that lead over the edge, and an execute
\* for the object of each.
UserFilter(task) ==
  LET u == task.user
  IN CASE task.edge.k = "ttu" -> {[u EXCEPT !.rel = ""]}
       [] OTHER -> (IF ~IsObjectRelation(u) /\ IsPubliclyAssignable(load.q.ts, task.edge.type, task.edge.rel, u.type)
                    THEN {[type |-> u.type, id |-> "*", rel |-> ""]} ELSE {})
                   \cup (IF IsTypedWildcard(u) THEN {} ELSE {u})

relationFilter(task) == IF task.edge.k = "ttu" THEN task.edge.tupleset ELSE task.edge.rel

readTuplesAndExecute(task) ==
  LET read == CombinedReadStartingWithUser(load.q.rd,
                StartFilter(task.edge.type, relationFilter(task), UserFilter(task)))
      valid == FilterInvalidTuples(load.q.ts, read)
      met == {t \in valid : Verdict(load.q, t) = "met"}
  IN /\ task \in tasks /\ task.op = "read"
     /\ IF relationFilter(task) \in load.q.broken
        THEN tasks' = tasks \ {task} /\ expandErrs' = expandErrs \cup {"read"}
        ELSE /\ tasks' = (tasks \ {task}) \cup
                  {Task("execute", [type |-> t.obj.type, id |-> t.obj.id, rel |-> task.edge.rel],
                        task.edge, task.flag, task.depth) : t \in met}
             /\ expandErrs' = IF \E t \in valid : Verdict(load.q, t) = "error"
                              THEN expandErrs \cup {"cond"} ELSE expandErrs
     /\ UNCHANGED <<load, visited, candidates, chan, expansion, consumer, checking, poolErr,
                    cancelled, timedOut, found, sending, results, answer>>

\* The first error of a pool cancels the tasks next to it, and an ended
\* context all of them.
AbandonTasks ==
  /\ tasks # {} /\ (Ended \/ expandErrs # {})
  /\ \E dropped \in SUBSET tasks \ {{}} : tasks' = tasks \ dropped
  /\ expandErrs' = IF Ended THEN expandErrs \cup {"ctx"} ELSE expandErrs
  /\ UNCHANGED <<load, visited, candidates, chan, expansion, consumer, checking, poolErr,
                 cancelled, timedOut, found, sending, results, answer>>

\* How ListObjects classifies an error joined from these kinds.
ErrorKind(kinds) ==
  CASE "ctx" \in kinds -> "ctx"
    [] "ctx" \notin kinds /\ "depth" \in kinds -> "fatal"
    [] "ctx" \notin kinds /\ "depth" \notin kinds /\ "cond" \in kinds -> "cond"
    [] OTHER -> "fatal"

FirstError(kind) == poolErr' = IF poolErr = "none" THEN kind ELSE poolErr

\* ReverseExpandQuery.Execute returns; it closes the channel on success only.
ExpandReturns ==
  /\ consumer # "new" /\ consumer # "done" /\ expansion = "running" /\ tasks = {}
  /\ IF expandErrs = {} THEN expansion' = "closed" /\ UNCHANGED poolErr
     ELSE /\ expansion' = "failed"
          /\ \E kinds \in SUBSET expandErrs \ {{}} : FirstError(ErrorKind(kinds))
  /\ UNCHANGED <<load, tasks, visited, candidates, chan, expandErrs, consumer, checking, cancelled,
                 timedOut, found, sending, results, answer>>

(***************************************************************************)
(* evaluate: the consumer of the candidates and the Checks it starts.      *)
(***************************************************************************)
\* trySendObject counts the object, and beyond max drops it; the send is a step of
\* its own.
trySendObject(o, by) ==
  /\ found' = IF load.max = 0 THEN found ELSE found + 1
  /\ sending' = IF load.max # 0 /\ found + 1 > load.max THEN sending
                ELSE sending \cup {[obj |-> o, by |-> by]}

\* TrySendThroughChannel: a send on an ended context may be lost.  The consumer sends
\* under the context of the call, a Check under the pool's.
SendObject(s) ==
  /\ s \in sending
  /\ sending' = sending \ {s}
  /\ \/ results' = results \cup {s.obj}
     \/ (IF s.by = "consumer" THEN timedOut ELSE Ended) /\ UNCHANGED results
  /\ UNCHANGED <<load, expandVars, chan, consumer, checking, poolErr, cancelled, timedOut, found, answer>>

ConsumerReads == consumer = "reading" /\ \A s \in sending : s.by # "consumer"

Consume(c) ==
  /\ ConsumerReads /\ c \in chan
  /\ chan' = chan \ {c}
  /\ IF load.max # 0 /\ found >= load.max
     THEN cancelled' = TRUE /\ consumer' = "waiting" /\ UNCHANGED <<found, sending, checking>>
     ELSE /\ UNCHANGED <<cancelled, consumer>>
          /\ IF c.eval THEN checking' = checking \cup {c.obj} /\ UNCHANGED <<found, sending>>
                       ELSE trySendObject(c.obj, "consumer") /\ UNCHANGED checking
  /\ UNCHANGED <<load, expandVars, poolErr, timedOut, results, answer>>

\* Mutant: the consumer waits for the channel to be closed.
LeaveLoopOnClose ==
  /\ ConsumerReads /\ expansion = "closed" /\ chan = {}
  /\ consumer' = "waiting"
  /\ UNCHANGED <<load, expandVars, chan, checking, poolErr, cancelled, timedOut, found, sending, results, answer>>

LeaveLoop ==
  /\ ConsumerReads
  /\ \/ expansion = "failed" /\ cancelled' = TRUE
     \/ timedOut /\ cancelled' = TRUE
     \/ expansion = "closed" /\ chan = {} /\ UNCHANGED cancelled
  /\ consumer' = "waiting"
  /\ UNCHANGED <<load, expandVars, chan, checking, poolErr, timedOut, found, sending, results, answer>>

CheckReturns(o) ==
  /\ o \in checking
  /\ checking' = checking \ {o}
  /\ \/ \E a \in CheckCommand(load.q, o, load.rel, load.user) :
          CASE a = "allow" -> trySendObject(o, "check") /\ UNCHANGED poolErr
            [] a = "deny" -> UNCHANGED <<found, sending, poolErr>>
            [] OTHER -> /\ \E kind \in {"fatal"} \cup {k \in {"cond"} : "error" \in Range(load.q.cond)} :
                             FirstError(kind)
                        /\ UNCHANGED <<found, sending>>
     \/ Ended /\ FirstError("ctx") /\ UNCHANGED <<found, sending>>
  /\ UNCHANGED <<load, expandVars, chan, consumer, cancelled, timedOut, results, answer>>

Deadline ==
  /\ load.deadline /\ ~timedOut /\ consumer \in {"reading", "waiting"}
  /\ timedOut' = TRUE
  /\ UNCHANGED <<load, expandVars, chan, consumer, checking, poolErr, cancelled, found, sending, results, answer>>

\* pool.Wait returns and Execute has drained the results: an ended context is
\* no error, and a condition that could not be evaluated is one only below max.
Answer ==
  /\ consumer = "waiting" /\ expansion # "running" /\ checking = {} /\ sending = {}
  /\ consumer' = "done"
  /\ answer' = IF poolErr = "fatal" \/ (poolErr = "cond" /\ Cardinality(results) < load.max)
               THEN "error" ELSE "objects"
  /\ UNCHANGED <<load, expandVars, chan, checking, poolErr, cancelled, timedOut, found, sending, results>>

\* The goroutine of the call.
CallStep == Execute \/ ExpandReturns \/ (\E c \in chan : Consume(c)) \/ LeaveLoop \/ Answer

\* The goroutines it starts.
TaskStep ==
  \/ \E task \in tasks : ExecuteTask(task)
  \/ \E task \in tasks : readTuplesAndExecute(task)
  \/ AbandonTasks
  \/ \E o \in checking : CheckReturns(o)
  \/ \E s \in sending : SendObject(s)

Next == CallStep \/ TaskStep \/ Deadline

Spec == Init /\ [][Next]_vars

\* Goroutines that can run do; a task, a Check and a send always can.  (The second
\* conjunct is weak fairness of TaskStep, its enabling condition spelled out.)
Fairness ==
  /\ WF_vars(CallStep)
  /\ \/ []<>(tasks = {} /\ checking = {} /\ sending = {})
     \/ []<><<tasks' # tasks \/ checking' # checking \/ sending' # sending>>_vars
FairSpec == Spec /\ Fairness

(***************************************************************************)
(* Properties.                                                             *)
(***************************************************************************)
\* The tuples that count: valid under the model, condition met.
Counting == {t \in FilterInvalidTuples(load.q.ts, load.q.rd.rows \cup load.q.rd.ctx) : Verdict(load.q, t) = "met"}
Related == {o \in {t.obj : t \in Counting} \cup {[type |-> load.user.type, id |-> load.user.id]} :
              o.type = load.type /\ Holds(load.q.ts, Counting, o, load.rel, load.user)}

\* Every object returned has the relation, max is never exceeded, and none is
\* missing: an answer is the whole set unless the deadline passed or max objects
\* were found (Execute, evaluate).  Found is not returned: an object a Check has
\* counted as the last of max is lost when the consumer, which sees the count,
\* cancels the pool before the send.  It takes the flags of the edges, the sharing
\* of visited usersets and candidates between concurrent tasks, and the order of
\* channel close, errors and running Checks to be right.
ListObjectsExact ==
  answer = "objects" =>
    /\ results \subseteq Related
    /\ load.max # 0 => Cardinality(results) <= load.max
    /\ results = Related \/ timedOut \/ (load.max # 0 /\ found >= load.max)

\* The call is answered: the consumer has left its loop and every task and
\* Check of the pool has returned, whatever ends first.
Answered == answer # "none"
=============================================================================
