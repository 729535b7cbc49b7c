------------------------------ MODULE Requests ------------------------------
(***************************************************************************)
(* The requests in flight: each is a handler's goroutine between two of    *)
(* its storage calls, with what it was asked, the calls it has made and    *)
(* what they told it.  Handlers of both APIs work on one storage.          *)
(***************************************************************************)
EXTENDS TreeStore

CONSTANTS
  Clients,    \* requests in flight at once
  Asked(_),   \* what a client may ask: a set of requests
  MaxFaults   \* storage calls that fail without regard to the tree

ASSUME FaultBound == MaxFaults \in Nat

VARIABLES
  tree,       \* the storage
  faults,     \* calls that failed so far
  job         \* per client: the request, how far it is, its answer

objectVars == <<tree, faults, job>>

\* A request: the operation, the object and the folder it names, a name, the
\* items of a bulk operation, and the optional parts of the form it carries.
Ask(op, ref, dst, name, items, with) ==
  [op |-> op, ref |-> ref, dst |-> dst, name |-> name, items |-> items, with |-> with]

Nowhere == Ref(NoId, <<>>)

\* `says' is what the body of an answer tells of the object: it is there, it is absent.
Idle == [ask |-> Ask("none", Nowhere, Nowhere, <<>>, <<>>, {}), step |-> 0,
         seen |-> <<>>, left |-> <<>>, reply |-> 0, says |-> "nothing", log |-> {}]

Fail(r, code, t) == [r EXCEPT !.code = code, !.tree = t]

\* How a call can end: as the storage has it, with another status, or with a
\* transport error, its effect there or not.
Answers(r) ==
  {r} \cup IF faults < MaxFaults
             THEN {Fail(r, "ERROR", tree), Fail(r, "ERROR", r.tree), Fail(r, "OTHER", tree)}
             ELSE {}

\* The history says what the storage did, not what it answered.
Entry(r, a) == IF a.tree = r.tree THEN r.did ELSE [r.did EXCEPT !.code = "FAILED"]

At(c, op, step) == job[c].ask.op = op /\ job[c].step = step

Ends(c, r, a, k) ==
  /\ tree' = a.tree
  /\ faults' = IF a = r THEN faults ELSE faults + 1
  /\ job' = [job EXCEPT ![c] = [k EXCEPT !.log = @ \cup {Entry(r, a)}]]

\* One storage call of a request, and what the handler makes of its answer.
Call(c, r, Then(_)) == \E a \in Answers(r) : Ends(c, r, a, Then(a))

Reply(j, code) == [j EXCEPT !.reply = code, !.step = 0, !.seen = <<>>, !.left = <<>>]
Says(j, code, what) == [Reply(j, code) EXCEPT !.says = what]
GoTo(j, step)  == [j EXCEPT !.step = step]
Learn(j, a)    == [j EXCEPT !.step = @ + 1, !.seen = Append(@, a.info)]

\* The next step when the status is OK, the answer `code' otherwise.
LearnOr(j, a, code) == IF a.code = "OK" THEN Learn(j, a) ELSE Reply(j, code)
OkAlways(j, a, ok, code) == Reply(j, ok)
OkOr(j, a, ok, code) == Reply(j, IF a.code = "OK" THEN ok ELSE code)

Arrive(c) ==
  /\ job[c] = Idle
  /\ \E q \in Asked(c) : job' = [job EXCEPT ![c].ask = q, ![c].step = 1, ![c].left = q.items]
  /\ UNCHANGED <<tree, faults>>

\* An object id that does not decode is answered before any call.
Begins(c, op) == At(c, op, 1) /\ job[c].ask.ref # Nowhere

BadId(c, ops) ==
  /\ job[c].step = 1 /\ job[c].ask.op \in ops /\ job[c].ask.ref = Nowhere
  /\ job' = [job EXCEPT ![c] = Reply(@, 400)]
  /\ UNCHANGED <<tree, faults>>

BuildRootRef(ref) == IF ref.at = NoId THEN Ref(Slash, ref.path) ELSE Ref(ref.at, <<>>)

\* The browser binding names an object by its path in a repository; a repository
\* id that does not decode makes that an absolute path.
BuildPathRef(ref) == IF ref.at = NoId THEN Ref(Slash, ref.path) ELSE ref

Target(c) == BuildPathRef(job[c].ask.ref)

NextItemForgets(j, step) == GoTo(j, step)

\* The loop of a bulk operation goes on after each item, whatever came of it, and
\* answers when none is left.
NextItem(j, step) ==
  [j EXCEPT !.left = Tail(@), !.step = step, !.seen = IF @ = <<>> THEN @ ELSE <<Head(@)>>]

EndsLoop(c) ==
  /\ job[c].left = <<>>
  /\ job' = [job EXCEPT ![c] = Reply(@, 200)]
  /\ UNCHANGED <<tree, faults>>

\* A name used in a path as it is, and escaped.
Split(name) == [i \in 1..Len(name) |-> <<name[i]>>]
Escaped(name) == <<name>>
=============================================================================
