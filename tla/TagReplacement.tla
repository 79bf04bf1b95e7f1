--------------------------- MODULE TagReplacement ---------------------------
(***************************************************************************)
(* replaceTagInParams of proxy/interceptor.go: the tag in the params of a  *)
(* request is replaced by a block number, copying what holds it.           *)
(*                                                                         *)
(* A JSON value is its kind and its items.  The kinds of strings are "tag",*)
(* the configured tag, "hex", a block number as 0x%x, and "plain", any     *)
(* other string, a number or a boolean.  The items of an object are the    *)
(* values of its members: the keys are never looked at.                    *)
(***************************************************************************)
EXTENDS Naturals, Sequences

CONSTANTS
  maxJSONDepth,   \* 32 in the code
  JSONValues,     \* the values that clients may send, with everything in them
  nesting(_)      \* how deep a value is nested

ASSUME DepthNatural == maxJSONDepth \in Nat

\* A value is a finite tree, and nesting is its height.
ASSUME ValuesAreTrees ==
  \A v \in JSONValues :
    /\ v \in [kind : STRING, number : Nat, items : Seq(JSONValues)]
    /\ v.items # <<>> => v.kind \in {"array", "object"}
    /\ v.number # 0 => v.kind = "hex"
    /\ nesting(v) \in Nat
    /\ \A i \in DOMAIN v.items : nesting(v.items[i]) < nesting(v)
    /\ nesting(v) # 0 => \E i \in DOMAIN v.items : nesting(v) = nesting(v.items[i]) + 1

-----------------------------------------------------------------------------
\* JSON values.

tag == [kind |-> "tag", number |-> 0, items |-> <<>>]
plain == [kind |-> "plain", number |-> 0, items |-> <<>>]
hex(n) == [kind |-> "hex", number |-> n, items |-> <<>>]
array(items) == [kind |-> "array", number |-> 0, items |-> items]
object(items) == [kind |-> "object", number |-> 0, items |-> items]

\* null, in JSON and in an element of make([]any, n) that nobody assigned.
null == [kind |-> "null", number |-> 0, items |-> <<>>]

-----------------------------------------------------------------------------
\* What replaceTagInParams returns: params, changed and err.
unchanged(params) == [params |-> params, changed |-> FALSE, failed |-> FALSE]
replaced(params) == [params |-> params, changed |-> TRUE, failed |-> FALSE]
failure == [params |-> null, changed |-> FALSE, failed |-> TRUE]

\* Faulty variant of replaceElement: an element after the first that changed is
\* not copied when it did not change itself.
copiesNoTail(items, r, next, j) ==
  LET fresh == [i \in 1..Len(items) |-> IF i < j THEN items[i] ELSE null]
  IN IF ~r[j].changed THEN next
     ELSE [(IF next = <<>> THEN fresh ELSE next) EXCEPT ![j] = r[j].params]

\* What becomes of next, the copy of an array, at element j.  It is empty until the
\* first element that changed.
replaceElement(items, r, next, j) ==
  LET fresh == [i \in 1..Len(items) |-> IF i < j THEN items[i] ELSE null]
  IN IF ~r[j].changed THEN IF next = <<>> THEN next ELSE [next EXCEPT ![j] = items[j]]
     ELSE [(IF next = <<>> THEN fresh ELSE next) EXCEPT ![j] = r[j].params]

\* The copy when the loop over the elements has come past element j.
copy(items, r) ==
  LET next[j \in 0..Len(items)] ==
        IF j = 0 THEN <<>> ELSE replaceElement(items, r, next[j - 1], j)
  IN next

\* An array; deeper is what replaceTagInParams returns for its elements.  The first
\* error ends the loop, whatever was copied before.
replaceInArray(items, deeper) ==
  LET r == [j \in 1..Len(items) |-> deeper[items[j]]]
      next == copy(items, r)[Len(items)]
  IN IF \E j \in 1..Len(items) : r[j].failed THEN failure
     ELSE IF next = <<>> THEN unchanged(array(items)) ELSE replaced(array(next))

\* The loop over the members of an object, in the order of Go's map iteration:
\* whichever member changes first, the whole object is copied before.
replaceInObject(items, deeper) ==
  LET r == [i \in 1..Len(items) |-> deeper[items[i]]]
      changed == {i \in 1..Len(items) : r[i].changed}
  IN IF \E i \in 1..Len(items) : r[i].failed THEN failure
     ELSE IF changed = {} THEN unchanged(object(items))
     ELSE replaced(object([i \in 1..Len(items) |->
                             IF i \in changed THEN r[i].params ELSE items[i]]))

\* Faulty variant of replaceTagInParams: the depth limit is off by one.
replaceOneLess(params, n, depth, deeper) ==
  IF depth >= maxJSONDepth THEN failure
  ELSE IF params = tag THEN replaced(hex(n))
  ELSE IF params.kind = "object" THEN replaceInObject(params.items, deeper)
  ELSE IF params.kind = "array" THEN replaceInArray(params.items, deeper)
  ELSE unchanged(params)

\* The params at some depth, deeper being what is returned for those one level below.
replaceTagInParams(params, n, depth, deeper) ==
  IF depth > maxJSONDepth THEN failure
  ELSE IF params = tag THEN replaced(hex(n))
  ELSE IF params.kind = "object" THEN replaceInObject(params.items, deeper)
  ELSE IF params.kind = "array" THEN replaceInArray(params.items, deeper)
  ELSE unchanged(params)

\* The recursion: what is returned at every depth, for every value.
replaceAt(n) ==
  LET at[depth \in 0..(maxJSONDepth + 1)] ==
        [params \in JSONValues |-> replaceTagInParams(params, n, depth, at[depth + 1])]
  IN at

\* interceptRequest for every request of the payload, one or the whole batch:
\* the first that fails fails them all.
replaceTags(requests, n) ==
  LET r == [j \in 1..Len(requests) |-> replaceAt(n)[0][requests[j].params]]
  IN IF \E j \in 1..Len(requests) : r[j].failed
     THEN [failed |-> TRUE, requests |-> <<>>]
     ELSE [failed |-> FALSE,
           requests |-> [j \in 1..Len(requests) |->
                           IF r[j].changed THEN [requests[j] EXCEPT !.params = r[j].params]
                           ELSE requests[j]]]

-----------------------------------------------------------------------------
\* The reference: every occurrence of the tag, wherever it is, and nothing else.
resolveAll(n) ==
  LET resolved[v \in JSONValues] ==
        IF v = tag THEN hex(n)
        ELSE [v EXCEPT !.items = [i \in DOMAIN v.items |-> resolved[v.items[i]]]]
  IN resolved

resolve(v, n) == resolveAll(n)[v]
=============================================================================
