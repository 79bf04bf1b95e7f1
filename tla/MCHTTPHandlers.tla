--------------------------- MODULE MCHTTPHandlers ---------------------------
(***************************************************************************)
(* HTTPHandlers for TLC.  The bodies have the params around the depth limit*)
(* of two: arrays and objects of up to two items that are leaves, arrays or*)
(* objects themselves, params nested once too often, and batches; and each *)
(* case of the codec and of the middlewares.                               *)
(***************************************************************************)
EXTENDS HTTPHandlers, MCCORS, SequencesExt

\* Arrays and objects of up to two items, some of which are nested themselves.
arrays == {array(s) : s \in BoundedSeq({tag, array(<<plain>>), object(<<tag>>)}, 2)}

objects == {object(s) : s \in BoundedSeq({plain, array(<<tag, plain>>)}, 2)}

tooDeepParams == array(<<plain, object(<<array(<<tag>>)>>)>>)

ask(params) ==
  [jsonrpc |-> "2.0", id |-> plain, method |-> "eth_call", params |-> params, extra |-> absent]

single(o) == [first |-> "{", broken |-> FALSE, objects |-> <<o>>]
batch(os) == [first |-> "[", broken |-> FALSE, objects |-> os]

\* Notifications, null IDs, members that are missing, null or unknown.
odd == {[ask(tag) EXCEPT !.id = absent, !.extra = tag], [ask(absent) EXCEPT !.id = nil],
        [ask(nil) EXCEPT !.method = "absent"], [ask(tag) EXCEPT !.jsonrpc = "1.0"]}

bodies ==
  {single(ask(v)) : v \in {tag, tooDeepParams} \cup arrays \cup objects}
    \cup {single(o) : o \in odd}
    \cup {batch(<<>>), batch(<<ask(tag), ask(array(<<tag>>))>>),
          batch(<<ask(tag), ask(tooDeepParams)>>),
          batch(<<ask(tag), [ask(tag) EXCEPT !.jsonrpc = "1.0"]>>),
          batch(<<ask(tag), ask(plain), ask(tag)>>),
          [first |-> "other", broken |-> FALSE, objects |-> <<>>],
          [single(ask(tag)) EXCEPT !.broken = TRUE]}

post(body) == [method |-> "POST", contentType |-> "json", chunked |-> FALSE, body |-> body]

\* A body longer than the limit.
long == single([ask(array(<<tag, tag, tag, tag>>)) EXCEPT !.extra = array(<<tag, tag>>)])

allRequests ==
  {post(b) : b \in bodies}
    \cup {[post(single(ask(tag))) EXCEPT !.method = "GET"],
          [post(single(ask(tag))) EXCEPT !.contentType = "text"],
          [post(single(ask(tag))) EXCEPT !.chunked = TRUE],
          post(long), [post(long) EXCEPT !.chunked = TRUE]}

\* One client sends each of them, the other ones read the store meanwhile.
CONSTANT firstClient

MCHTTPRequests ==
  [c \in Clients |-> IF c = firstClient THEN allRequests
                     ELSE {post(single(ask(tag))), post(batch(<<ask(tag), ask(array(<<tag>>))>>))}]

\* The values in the bodies, with everything in them, and how deep they are nested.
withItems(values) == values \cup UNION {ToSet(v.items) : v \in values}

bodyValues ==
  UNION {UNION {{o.id, o.params, o.extra} : o \in ToSet(r.body.objects)} :
         r \in UNION {MCHTTPRequests[c] : c \in Clients}}

MCJSONValues == withItems(withItems(withItems(bodyValues \cup {absent, nil})))

RECURSIVE height(_)
height(v) ==
  IF v.items = <<>> THEN 0 ELSE 1 + Max({height(v.items[i]) : i \in DOMAIN v.items})

\* The length of a value in characters of its own: the tag is longer than a number.
RECURSIVE length(_)
length(v) ==
  (CASE v.kind = "tag" -> 3 [] v.kind = "absent" -> 0 [] OTHER -> 1)
    + FoldSeq(LAMBDA item, sum : sum + length(item), 0, v.items)

bodyLength(body) ==
  FoldSeq(LAMBDA o, sum : sum + length(o.id) + length(o.params) + length(o.extra), 1, body.objects)
=============================================================================
