------------------------------ MODULE JSONRPC ------------------------------
(***************************************************************************)
(* jsonrpcv2 and requestInterceptorGlue of the adapters: how the bytes of  *)
(* a body become requests, and requests become bytes again.                *)
(*                                                                         *)
(* A body is its first byte, '{', '[' or any other, and the objects in it. *)
(* Of an object there are the members that the decoder knows and, as one   *)
(* value, the members that it only carries (extra); a member that is not   *)
(* there is absent.                                                        *)
(***************************************************************************)
EXTENDS Naturals, Sequences

\* The values of TagReplacement that the codec tells apart.
absent == [kind |-> "absent", number |-> 0, items |-> <<>>]
nil == [kind |-> "null", number |-> 0, items |-> <<>>]

Version == "2.0"

\* The ID of a request without one: encoded by itself, as in a response, it is null.
NotificationID == absent

CodeParseError == "-32700"
CodeInvalidRequest == "-32600"
CodeInternalError == "-32603"

-----------------------------------------------------------------------------
\* UnmarshalJSON of Request.  A member that is not there has its type's zero value,
\* except that the ID tells null and no ID apart.
UnmarshalRequest(object) ==
  [id |-> IF object.id = absent THEN NotificationID ELSE object.id,
   method |-> IF object.method = "absent" THEN "" ELSE object.method,
   params |-> IF object.params = absent THEN nil ELSE object.params,
   extra |-> object.extra]

\* MarshalJSON of Request: no ID for a notification, no params when they are nil.
MarshalRequest(request) ==
  [jsonrpc |-> Version,
   id |-> IF request.id = NotificationID THEN absent ELSE request.id,
   method |-> request.method,
   params |-> IF request.params = nil THEN absent ELSE request.params,
   extra |-> request.extra]

\* MarshalJSON of Response, for a response with an error: no result beside it.
MarshalResponse(response) ==
  [jsonrpc |-> Version, error |-> response.error,
   id |-> IF response.id = NotificationID THEN nil ELSE response.id]

CreateGeneralErrorResponse(id, code) == [id |-> id, error |-> code]

-----------------------------------------------------------------------------
\* The payload of a body: empty, or neither an object nor an array, or one that is
\* no JSON or has an object of another version, it is malformed.
unmarshal(body) ==
  IF body.first \notin {"{", "["} \/ body.broken
       \/ \E j \in DOMAIN body.objects : body.objects[j].jsonrpc # Version
  THEN [kind |-> "malformed", requests |-> <<>>]
  ELSE [kind |-> IF body.first = "{" THEN "single" ELSE "batch",
        requests |-> [j \in DOMAIN body.objects |-> UnmarshalRequest(body.objects[j])]]

\* The body for a payload's kind and requests.
marshal(kind, requests) ==
  [first |-> IF kind = "single" THEN "{" ELSE "[", broken |-> FALSE,
   objects |-> [j \in DOMAIN requests |-> MarshalRequest(requests[j])]]
=============================================================================
