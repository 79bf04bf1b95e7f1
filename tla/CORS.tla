-------------------------------- MODULE CORS --------------------------------
(***************************************************************************)
(* http/cors.go, the CORS middleware, seen by a page in a browser that     *)
(* asks for permission before a request that is not simple, remembers what *)
(* it was told, and lets the page read an answer only if it may.  The      *)
(* browser is external and follows the Fetch standard.                     *)
(*                                                                         *)
(* Names are tokens in lower case, as browsers send them and as            *)
(* WithCORSAllowedHeaders stores them.  An empty list in the configuration *)
(* means that everything is allowed, as in the code.                       *)
(***************************************************************************)
EXTENDS Naturals, FiniteSets

CONSTANTS
  CORSConfigs,    \* records of origins, methods, headers and credentials
  PageOrigins,    \* the origins that a page may have
  PageRequests    \* the requests it may make: method, headers, credentials

\* "none" stands for no Access-Control-Allow-Origin, which is no origin.
ASSUME PagesAndConfigs ==
  /\ \A c \in CORSConfigs : c.credentials \in BOOLEAN
  /\ \A r \in PageRequests : r.credentials \in BOOLEAN
  /\ "none" \notin PageOrigins

VARIABLES
  config,     \* the options of NewCORSMiddleware
  origin,     \* the page's origin
  wanted,     \* the request that the page makes
  permitted,  \* what preflight answers permitted: the browser's cache
  page        \* "idle", "asking", "sending", "answered", "read" or "blocked"

corsVars == <<config, origin, wanted, permitted, page>>

corsWildcard == "*"

-----------------------------------------------------------------------------
isOriginAllowed(o) == config.origins = {} \/ o \in config.origins

isSimpleMethod(method) == method \in {"GET", "HEAD", "POST"}

isMethodAllowed(method) ==
  isSimpleMethod(method) \/ config.methods = {} \/ method \in config.methods

isSimpleHeader(header) ==
  header \in {"cache-control", "content-language", "content-type", "expires",
              "last-modified", "pragma"}

isHeaderAllowed(header) ==
  isSimpleHeader(header) \/ config.headers = {} \/ header \in config.headers

\* Faulty variant of appendAllowOrigin: the wildcard, also beside credentials.
appendWildcard(o) ==
  [origin |-> IF config.origins = {} THEN corsWildcard ELSE o,
   credentials |-> config.credentials]

\* The headers Access-Control-Allow-Origin and -Credentials.
appendAllowOrigin(o) ==
  [origin |-> IF config.credentials \/ config.origins # {} THEN o ELSE corsWildcard,
   credentials |-> config.credentials]

noHeaders == [origin |-> "none", credentials |-> FALSE]
noPermission == [cors |-> noHeaders, methods |-> {}, headers |-> {}]

\* The CORS headers of the answer to a preflight request, which asks for a method
\* and for headers.  A browser always sends the origin and the method, as tokens.
processPreflightRequest(o, requestMethod, requestHeaders) ==
  IF /\ isOriginAllowed(o)
     /\ isMethodAllowed(requestMethod)
     /\ \A header \in requestHeaders : isHeaderAllowed(header)
  THEN [cors |-> appendAllowOrigin(o),
        methods |-> IF isSimpleMethod(requestMethod) THEN {}
                    ELSE IF config.methods = {} THEN {requestMethod} ELSE config.methods,
        headers |-> {header \in requestHeaders : ~isSimpleHeader(header)}]
  ELSE noPermission

\* The CORS headers of the answer to any other request.
processSimpleCrossOriginRequest(o) ==
  IF isOriginAllowed(o) THEN appendAllowOrigin(o) ELSE noHeaders

-----------------------------------------------------------------------------
\* The browser.

\* Whether an answer's CORS headers let the page see it.
corsCheck(cors) ==
  IF wanted.credentials THEN cors.origin = origin /\ cors.credentials
  ELSE cors.origin \in {corsWildcard, origin}

\* What the cache holds, for the same use of credentials.
cached(kind, name) == <<wanted.credentials, kind, name>> \in permitted

\* What the page may do without asking: methods that need no permission, and what
\* the cache holds.
unasked(method, headers) ==
  /\ isSimpleMethod(method) \/ cached("method", method)
  /\ \A header \in headers : cached("header", header)

CORSInit ==
  /\ config \in CORSConfigs
  /\ origin \in PageOrigins
  /\ wanted = [method |-> "GET", headers |-> {}, credentials |-> FALSE]
  /\ permitted = {}
  /\ page = "idle"

\* The page makes a request; the browser sends it or asks first.
pageFetches(request) ==
  /\ page \in {"idle", "read", "blocked"}
  /\ wanted' = request
  /\ page' = "asking"
  /\ UNCHANGED <<config, origin, permitted>>

sendsUnasked ==
  /\ page = "asking"
  /\ unasked(wanted.method, wanted.headers)
  /\ page' = "sending"
  /\ UNCHANGED <<config, origin, wanted, permitted>>

\* The middleware answers the OPTIONS request with 204 and never forwards it; the
\* browser goes on if everything it asked for is in the answer, and remembers it.
ServeOptions ==
  /\ page = "asking"
  /\ ~unasked(wanted.method, wanted.headers)
  /\ LET answer == processPreflightRequest(origin, wanted.method, wanted.headers)
         granted == /\ corsCheck(answer.cors)
                    /\ isSimpleMethod(wanted.method) \/ wanted.method \in answer.methods
                    /\ wanted.headers \subseteq answer.headers
     IN IF granted
        THEN /\ page' = "sending"
             /\ permitted' = permitted
                  \cup {<<wanted.credentials, "method", m>> : m \in answer.methods}
                  \cup {<<wanted.credentials, "header", h>> : h \in answer.headers}
        ELSE page' = "blocked" /\ UNCHANGED permitted
  /\ UNCHANGED <<config, origin, wanted>>

\* Access-Control-Max-Age has passed.
permissionExpires ==
  /\ page \in {"read", "blocked"}
  /\ permitted # {}
  /\ permitted' = {}
  /\ UNCHANGED <<config, origin, wanted, page>>

\* Any other request gets its headers and goes to the next handler, whose answer the
\* page may read or not.
ServeRequest ==
  /\ page = "sending"
  /\ page' = IF corsCheck(processSimpleCrossOriginRequest(origin)) THEN "read" ELSE "blocked"
  /\ UNCHANGED <<config, origin, wanted, permitted>>

CORSNext ==
  \/ \E request \in PageRequests : pageFetches(request)
  \/ sendsUnasked
  \/ ServeOptions
  \/ ServeRequest
  \/ permissionExpires

CORSSpec == CORSInit /\ [][CORSNext]_corsVars

-----------------------------------------------------------------------------
\* What the configuration says of the page's request.
withinPolicy ==
  /\ isOriginAllowed(origin)
  /\ isSimpleMethod(wanted.method) \/ config.methods = {} \/ wanted.method \in config.methods
  /\ config.headers = {} \/ wanted.headers \subseteq config.headers
  /\ wanted.credentials => config.credentials

\* A page is served what the configuration allows: it reads only answers to requests
\* within the policy, and a request that is not simple reaches the next handler only
\* if it is within the policy, also when the browser puts the permission together from
\* several earlier preflights; and a request is blocked only if it is outside, where
\* it names no header that isSimpleHeader takes for simple.
PageServedByPolicy ==
  /\ page = "read" => withinPolicy
  /\ page = "sending" /\ ~(isSimpleMethod(wanted.method) /\ wanted.headers = {}) => withinPolicy
  /\ page = "blocked" /\ (\A header \in wanted.headers : ~isSimpleHeader(header)) => ~withinPolicy

\* What the comment of NewCORSMiddleware says of a middleware without options: it "will
\* allow all origins, all methods, all headers, and will not allow credentials", so
\* that no request without credentials is blocked.
DefaultAllowsAllHeaders ==
  config = [origins |-> {}, methods |-> {}, headers |-> {}, credentials |-> FALSE]
    /\ ~wanted.credentials => page # "blocked"

\* Inductive invariant of the browser and the middleware: whatever the cache holds, a
\* preflight of this page could be granted, with the same use of credentials.
CORSInv ==
  /\ config \in CORSConfigs /\ origin \in PageOrigins /\ wanted.credentials \in BOOLEAN
  /\ \A p \in permitted :
       /\ isOriginAllowed(origin) /\ (p[1] => config.credentials)
       /\ p[2] = "method" => config.methods = {} \/ p[3] \in config.methods
       /\ p[2] = "header" =>
            ~isSimpleHeader(p[3]) /\ (config.headers = {} \/ p[3] \in config.headers)
  /\ PageServedByPolicy
=============================================================================
