------------------------------- MODULE MCCORS -------------------------------
(***************************************************************************)
(* CORS for TLC: configurations that allow everything or name what they    *)
(* allow, and requests with and without what they name.                    *)
(***************************************************************************)
EXTENDS CORS

MCConfigs == [origins : {{}, {"o1"}}, methods : {{}, {"PUT"}}, headers : {{}, {"x-a"}},
              credentials : BOOLEAN]

MCPageRequests == [method : {"POST", "PUT", "DELETE"}, credentials : BOOLEAN,
                   headers : {{}, {"x-a"}, {"x-b"}, {"x-a", "x-b"}, {"content-type"}}]
=============================================================================
