--------------------------- MODULE ProviderErrors ---------------------------
(***************************************************************************)
(* How a call of an outside service ends, for the code that made it: the   *)
(* exception GeminiProvider raises (app/services/llm/gemini_provider.py)   *)
(* or JikanClient raises (app/services/jikan/client.py), and what the API  *)
(* answers to an exception that nobody catches on its way (app/main.py).   *)
(* The module has no variables.                                            *)
(*                                                                         *)
(* An outcome is what the HTTP client or the SDK hands over.  The SDK      *)
(* wraps the responses of the server in APIError and lets the exceptions   *)
(* of its HTTP client through; this is external, read off the one except   *)
(* clause the provider has.                                                *)
(***************************************************************************)
EXTENDS Naturals

\* What a call of the SDK ends in; only generate_content can be declined.
EmbedOutcome ==
    [kind : {"api_error"}, code : {400, 401, 403, 404, 429, 499, 500, 503}]
      \cup [kind : {"unparsed", "parsed", "connection_drop", "timeout"}, code : {0}]

GeminiOutcome ==
    EmbedOutcome \cup [kind : {"blocked_prompt", "refused"}, code : {0}]

\* What a GET at Jikan ends in.
JikanOutcome ==
    [kind : {"response"}, code : {200, 404, 429, 500}]
      \cup [kind : {"not_json", "connect_error", "timeout", "read_error"}, code : {0}]

LLMError == {"LLMRateLimitedError", "LLMAuthenticationError", "LLMTransientError",
             "LLMRefusalError", "LLMOutputError"}

\* _translate_error
Translated(code) ==
    CASE code = 429         -> "LLMRateLimitedError"
      [] code \in {401, 403} -> "LLMAuthenticationError"
      [] code >= 500        -> "LLMTransientError"
      [] OTHER              -> "LLMOutputError"

\* generate_structured: "ok", an LLMError, or an exception of the HTTP client.
GeminiResult(o) ==
    CASE o.kind = "api_error"                    -> Translated(o.code)
      [] o.kind \in {"blocked_prompt", "refused"} -> "LLMRefusalError"
      [] o.kind = "unparsed"                     -> "LLMOutputError"
      [] o.kind = "parsed"                       -> "ok"
      [] OTHER                                   -> o.kind

\* _embed: "unparsed" is a vector that is missing or has no values.
EmbedResult(o) ==
    CASE o.kind = "api_error" -> Translated(o.code)
      [] o.kind = "unparsed"  -> "LLMOutputError"
      [] o.kind = "parsed"    -> "ok"
      [] OTHER                -> o.kind

\* get_manga_reviews: "reviews", "none", JikanError, or what is not caught.
JikanResult(o) ==
    CASE o.kind = "response" /\ o.code = 404 -> "none"
      [] o.kind = "response" /\ o.code < 400 -> "reviews"
      [] o.kind = "read_error"               -> "read_error"
      [] OTHER                               -> "JikanError"

\* The handlers of create_app: the one of the nearest class of the exception
\* answers, LLMError's for what has none of its own, and none is a 500.
HttpAnswer(e) ==
    CASE e = "LLMRateLimitedError"    -> 429
      [] e = "LLMRefusalError"        -> 422
      [] e \in LLMError \ {"LLMRateLimitedError", "LLMRefusalError"} -> 502
      [] e = "MALAuthenticationError" -> 400
      [] e = "MALAPIError"            -> 502
      [] OTHER                        -> 500

=============================================================================
