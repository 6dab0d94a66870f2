------------------------------ MODULE VLLMClient ------------------------------
(***************************************************************************)
(* gateway/vllm_client.py: one complete() call against a vLLM server.  The *)
(* server is external: it refuses, answers an error status, or streams     *)
(* lines and then ends or breaks off.  A line is abstracted to its kind,   *)
(* and the time of an event to the number of lines read by then.           *)
(***************************************************************************)
EXTENDS Integers, Sequences, FiniteSets, FiniteSetsExt

CONSTANTS
  Overrides,   \* what metadata may ask for: records [stream, include_usage]
  MaxLines,    \* bound on the lines a server streams
  Never        \* None, where a timestamp or a usage is absent

ASSUME ClientAssumption ==
  /\ Overrides \subseteq [stream : BOOLEAN, include_usage : BOOLEAN]
  /\ MaxLines \in Nat
  /\ Never \notin Nat

VARIABLES
  at,        \* where complete() is
  payload,   \* what was posted
  sent,      \* the lines the server has streamed, each read before the next
  parts,     \* len(text_parts)
  first,     \* first_token_ts
  usage,     \* the usage chunk kept, by the line it came with
  result     \* the RequestResult returned

vars == <<at, payload, sent, parts, first, usage, result>>

\* A blank or comment line; malformed JSON; [DONE]; a chunk with neither text
\* nor usage (a role, an error object); text; usage; both; and valid JSON that
\* is no object.  "body" is the whole answer of a request not streamed.
Noise == {"blank", "malformed", "done", "empty"}
Texts == {"text", "both"}
Usages == {"usage", "both"}
Lines == Noise \cup Texts \cup Usages \cup {"alien"}

NoResult == [status |-> "none", parts |-> 0, first |-> Never, usage |-> Never]

Stamps == Nat \cup {Never}

TypeOK ==
  /\ at \in {"build", "post", "answered", "error_body", "stream", "returned", "raised"}
  /\ payload \in [stream : BOOLEAN, include_usage : BOOLEAN]
  /\ sent \in Seq(Lines \cup {"body"})
  /\ parts \in Nat /\ {first, usage} \subseteq Stamps
  /\ result \in [status : {"none", "completed", "failed"}, parts : Nat,
                 first : Stamps, usage : Stamps]

Init ==
  /\ at = "build"
  /\ payload = [stream |-> FALSE, include_usage |-> FALSE]
  /\ sent = <<>> /\ parts = 0 /\ first = Never /\ usage = Never
  /\ result = NoResult

\* The metadata applied after the client's own setting.
BuildOverridden ==
  /\ at = "build" /\ at' = "post"
  /\ payload' \in Overrides
  /\ UNCHANGED <<sent, parts, first, usage, result>>

\* build_payload() copies `stream` and extra_body from the metadata; complete()
\* then forces stream, and asks for usage unless the metadata said otherwise.
BuildPayload ==
  /\ at = "build" /\ at' = "post"
  /\ \E o \in Overrides : payload' = [o EXCEPT !.stream = TRUE]
  /\ UNCHANGED <<sent, parts, first, usage, result>>

Return(r) == at' = "returned" /\ result' = r /\ UNCHANGED <<payload, sent, parts, first, usage>>

\* An error result that keeps what was read before the error.
PartialResult == [status |-> "failed", parts |-> parts, first |-> first, usage |-> Never]

ErrorResult == [status |-> "failed", parts |-> 0, first |-> Never, usage |-> Never]

Completed == [status |-> "completed", parts |-> parts, first |-> first, usage |-> usage]

\* _post_stream raises a RequestException.
PostFails == at = "post" /\ Return(ErrorResult)

PostAnswered ==
  /\ at = "post" /\ at' \in {"error_body", "stream"}
  /\ UNCHANGED <<payload, sent, parts, first, usage, result>>

\* status >= 400: response.text is read for the message ...
ErrorStatus == at = "error_body" /\ Return(ErrorResult)

Raise(from) == at = from /\ at' = "raised" /\ UNCHANGED <<payload, sent, parts, first, usage, result>>

\* ... outside any try block: a connection lost while reading it raises.
ErrorBodyRaises == Raise("error_body")

\* The first token taken to be the first chunk, a role chunk included.
StampAny(line) == IF first = Never THEN Len(sent) + 1 ELSE first

\* The index of the line before the one read.
StampEarly(line) == IF line \in Texts /\ first = Never THEN Len(sent) - 1 ELSE first

Stamp(line) == IF line \in Texts /\ first = Never THEN Len(sent) + 1 ELSE first

\* One turn of _consume_stream's loop.
ReadLine(line) ==
  /\ at = "stream" /\ Len(sent) < MaxLines
  /\ line \in IF payload.stream THEN Lines \ {"alien"} ELSE {"body"}
  /\ line \in Usages => payload.include_usage
  /\ sent' = Append(sent, line)
  /\ parts' = parts + (IF line \in Texts THEN 1 ELSE 0)
  /\ first' = Stamp(line)
  /\ usage' = IF line \in Usages THEN Len(sent) + 1 ELSE usage
  /\ UNCHANGED <<at, payload, result>>

\* JSON that is no object: chunk.get raises, and the call fails.
ReadAlien ==
  /\ at = "stream" /\ payload.stream /\ Len(sent) < MaxLines
  /\ at' = "returned" /\ result' = ErrorResult
  /\ sent' = Append(sent, "alien")
  /\ UNCHANGED <<payload, parts, first, usage>>

\* iter_lines() raises: the connection broke, or no byte came in time.
StreamBreaks == at = "stream" /\ Return(ErrorResult)

\* The stream ends; nothing asks whether it ended with [DONE].
StreamEnds == at = "stream" /\ Return(Completed)

Next ==
  \/ BuildPayload \/ PostFails \/ PostAnswered \/ ErrorStatus \/ ErrorBodyRaises
  \/ \E line \in Lines \cup {"body"} : ReadLine(line)
  \/ ReadAlien \/ StreamBreaks \/ StreamEnds

Spec == Init /\ [][Next]_vars
-----------------------------------------------------------------------------
At(kinds) == {i \in 1..Len(sent) : sent[i] \in kinds}

(* A completed result is the stream: all the text the server sent and no   *)
(* more, the time of the first text (not of a role chunk), the last usage. *)
(* A request whose metadata asks for an unstreamed answer is no exception. *)
(* A failed result carries no text and no time of a first token, whatever  *)
(* part of the stream had been read: analyze.py averages every first_token *)
(* it finds, of failed requests too.                                       *)
ResultReflectsStream ==
  /\ result.status = "completed" =>
       /\ result.parts = Cardinality(At(Texts \cup {"body"}))
       /\ result.first = IF At(Texts) = {} THEN Never ELSE Min(At(Texts))
       /\ result.usage = IF At(Usages) = {} THEN Never ELSE Max(At(Usages))
  /\ result.status = "failed" => [result EXCEPT !.status = "none"] = NoResult
=============================================================================
