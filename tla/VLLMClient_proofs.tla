--------------------------- MODULE VLLMClient_proofs ---------------------------
(***************************************************************************)
(* Proofs about vllm_client.py: for a stream of any length and whatever    *)
(* the metadata asks for, a result is what the server streamed.            *)
(***************************************************************************)
EXTENDS VLLMClient, TLAPS, FiniteSetTheorems

\* Only an unstreamed answer has a body, and complete() never asks for one.
Streaming ==
  /\ at # "build" => payload.stream
  /\ at = "build" => sent = <<>>

\* What the loop has counted and stamped, against the lines read so far.
CountsText == IsFiniteSet(At(Texts \cup {"body"})) /\ parts = Cardinality(At(Texts \cup {"body"}))

FirstText ==
  \/ first = Never /\ At(Texts) = {}
  \/ first \in At(Texts) /\ \A i \in At(Texts) : first <= i

LastUsage ==
  \/ usage = Never /\ At(Usages) = {}
  \/ usage \in At(Usages) /\ \A i \in At(Usages) : usage >= i

\* A result is made once, of what had been read by then.
ResultMade ==
  /\ at \notin {"returned"} => result = NoResult
  /\ result \in {NoResult, ErrorResult, Completed}

ClientInv == TypeOK /\ Streaming /\ CountsText /\ FirstText /\ LastUsage /\ ResultMade
-----------------------------------------------------------------------------
LEMMA AppendAt ==
  ASSUME NEW line, NEW kinds, sent \in Seq(Lines \cup {"body"}), line \in Lines \cup {"body"},
         sent' = Append(sent, line)
  PROVE  At(kinds)' = IF line \in kinds THEN At(kinds) \cup {Len(sent) + 1} ELSE At(kinds)
  BY DEF At

LEMMA AtBounds ==
  ASSUME NEW kinds, sent \in Seq(Lines \cup {"body"})
  PROVE  /\ Len(sent) \in Nat
         /\ \A i \in At(kinds) : i \in Nat /\ i < Len(sent) + 1
         /\ Len(sent) + 1 \notin At(kinds)
  BY DEF At

LEMMA LeastIsMin ==
  ASSUME NEW S \in SUBSET Int, NEW x \in S, \A y \in S : x <= y PROVE Min(S) = x
  <1>1. \E m \in S : \A y \in S : m <= y
    OBVIOUS
  <1>2. Min(S) \in S /\ \A y \in S : Min(S) <= y
    BY <1>1, Zenon DEF Min
  <1>3. PICK m \in Int : m = Min(S) /\ m <= x /\ x <= m
    BY <1>2
  <1>4. x \in Int /\ m = x
    BY <1>3
  <1> QED BY <1>3, <1>4

LEMMA GreatestIsMax ==
  ASSUME NEW S \in SUBSET Int, NEW x \in S, \A y \in S : x >= y PROVE Max(S) = x
  <1>1. \E m \in S : \A y \in S : m >= y
    OBVIOUS
  <1>2. Max(S) \in S /\ \A y \in S : Max(S) >= y
    BY <1>1, Zenon DEF Max
  <1>3. PICK m \in Int : m = Max(S) /\ m >= x /\ x >= m
    BY <1>2
  <1>4. x \in Int /\ m = x
    BY <1>3
  <1> QED BY <1>3, <1>4

\* A text line read is counted, and stamped if it is the first.
LEMMA ReadLineCounts ==
  ASSUME ClientInv, NEW line \in Lines \cup {"body"}, ReadLine(line)
  PROVE  CountsText' /\ FirstText' /\ LastUsage'
  <1>1. /\ sent' = Append(sent, line) /\ line \in Lines \ {"alien"}
        /\ sent \in Seq(Lines \cup {"body"}) /\ parts \in Nat
        /\ at = "stream"
    BY DEF ReadLine, ClientInv, TypeOK, Streaming
  <1>2. line # "body"
    BY <1>1 DEF Lines, Noise, Texts, Usages
  <1> DEFINE new == Len(sent) + 1
  <1>3. CountsText'
    <2> DEFINE K == Texts \cup {"body"}
    <2>1. IsFiniteSet(At(K)) /\ parts = Cardinality(At(K))
      BY DEF ClientInv, CountsText
    <2>2. parts' = parts + (IF line \in Texts THEN 1 ELSE 0)
      BY DEF ReadLine
    <2>3. CASE line \in Texts
      <3>1. At(K)' = At(K) \cup {new} /\ new \notin At(K)
        BY <1>1, <2>3, AppendAt, AtBounds
      <3>2. IsFiniteSet(At(K) \cup {new}) /\ Cardinality(At(K) \cup {new}) = Cardinality(At(K)) + 1
        BY <2>1, <3>1, FS_AddElement
      <3> QED BY <2>1, <2>2, <2>3, <3>1, <3>2 DEF CountsText
    <2>4. CASE line \notin Texts
      <3>1. At(K)' = At(K)
        BY <1>1, <1>2, <2>4, AppendAt
      <3> QED BY <1>1, <2>1, <2>2, <2>4, <3>1 DEF CountsText
    <2> QED BY <2>3, <2>4
  <1>4. FirstText'
    <2>1. /\ first' = IF line \in Texts /\ first = Never THEN new ELSE first
          /\ At(Texts)' = IF line \in Texts THEN At(Texts) \cup {new} ELSE At(Texts)
          /\ \A i \in At(Texts) : i \in Nat /\ i < new
          /\ new \in Nat
      BY <1>1, AppendAt, AtBounds DEF ReadLine, Stamp
    <2>2. CASE first = Never
      <3>1. At(Texts) = {}
        BY <1>1, <2>1, <2>2, ClientAssumption DEF ClientInv, FirstText
      <3> QED BY <2>1, <2>2, <3>1 DEF FirstText
    <2>3. CASE first # Never
      BY <2>1, <2>3 DEF ClientInv, FirstText
    <2> QED BY <2>2, <2>3
  <1>5. LastUsage'
    <2>1. /\ usage' = IF line \in Usages THEN new ELSE usage
          /\ At(Usages)' = IF line \in Usages THEN At(Usages) \cup {new} ELSE At(Usages)
          /\ \A i \in At(Usages) : i \in Nat /\ i < new
          /\ new \in Nat
      BY <1>1, AppendAt, AtBounds DEF ReadLine
    <2> QED BY <2>1 DEF ClientInv, LastUsage
  <1> QED BY <1>3, <1>4, <1>5

LEMMA ReadLineStep ==
  ASSUME ClientInv, NEW line \in Lines \cup {"body"}, ReadLine(line) PROVE ClientInv'
  <1>1. TypeOK'
    BY DEF ClientInv, TypeOK, ReadLine, Stamp, Stamps
  <1>2. Streaming' /\ ResultMade'
    BY DEF ClientInv, Streaming, ResultMade, ReadLine, Completed, ErrorResult, NoResult
  <1> QED BY <1>1, <1>2, ReadLineCounts DEF ClientInv

\* Every other step leaves the stream as it is, or reads a line of no text.
LEMMA QuietStep ==
  ASSUME ClientInv, UNCHANGED <<sent, parts, first, usage>>
  PROVE  CountsText' /\ FirstText' /\ LastUsage'
  BY DEF ClientInv, CountsText, FirstText, LastUsage, At

LEMMA StepInv == ClientInv /\ [Next]_vars => ClientInv'
  <1> SUFFICES ASSUME ClientInv, [Next]_vars PROVE ClientInv'
    OBVIOUS
  <1> USE DEF ClientInv
  <1>1. CASE BuildPayload
    <2>1. TypeOK' /\ Streaming'
      BY <1>1, ClientAssumption DEF BuildPayload, TypeOK, Streaming
    <2>2. ResultMade'
      BY <1>1 DEF BuildPayload, ResultMade, Completed, ErrorResult, NoResult
    <2> QED BY <1>1, <2>1, <2>2, QuietStep DEF BuildPayload
  <1>2. CASE PostFails \/ ErrorStatus \/ StreamBreaks
    <2>1. Return(ErrorResult) /\ at # "build"
      BY <1>2 DEF PostFails, ErrorStatus, StreamBreaks
    <2>2. TypeOK' /\ Streaming' /\ ResultMade'
      BY <2>1 DEF Return, TypeOK, Streaming, ResultMade, ErrorResult, Stamps
    <2> QED BY <2>1, <2>2, QuietStep DEF Return
  <1>3. CASE StreamEnds
    <2>1. Return(Completed) /\ at # "build"
      BY <1>3 DEF StreamEnds
    <2>2. TypeOK' /\ Streaming' /\ ResultMade'
      BY <2>1 DEF Return, TypeOK, Streaming, ResultMade, Completed, Stamps
    <2> QED BY <2>1, <2>2, QuietStep DEF Return
  <1>4. CASE PostAnswered \/ ErrorBodyRaises
    <2>1. /\ at # "build" /\ at # "returned"
          /\ at' \in {"error_body", "stream", "raised"}
          /\ UNCHANGED <<payload, sent, parts, first, usage, result>>
      BY <1>4 DEF PostAnswered, ErrorBodyRaises, Raise
    <2>2. TypeOK' /\ Streaming' /\ ResultMade'
      BY <2>1 DEF TypeOK, Streaming, ResultMade
    <2> QED BY <2>1, <2>2, QuietStep
  <1>5. CASE \E line \in Lines \cup {"body"} : ReadLine(line)
    BY <1>5, ReadLineStep
  <1>6. CASE ReadAlien
    <2>1. /\ at' = "returned" /\ result' = ErrorResult /\ sent' = Append(sent, "alien")
          /\ UNCHANGED <<payload, parts, first, usage>> /\ payload.stream
          /\ sent \in Seq(Lines \cup {"body"}) /\ "alien" \in Lines
      BY <1>6 DEF ReadAlien, TypeOK, Lines
    <2>2. TypeOK' /\ Streaming' /\ ResultMade'
      BY <2>1 DEF TypeOK, Streaming, ResultMade, ErrorResult, Stamps
    <2>3. /\ At(Texts \cup {"body"})' = At(Texts \cup {"body"})
          /\ At(Texts)' = At(Texts) /\ At(Usages)' = At(Usages)
      BY <2>1, AppendAt DEF Texts, Usages
    <2>4. CountsText' /\ FirstText' /\ LastUsage'
      BY <2>1, <2>3 DEF CountsText, FirstText, LastUsage
    <2> QED BY <2>2, <2>4
  <1>7. CASE UNCHANGED vars
    <2>1. TypeOK' /\ Streaming' /\ ResultMade'
      BY <1>7 DEF vars, TypeOK, Streaming, ResultMade, Completed, ErrorResult, NoResult
    <2> QED BY <1>7, <2>1, QuietStep DEF vars
  <1> QED BY <1>1, <1>2, <1>3, <1>4, <1>5, <1>6, <1>7 DEF Next

THEOREM ClientInvariant == Spec => []ClientInv
  <1>1. Init => ClientInv
    <2> SUFFICES ASSUME Init PROVE ClientInv
      OBVIOUS
    <2>1. TypeOK
      BY DEF Init, TypeOK, NoResult, Stamps
    <2>2. \A kinds : At(kinds) = {}
      BY DEF Init, At
    <2>3. CountsText /\ FirstText /\ LastUsage
      BY <2>2, FS_EmptySet DEF Init, CountsText, FirstText, LastUsage
    <2> QED BY <2>1, <2>3 DEF Init, ClientInv, Streaming, ResultMade
  <1> QED BY <1>1, StepInv, PTL DEF Spec

(* complete() keeps its types, however long the stream.                    *)
THEOREM ClientTypeCorrect == Spec => []TypeOK
  <1>1. ClientInv => TypeOK
    BY DEF ClientInv
  <1> QED BY <1>1, ClientInvariant, PTL

(* A completed result has all the text streamed, the time of the first     *)
(* text and the last usage; a failed one has none of them.                 *)
THEOREM ResultIsStream == Spec => []ResultReflectsStream
  <1>1. ClientInv => ResultReflectsStream
    <2> SUFFICES ASSUME ClientInv PROVE ResultReflectsStream
      OBVIOUS
    <2>1. sent \in Seq(Lines \cup {"body"})
      BY DEF ClientInv, TypeOK
    <2>2. At(Texts) \subseteq Nat /\ At(Usages) \subseteq Nat
      BY <2>1, AtBounds
    <2>3. first = IF At(Texts) = {} THEN Never ELSE Min(At(Texts))
      BY <2>2, LeastIsMin DEF ClientInv, FirstText
    <2>4. usage = IF At(Usages) = {} THEN Never ELSE Max(At(Usages))
      BY <2>2, GreatestIsMax DEF ClientInv, LastUsage
    <2>5. result \in {NoResult, ErrorResult, Completed} /\ parts = Cardinality(At(Texts \cup {"body"}))
      BY DEF ClientInv, ResultMade, CountsText
    <2>6. result.status = "completed" => result = Completed
      BY <2>5 DEF NoResult, ErrorResult
    <2>7. result.status = "failed" => [result EXCEPT !.status = "none"] = NoResult
      BY <2>5 DEF NoResult, ErrorResult, Completed
    <2> QED BY <2>3, <2>4, <2>5, <2>6, <2>7 DEF ResultReflectsStream, Completed
  <1> QED BY <1>1, ClientInvariant, PTL
=============================================================================
