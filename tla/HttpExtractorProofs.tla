------------------------ MODULE HttpExtractorProofs ------------------------
(***************************************************************************)
(* Proofs about HttpExtractor, for any number of retries, any bodies and    *)
(* any order of the callbacks: type correctness, that a file returned is   *)
(* the whole body of one accepted response, that an error comes after all  *)
(* retries, and that late callbacks change nothing.                        *)
(***************************************************************************)
EXTENDS HttpExtractor, SequenceTheorems, TLAPS

Outcome == [kind : {"pending", "err", "ok", "thrown"}, file : Seq(Chunk)]

LEMMA Outcomes ==
    /\ Pending \in Outcome /\ Err \in Outcome /\ Thrown \in Outcome
    /\ Pending # Err /\ Pending # Thrown /\ Err # Thrown
    /\ \A file \in Seq(Chunk) : /\ Ok(file) \in Outcome
                                /\ Ok(file) # Pending
                                /\ Ok(file).file = file
                                /\ Ok(file).kind = "ok"
    /\ Pending.kind = "pending" /\ Err.kind = "err" /\ Thrown.kind = "thrown"
<1>1. << >> \in Seq(Chunk)
  BY EmptySeq
<1> QED
  BY <1>1 DEF Outcome, Pending, Err, Thrown, Ok

LEMMA AttemptsAreNumbers ==
    ASSUME TypeOK
    PROVE  /\ MaxRetries \in Nat
           /\ retries \in Nat /\ retries <= MaxRetries
           /\ attempt \in Nat /\ attempt <= retries /\ attempt \in Attempts
           /\ phase = "waiting" /\ attempt < retries => attempt + 1 \in Attempts
BY HttpAssumption DEF TypeOK, Attempts

-----------------------------------------------------------------------------
(* Types *)

LEMMA TypeInit == Init => TypeOK
<1> SUFFICES ASSUME Init PROVE TypeOK
  OBVIOUS
<1>1. /\ 0 \in Attempts
      /\ 0 \in 0..retries
      /\ 0 \in 0..MaxChunks
  BY HttpAssumption DEF Init, Attempts
<1>2. << >> \in Seq(Chunk) /\ << >> \in Seq(0..MaxTimeout)
  BY EmptySeq
<1> QED
  <2>1. CASE FirstRequestIsSent
    BY <1>1, <1>2, <2>1, Outcomes DEF Init, FirstRequestIsSent, TypeOK, Outcome
  <2>2. CASE FirstRequestIsRejected
    BY <1>1, <1>2, <2>2, Outcomes DEF Init, FirstRequestIsRejected, TypeOK, Outcome
  <2> QED
    BY <2>1, <2>2 DEF Init

LEMMA BackoffType == \A retry : Backoff(retry) \in 0..MaxTimeout
BY HttpAssumption DEF Backoff

LEMMA ContinueType ==
    ASSUME TypeOK, NEW outcome \in Outcome, Continue(outcome)
    PROVE  /\ phase' \in {"fetching", "waiting", "done"}
           /\ result' \in Outcome
           /\ waits' \in Seq(0..MaxTimeout)
<1>1. Append(waits, Backoff(attempt + 1)) \in Seq(0..MaxTimeout)
  BY BackoffType, AppendProperties DEF TypeOK
<1> QED
  BY <1>1 DEF TypeOK, Continue, Outcome

LEMMA ResolveType ==
    ASSUME TypeOK, NEW a \in Attempts, NEW outcome \in Outcome, Resolve(a, outcome)
    PROVE  /\ phase' \in {"fetching", "waiting", "done"}
           /\ result' \in Outcome
           /\ waits' \in Seq(0..MaxTimeout)
           /\ settled' \in [Attempts -> Outcome]
<1>1. CASE settled[a] = Pending
  BY <1>1, ContinueType DEF Resolve, TypeOK, Outcome
<1>2. CASE settled[a] # Pending
  BY <1>2 DEF Resolve, TypeOK, Outcome
<1> QED
  BY <1>1, <1>2

(* Only Retry changes the attempt, and what it needs to know is that there  *)
(* is another one.                                                          *)
LEMMA TypeStep ==
    ASSUME TypeOK, phase = "waiting" => attempt < retries, [Next]_vars
    PROVE  TypeOK'
<1>1. CASE Retry
  <2>1. attempt + 1 \in 0..retries /\ attempt + 1 \in Attempts
    BY <1>1, AttemptsAreNumbers DEF Retry
  <2> QED
    BY <1>1, <2>1 DEF Retry, TypeOK, properties
<1>r. CASE RetryIsRejected
  <2>1. attempt + 1 \in 0..retries
    BY <1>r, AttemptsAreNumbers DEF RetryIsRejected
  <2> QED
    BY <1>r, <2>1, Outcomes DEF RetryIsRejected, TypeOK, Outcome, properties
<1>2. ASSUME NEW a \in Attempts, Respond(a) PROVE TypeOK'
  <2>1. PICK status \in Codes \cup {UNDEFINED}, length \in 0..MaxChunks :
            /\ code' = [code EXCEPT ![a] = status]
            /\ body' = [body EXCEPT ![a] = length]
            /\ IF Refused(status) THEN Resolve(a, Err)
                                  ELSE UNCHANGED <<settled, phase, result, waits>>
    BY <1>2 DEF Respond
  <2>2. /\ phase' \in {"fetching", "waiting", "done"}
        /\ result' \in Outcome
        /\ waits' \in Seq(0..MaxTimeout)
        /\ settled' \in [Attempts -> Outcome]
    <3>1. CASE Refused(status)
      BY <2>1, <3>1, ResolveType, Outcomes
    <3>2. CASE ~Refused(status)
      BY <2>1, <3>2 DEF TypeOK, Outcome
    <3> QED
      BY <3>1, <3>2
  <2> QED
    BY <1>2, <2>1, <2>2 DEF Respond, TypeOK, properties, Outcome
<1>3. ASSUME NEW a \in Attempts, Data(a) PROVE TypeOK'
  <2>1. Len(rawData[a]) + 1 \in Nat \ {0}
    BY <1>3, LenProperties DEF TypeOK
  <2>2. Append(rawData[a], <<a, Len(rawData[a]) + 1>>) \in Seq(Chunk)
    BY <1>3, <2>1, AppendProperties DEF TypeOK, Chunk
  <2> QED
    BY <1>3, <2>2 DEF Data, TypeOK, properties
<1>4. ASSUME NEW a \in Attempts, NEW outcome \in Outcome,
             request' = [request EXCEPT ![a] = "over"],
             Resolve(a, outcome),
             UNCHANGED <<properties, attempt, code, body, rawData>>
      PROVE  TypeOK'
  BY <1>4, ResolveType DEF TypeOK, properties, Outcome
<1>5. ASSUME NEW a \in Attempts, End(a) PROVE TypeOK'
  <2>1. Ok(rawData[a]) \in Outcome
    BY <1>5, Outcomes DEF TypeOK
  <2> QED
    BY <1>4, <1>5, <2>1 DEF End
<1>6. ASSUME NEW a \in Attempts, ResponseError(a) PROVE TypeOK'
  BY <1>4, <1>6, Outcomes DEF ResponseError
<1>7. ASSUME NEW a \in Attempts, RequestError(a) PROVE TypeOK'
  BY <1>4, <1>7, Outcomes DEF RequestError
<1>8. CASE UNCHANGED vars
  BY <1>8 DEF vars, TypeOK
<1> QED
  BY <1>1, <1>r, <1>2, <1>3, <1>5, <1>6, <1>7, <1>8 DEF Next, TimerFires, Callback

-----------------------------------------------------------------------------
(* The loop and the promise it awaits *)

LEMMA LoopInit == Init => LoopAwaitsItsAttempt
<1> SUFFICES ASSUME Init PROVE LoopAwaitsItsAttempt
  OBVIOUS
<1>1. 0 \in Attempts /\ Attempts \subseteq Nat /\ 0..(0 - 1) = {}
  BY HttpAssumption DEF Attempts
<1> QED
  BY <1>1, Outcomes
  DEF Init, FirstRequestIsSent, FirstRequestIsRejected, LoopAwaitsItsAttempt

(* A promise that is still pending when a callback resolves it is the one   *)
(* the loop awaits.                                                         *)
LEMMA PendingIsCurrent ==
    ASSUME TypeOK, LoopAwaitsItsAttempt,
           NEW a \in Attempts, request[a] # "none", settled[a] = Pending
    PROVE  a = attempt /\ phase = "fetching"
<1>1. a \in Nat /\ attempt \in Nat
  BY AttemptsAreNumbers, HttpAssumption DEF Attempts
<1>2. ~(a > attempt)
  BY DEF LoopAwaitsItsAttempt
<1>3. ~(a \in 0..(attempt - 1))
  BY Outcomes DEF LoopAwaitsItsAttempt
<1> QED
  BY <1>1, <1>2, <1>3 DEF LoopAwaitsItsAttempt

(* Resolving keeps the loop's invariant, whoever calls it. *)
LEMMA LoopResolve ==
    ASSUME TypeOK, LoopAwaitsItsAttempt,
           NEW a \in Attempts, request[a] # "none",
           NEW outcome \in Outcome, outcome = Err \/ outcome.kind = "ok",
           Resolve(a, outcome),
           attempt' = attempt, retries' = retries,
           request' \in [Attempts -> {"none", "sent", "receiving", "over"}],
           \A b \in Attempts : b # a => request'[b] = request[b] /\ code'[b] = code[b],
           request'[a] = "receiving" => outcome = Err
    PROVE  LoopAwaitsItsAttempt'
<1>n. attempt \in Nat /\ attempt \in Attempts /\ retries \in Nat /\ attempt <= retries
  BY AttemptsAreNumbers
<1>a. Attempts \subseteq Nat
  BY HttpAssumption DEF Attempts
<1>1. CASE settled[a] = Pending
  <2>1. a = attempt /\ phase = "fetching"
    BY <1>1, PendingIsCurrent
  <2>2. settled' = [settled EXCEPT ![attempt] = outcome] /\ Continue(outcome)
    BY <1>1, <2>1 DEF Resolve
  <2>3. settled'[attempt] = outcome /\ outcome # Pending
    BY <2>2, <1>n, Outcomes DEF TypeOK
  <2>4. \A b \in Attempts : b # attempt => settled'[b] = settled[b]
    BY <2>2 DEF TypeOK
  <2>5. \A b \in 0..(attempt - 1) : b \in Attempts /\ b # attempt
    BY <1>n, HttpAssumption, AttemptsAreNumbers DEF Attempts
  <2>6. \A b \in 0..(attempt - 1) : settled'[b] = Err
    BY <2>4, <2>5 DEF LoopAwaitsItsAttempt
  <2>7. \A b \in Attempts : b > attempt => request'[b] = "none" /\ settled'[b] = Pending
    BY <1>n, <1>a, <2>1, <2>4 DEF LoopAwaitsItsAttempt
  <2>8. CASE outcome.kind = "err" /\ attempt # retries
    <3>1. phase' = "waiting" /\ result' = result /\ result = Pending
      BY <2>1, <2>2, <2>8 DEF Continue, LoopAwaitsItsAttempt
    <3>2. outcome = Err /\ attempt < retries
      BY <2>8, <1>n
    <3> QED
      BY <2>3, <2>6, <2>7, <3>1, <3>2, Outcomes DEF LoopAwaitsItsAttempt
  <2>9. CASE ~(outcome.kind = "err" /\ attempt # retries)
    <3>1. phase' = "done" /\ result' = outcome
      BY <2>2, <2>9 DEF Continue
    <3>2. outcome.kind # "pending"
      BY Outcomes
    <3>3. outcome.kind = "err" => outcome = Err /\ attempt = retries
      BY <2>9
    <3> QED
      BY <2>3, <2>6, <2>7, <3>1, <3>2, <3>3, Outcomes DEF LoopAwaitsItsAttempt
  <2> QED
    BY <2>8, <2>9
<1>2. CASE settled[a] # Pending
  <2>1. UNCHANGED <<settled, phase, result, waits>>
    BY <1>2 DEF Resolve
  <2>2. \A b \in Attempts : b > attempt => request'[b] = "none"
    BY <1>2 DEF LoopAwaitsItsAttempt
  <2>3. a = attempt => phase # "fetching"
    BY <1>2 DEF LoopAwaitsItsAttempt
  <2> QED
    BY <1>n, <2>1, <2>2, <2>3 DEF LoopAwaitsItsAttempt
<1> QED
  BY <1>1, <1>2

LEMMA LoopStep ==
    ASSUME TypeOK, LoopAwaitsItsAttempt, [Next]_vars
    PROVE  LoopAwaitsItsAttempt'
<1>n. attempt \in Nat /\ attempt \in Attempts /\ retries \in Nat /\ attempt <= retries
  BY AttemptsAreNumbers
<1>a. Attempts \subseteq Nat
  BY HttpAssumption DEF Attempts
<1>t. TypeOK'
  BY TypeStep DEF LoopAwaitsItsAttempt
<1>1. CASE Retry
  <2>1. settled[attempt] = Err /\ attempt < retries /\ result = Pending
    BY <1>1 DEF Retry, LoopAwaitsItsAttempt
  <2>2. /\ attempt' = attempt + 1 /\ attempt + 1 \in Attempts
        /\ phase' = "fetching"
        /\ request' = [request EXCEPT ![attempt + 1] = "sent"]
        /\ settled' = settled /\ result' = result
    BY <1>1, <2>1, AttemptsAreNumbers DEF Retry
  <2>3. settled[attempt + 1] = Pending
    BY <1>n, <2>2 DEF LoopAwaitsItsAttempt
  <2>4. \A b \in 0..(attempt' - 1) : settled'[b] = Err
    <3>1. \A b \in 0..attempt : b = attempt \/ b \in 0..(attempt - 1)
      BY <1>n
    <3> QED
      BY <1>n, <2>1, <2>2, <3>1 DEF LoopAwaitsItsAttempt
  <2>5. \A b \in Attempts : b > attempt' => request'[b] = "none" /\ settled'[b] = Pending
    BY <1>n, <1>a, <2>2 DEF LoopAwaitsItsAttempt, TypeOK
  <2>6. request'[attempt'] = "sent"
    BY <2>2 DEF TypeOK
  <2> QED
    BY <2>1, <2>2, <2>3, <2>4, <2>5, <2>6, Outcomes DEF LoopAwaitsItsAttempt
<1>r. CASE RetryIsRejected
  <2>1. settled[attempt] = Err /\ attempt + 1 \in Attempts
    BY <1>r, AttemptsAreNumbers DEF RetryIsRejected, LoopAwaitsItsAttempt
  <2>2. /\ attempt' = attempt + 1 /\ phase' = "done"
        /\ settled' = [settled EXCEPT ![attempt + 1] = Thrown]
        /\ result' = Thrown /\ request' = request
    BY <1>r DEF RetryIsRejected
  <2>3. settled'[attempt'] = Thrown
    BY <2>1, <2>2 DEF TypeOK
  <2>4. \A b \in 0..(attempt' - 1) : settled'[b] = Err
    <3>1. \A b \in 0..attempt : /\ b = attempt \/ b \in 0..(attempt - 1)
                                /\ b \in Attempts /\ b # attempt + 1
      BY <1>n, AttemptsAreNumbers, HttpAssumption DEF Attempts
    <3> QED
      BY <1>n, <2>1, <2>2, <3>1 DEF LoopAwaitsItsAttempt, TypeOK
  <2>5. \A b \in Attempts : b > attempt' => request'[b] = "none" /\ settled'[b] = Pending
    BY <1>n, <1>a, <2>2 DEF LoopAwaitsItsAttempt, TypeOK
  <2>6. request'[attempt'] = "none"
    BY <1>n, <2>1, <2>2 DEF LoopAwaitsItsAttempt
  <2> QED
    BY <2>2, <2>3, <2>4, <2>5, <2>6, Outcomes DEF LoopAwaitsItsAttempt
<1>2. ASSUME NEW a \in Attempts, Respond(a) PROVE LoopAwaitsItsAttempt'
  <2>1. PICK status \in Codes \cup {UNDEFINED}, length \in 0..MaxChunks :
            /\ code' = [code EXCEPT ![a] = status]
            /\ body' = [body EXCEPT ![a] = length]
            /\ IF Refused(status) THEN Resolve(a, Err)
                                  ELSE UNCHANGED <<settled, phase, result, waits>>
    BY <1>2 DEF Respond
  <2>2. /\ request[a] = "sent" /\ request' = [request EXCEPT ![a] = "receiving"]
        /\ attempt' = attempt /\ retries' = retries
    BY <1>2 DEF Respond, properties
  <2>3. \A b \in Attempts : b # a => request'[b] = request[b] /\ code'[b] = code[b]
    BY <2>1, <2>2 DEF TypeOK
  <2>4. CASE Refused(status)
    <3>1. request' \in [Attempts -> {"none", "sent", "receiving", "over"}]
      BY <1>t DEF TypeOK
    <3> QED
      BY <2>1, <2>2, <2>3, <2>4, <3>1, LoopResolve, Outcomes
  <2>5. CASE ~Refused(status)
    <3>1. UNCHANGED <<settled, phase, result>>
      BY <2>1, <2>5
    <3>2. code'[a] = status /\ (Refused(code[a]))' = Refused(status)
      BY <2>1 DEF TypeOK, Refused
    <3>3. a = attempt => ~Refused(code[attempt])'
      BY <2>2, <2>5, <3>2
    <3>4. a # attempt => /\ request'[attempt] = request[attempt]
                         /\ Refused(code[attempt])' = Refused(code[attempt])
      BY <2>2, <2>3, <1>n DEF Refused
    <3>5. \A b \in Attempts : b > attempt => request'[b] = "none"
      BY <2>2, <2>3 DEF LoopAwaitsItsAttempt
    <3> QED
      BY <2>2, <3>1, <3>3, <3>4, <3>5 DEF LoopAwaitsItsAttempt
  <2> QED
    BY <2>4, <2>5
<1>3. ASSUME NEW a \in Attempts, Data(a) PROVE LoopAwaitsItsAttempt'
  BY <1>3 DEF Data, properties, LoopAwaitsItsAttempt, Refused
<1>4. ASSUME NEW a \in Attempts, request[a] # "none",
             NEW outcome \in Outcome, outcome = Err \/ outcome.kind = "ok",
             request' = [request EXCEPT ![a] = "over"],
             Resolve(a, outcome),
             UNCHANGED <<properties, attempt, code>>
      PROVE  LoopAwaitsItsAttempt'
  <2>1. request' \in [Attempts -> {"none", "sent", "receiving", "over"}]
    BY <1>t DEF TypeOK
  <2>2. request'[a] = "over"
    BY <1>4 DEF TypeOK
  <2>3. \A b \in Attempts : b # a => request'[b] = request[b] /\ code'[b] = code[b]
    BY <1>4 DEF TypeOK
  <2> QED
    BY <1>4, <2>1, <2>2, <2>3, LoopResolve DEF properties
<1>5. ASSUME NEW a \in Attempts, End(a) PROVE LoopAwaitsItsAttempt'
  <2>1. rawData[a] \in Seq(Chunk)
    BY DEF TypeOK
  <2> QED
    BY <1>4, <1>5, <2>1, Outcomes DEF End
<1>6. ASSUME NEW a \in Attempts, ResponseError(a) PROVE LoopAwaitsItsAttempt'
  BY <1>4, <1>6, Outcomes DEF ResponseError
<1>7. ASSUME NEW a \in Attempts, RequestError(a) PROVE LoopAwaitsItsAttempt'
  BY <1>4, <1>7, Outcomes DEF RequestError
<1>8. CASE UNCHANGED vars
  BY <1>8 DEF vars, LoopAwaitsItsAttempt, Refused
<1> QED
  BY <1>1, <1>r, <1>2, <1>3, <1>5, <1>6, <1>7, <1>8 DEF Next, TimerFires, Callback

-----------------------------------------------------------------------------
(* The buffers and the file *)

LEMMA BuffersInit == Init => BuffersArePrefixes
BY HttpAssumption DEF Init, FirstRequestIsSent, FirstRequestIsRejected, BuffersArePrefixes

LEMMA BuffersStep ==
    ASSUME TypeOK, LoopAwaitsItsAttempt, BuffersArePrefixes, [Next]_vars
    PROVE  BuffersArePrefixes'
<1>1. CASE Retry
  <2>1. attempt + 1 \in Attempts /\ attempt + 1 > attempt
    BY <1>1, AttemptsAreNumbers DEF Retry, LoopAwaitsItsAttempt
  <2>2. rawData[attempt + 1] = << >>
    BY <2>1 DEF LoopAwaitsItsAttempt, BuffersArePrefixes
  <2> QED
    BY <1>1, <2>2 DEF Retry, BuffersArePrefixes, TypeOK
<1>r. CASE RetryIsRejected
  BY <1>r DEF RetryIsRejected, BuffersArePrefixes
<1>2. ASSUME NEW a \in Attempts, Respond(a) PROVE BuffersArePrefixes'
  <2>1. PICK length \in 0..MaxChunks : body' = [body EXCEPT ![a] = length]
    BY <1>2 DEF Respond
  <2>2. /\ rawData' = rawData
        /\ rawData[a] = << >>
        /\ request' = [request EXCEPT ![a] = "receiving"]
    BY <1>2 DEF Respond, BuffersArePrefixes
  <2>3. Len(rawData'[a]) <= body'[a]
    BY <2>1, <2>2, HttpAssumption DEF TypeOK
  <2> QED
    BY <2>1, <2>2, <2>3 DEF BuffersArePrefixes, TypeOK
<1>3. ASSUME NEW a \in Attempts, Data(a) PROVE BuffersArePrefixes'
  <2> DEFINE n == Len(rawData[a])
             chunk == <<a, n + 1>>
  <2>1. /\ n \in Nat /\ n < body[a] /\ body[a] \in Nat
        /\ rawData[a] \in Seq(Chunk)
        /\ request[a] = "receiving"
    BY <1>3, LenProperties DEF Data, TypeOK
  <2>2. chunk \in Chunk
    BY <2>1 DEF Chunk
  <2>3. rawData' = [rawData EXCEPT ![a] = Append(rawData[a], chunk)]
    BY <1>3 DEF Data
  <2>4. rawData'[a] = Append(rawData[a], chunk)
    BY <2>3 DEF TypeOK
  <2>5. /\ Len(rawData'[a]) = n + 1
        /\ \A i \in 1..n : rawData'[a][i] = rawData[a][i]
        /\ rawData'[a][n + 1] = chunk
    BY <2>1, <2>2, <2>4, AppendProperties
  <2>6. \A i \in 1..(n + 1) : rawData'[a][i] = <<a, i>>
    <3>1. \A i \in 1..(n + 1) : i \in 1..n \/ i = n + 1
      BY <2>1
    <3> QED
      BY <2>5, <3>1 DEF BuffersArePrefixes
  <2>7. \A b \in Attempts : b # a => rawData'[b] = rawData[b]
    BY <2>3 DEF TypeOK
  <2>8. request' = request /\ body' = body
    BY <1>3 DEF Data
  <2> QED
    BY <2>1, <2>5, <2>6, <2>7, <2>8 DEF BuffersArePrefixes
<1>4. ASSUME NEW a \in Attempts, request' = [request EXCEPT ![a] = "over"],
             UNCHANGED <<body, rawData>>
      PROVE  BuffersArePrefixes'
  BY <1>4 DEF BuffersArePrefixes, TypeOK
<1>5. ASSUME NEW a \in Attempts, End(a) \/ ResponseError(a) \/ RequestError(a)
      PROVE  BuffersArePrefixes'
  BY <1>4, <1>5 DEF End, ResponseError, RequestError
<1>6. CASE UNCHANGED vars
  BY <1>6 DEF vars, BuffersArePrefixes
<1> QED
  BY <1>1, <1>r, <1>2, <1>3, <1>5, <1>6 DEF Next, TimerFires, Callback

(* When a response has been received completely, its buffer is its body. *)
LEMMA BufferIsBody ==
    ASSUME TypeOK, BuffersArePrefixes, NEW a \in Attempts, Len(rawData[a]) = body[a]
    PROVE  rawData[a] = WholeBody(a)
<1>1. rawData[a] \in Seq(Chunk) /\ body[a] \in Nat /\ a \in Attempts
  BY HttpAssumption DEF TypeOK
<1>2. \A i \in 1..body[a] : <<a, i>> \in Chunk
  BY <1>1 DEF Chunk
<1>3. WholeBody(a) \in [1..body[a] -> Chunk]
  BY <1>2 DEF WholeBody
<1>4. WholeBody(a) \in Seq(Chunk) /\ Len(WholeBody(a)) = body[a]
  BY <1>1, <1>3, IsASeq, LenProperties
<1>5. \A i \in 1..body[a] : rawData[a][i] = WholeBody(a)[i]
  BY DEF BuffersArePrefixes, WholeBody
<1> QED
  BY <1>1, <1>4, <1>5, SeqEqual

(* Nothing that FileIsTheWholeBody speaks of changes for an attempt whose   *)
(* request is over.                                                         *)
LEMMA FileStep ==
    ASSUME TypeOK, LoopAwaitsItsAttempt, BuffersArePrefixes, FileIsTheWholeBody,
           [Next]_vars
    PROVE  FileIsTheWholeBody'
<1>n. attempt \in Attempts
  BY AttemptsAreNumbers
<1>k. result.kind = "ok" => phase = "done"
  BY Outcomes DEF LoopAwaitsItsAttempt
<1>1. CASE Retry
  BY <1>1, <1>k DEF Retry, FileIsTheWholeBody
<1>r. CASE RetryIsRejected
  BY <1>r, Outcomes DEF RetryIsRejected, FileIsTheWholeBody
<1>2. ASSUME NEW a \in Attempts, Respond(a) PROVE FileIsTheWholeBody'
  <2>1. PICK status \in Codes \cup {UNDEFINED}, length \in 0..MaxChunks :
            /\ code' = [code EXCEPT ![a] = status]
            /\ body' = [body EXCEPT ![a] = length]
            /\ IF Refused(status) THEN Resolve(a, Err)
                                  ELSE UNCHANGED <<settled, phase, result, waits>>
    BY <1>2 DEF Respond
  <2>2. result' = result \/ result' = Err
    BY <2>1 DEF Resolve, Continue
  <2>3. SUFFICES ASSUME result'.kind = "ok" PROVE FileIsTheWholeBody'
    BY DEF FileIsTheWholeBody
  <2>4. result' = result /\ result.kind = "ok"
    BY <2>2, <2>3, Outcomes
  <2>5. request[attempt] = "over" /\ request[a] = "sent" /\ attempt' = attempt
    BY <1>2, <2>4 DEF Respond, FileIsTheWholeBody
  <2>6. a # attempt
    BY <2>5
  <2>7. /\ code'[attempt] = code[attempt]
        /\ body'[attempt] = body[attempt]
        /\ request'[attempt] = request[attempt]
    BY <1>2, <1>n, <2>1, <2>6 DEF Respond, TypeOK
  <2>8. WholeBody(attempt)' = WholeBody(attempt)
    BY <2>5, <2>7 DEF WholeBody
  <2> QED
    BY <2>4, <2>5, <2>7, <2>8 DEF FileIsTheWholeBody, Refused
<1>3. ASSUME NEW a \in Attempts, Data(a) PROVE FileIsTheWholeBody'
  BY <1>3 DEF Data, FileIsTheWholeBody, WholeBody, Refused
<1>4. ASSUME NEW a \in Attempts, request' = [request EXCEPT ![a] = "over"],
             result' = result, UNCHANGED <<attempt, code, body>>
      PROVE  FileIsTheWholeBody'
  <2>1. request[attempt] = "over" => request'[attempt] = "over"
    BY <1>n, <1>4 DEF TypeOK
  <2> QED
    BY <1>4, <2>1 DEF FileIsTheWholeBody, WholeBody, Refused
<1>5. ASSUME NEW a \in Attempts, ResponseError(a) \/ RequestError(a)
      PROVE  FileIsTheWholeBody'
  <2>1. result' = result \/ result' = Err
    BY <1>5 DEF ResponseError, RequestError, Resolve, Continue
  <2>2. CASE result' = result
    BY <1>4, <1>5, <2>2 DEF ResponseError, RequestError
  <2>3. CASE result' = Err
    BY <2>3, Outcomes DEF FileIsTheWholeBody
  <2> QED
    BY <2>1, <2>2, <2>3
<1>6. ASSUME NEW a \in Attempts, End(a) PROVE FileIsTheWholeBody'
  <2>1. CASE settled[a] = Pending
    <3>1. a = attempt /\ phase = "fetching"
      BY <1>6, <2>1, PendingIsCurrent DEF End
    <3>2. ~Refused(code[attempt]) /\ rawData[a] = WholeBody(a)
      BY <1>6, <3>1, BufferIsBody DEF End, LoopAwaitsItsAttempt
    <3>3. Ok(rawData[a]).kind = "ok" /\ Ok(rawData[a]).file = rawData[a]
      BY Outcomes DEF TypeOK
    <3>4. result' = Ok(rawData[a])
      BY <1>6, <2>1, <3>3 DEF End, Resolve, Continue
    <3>5. request'[attempt] = "over" /\ attempt' = attempt /\ code' = code /\ body' = body
      BY <1>6, <3>1 DEF End, TypeOK
    <3> QED
      BY <3>1, <3>2, <3>3, <3>4, <3>5 DEF FileIsTheWholeBody, WholeBody, Refused
  <2>2. CASE settled[a] # Pending
    BY <1>4, <1>6, <2>2 DEF End, Resolve
  <2> QED
    BY <2>1, <2>2
<1>7. CASE UNCHANGED vars
  BY <1>7 DEF vars, FileIsTheWholeBody, WholeBody, Refused
<1> QED
  BY <1>1, <1>r, <1>2, <1>3, <1>5, <1>6, <1>7 DEF Next, TimerFires, Callback

-----------------------------------------------------------------------------
(* The theorems *)

LEMMA HttpInvariant ==
    Spec => [](TypeOK /\ LoopAwaitsItsAttempt /\ BuffersArePrefixes /\ FileIsTheWholeBody)
<1> DEFINE IInv ==
        TypeOK /\ LoopAwaitsItsAttempt /\ BuffersArePrefixes /\ FileIsTheWholeBody
<1>1. Init => IInv
  BY TypeInit, LoopInit, BuffersInit, Outcomes
  DEF Init, FirstRequestIsSent, FirstRequestIsRejected, FileIsTheWholeBody
<1>2. IInv /\ [Next]_vars => IInv'
  <2>1. SUFFICES ASSUME IInv, [Next]_vars PROVE IInv'
    OBVIOUS
  <2>2. phase = "waiting" => attempt < retries
    BY <2>1 DEF LoopAwaitsItsAttempt
  <2> QED
    BY <2>1, <2>2, TypeStep, LoopStep, BuffersStep, FileStep
<1> QED
  BY <1>1, <1>2, PTL DEF Spec

(* The executor's state has its types, for any retries, bodies and codes. *)
THEOREM HttpTypeCorrect == Spec => []TypeOK
<1> QED
  BY HttpInvariant, PTL

(* fetchRawDataAsFile and the loop of doExecute return a file only if it is *)
(* the whole body of one accepted response.                                 *)
THEOREM FileIsTheWholeBodyHolds == Spec => []FileIsTheWholeBody
<1> QED
  BY HttpInvariant, PTL

(* doExecute returns an error only when all its attempts have failed. *)
THEOREM FailsAfterAllRetriesHolds == Spec => []FailsAfterAllRetries
<1>1. TypeOK /\ LoopAwaitsItsAttempt => FailsAfterAllRetries
  <2>1. SUFFICES ASSUME TypeOK, LoopAwaitsItsAttempt, result.kind = "err"
                 PROVE  \A a \in 0..retries : settled[a] = Err
    BY DEF FailsAfterAllRetries
  <2>2. attempt = retries /\ result = Err /\ phase = "done" /\ settled[attempt] = Err
    BY <2>1, Outcomes DEF LoopAwaitsItsAttempt, TypeOK
  <2>3. \A a \in 0..retries : a = attempt \/ a \in 0..(attempt - 1)
    BY <2>1, <2>2, AttemptsAreNumbers
  <2> QED
    BY <2>1, <2>2, <2>3 DEF LoopAwaitsItsAttempt
<1> QED
  BY <1>1, HttpInvariant, PTL

(* What doExecute returns is right: a file is the whole body of one accepted *)
(* response, and an error means that the attempts have all failed.          *)
THEOREM ResultIsRightHolds == Spec => []ResultIsRight
<1>1. FileIsTheWholeBody /\ FailsAfterAllRetries => ResultIsRight
  BY DEF ResultIsRight
<1> QED
  BY <1>1, FileIsTheWholeBodyHolds, FailsAfterAllRetriesHolds, PTL

(* Callbacks that come after doExecute has returned do not change what it   *)
(* has returned, and start no other attempt.                                *)
THEOREM ResultIsFinalHolds == Spec => ResultIsFinal
<1>1. ASSUME TypeOK, LoopAwaitsItsAttempt, [Next]_vars, phase = "done"
      PROVE  UNCHANGED <<result, phase, attempt>>
  <2>1. ASSUME NEW a \in Attempts, request[a] # "none", NEW outcome, Resolve(a, outcome)
        PROVE  UNCHANGED <<result, phase>>
    BY <1>1, <2>1, PendingIsCurrent DEF Resolve
  <2>2. CASE TimerFires
    BY <1>1, <2>2 DEF TimerFires, Retry, RetryIsRejected
  <2>3. ASSUME NEW a \in Attempts, Respond(a) PROVE UNCHANGED <<result, phase, attempt>>
    BY <2>1, <2>3 DEF Respond
  <2>4. ASSUME NEW a \in Attempts, Data(a) PROVE UNCHANGED <<result, phase, attempt>>
    BY <2>4 DEF Data
  <2>5. ASSUME NEW a \in Attempts, End(a) \/ ResponseError(a) \/ RequestError(a)
        PROVE  UNCHANGED <<result, phase, attempt>>
    BY <2>1, <2>5 DEF End, ResponseError, RequestError
  <2>6. CASE UNCHANGED vars
    BY <2>6 DEF vars
  <2> QED
    BY <1>1, <2>2, <2>3, <2>4, <2>5, <2>6 DEF Next, Callback
<1>2. TypeOK /\ LoopAwaitsItsAttempt /\ [Next]_vars
        => [phase = "done" => UNCHANGED <<result, phase, attempt>>]_vars
  BY <1>1
<1> QED
  BY <1>2, HttpInvariant, PTL DEF Spec, ResultIsFinal

=============================================================================
