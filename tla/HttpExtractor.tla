--------------------------- MODULE HttpExtractor ---------------------------
(***************************************************************************)
(* HttpExtractor: the loop over the attempts to fetch a file, and the      *)
(* promise of each attempt, which the callbacks of request and response    *)
(* settle.  The callbacks of an attempt are still called when its promise  *)
(* has been settled, for instance with the body of an error response, and  *)
(* the loop has gone on.                                                   *)
(*                                                                         *)
(* A step is one callback, with what the loop does until it awaits again.  *)
(* The HTTP client and the server are external.  A body is a list of       *)
(* chunks, each named by the attempt whose response it belongs to.         *)
(***************************************************************************)
EXTENDS Integers, Sequences

CONSTANTS
    MaxRetries,   \* bound of the property retries
    Backoffs,     \* values of retryBackoffMilliseconds, in seconds
    MaxTimeout,   \* the longest timeout setTimeout takes, in seconds
    Codes,        \* status codes of responses
    UNDEFINED,    \* in place of a status code
    MaxChunks     \* bound of the length of a body

ASSUME HttpAssumption ==
    /\ MaxRetries \in Nat
    /\ Backoffs \subseteq Nat \ {0}
    /\ MaxTimeout \in Nat
    /\ Codes \subseteq Nat
    /\ UNDEFINED \notin Nat
    /\ MaxChunks \in Nat

Attempts == 0..MaxRetries

VARIABLES
    retries, backoff, strategy,  \* the properties of the block
    attempt,   \* the loop's variable
    phase,     \* "fetching", "waiting" or "done"
    request,   \* of each attempt: "none", "sent", "receiving" or "over"
    code,      \* of each attempt: the status code
    body,      \* of each attempt: how many chunks the server sends
    rawData,   \* of each attempt: the chunks stored
    settled,   \* of each attempt: what its promise is resolved with
    result,    \* of doExecute
    waits      \* history: how long it waited before each retry

vars == <<retries, backoff, strategy, attempt, phase, request, code, body,
          rawData, settled, result, waits>>

properties == <<retries, backoff, strategy>>

Pending == [kind |-> "pending", file |-> << >>]
Err     == [kind |-> "err",     file |-> << >>]
Thrown  == [kind |-> "thrown",  file |-> << >>]
Ok(file) == [kind |-> "ok",     file |-> file]

FirstRequestIsSent ==
    /\ phase = "fetching"
    /\ request = [a \in Attempts |-> IF a = 0 THEN "sent" ELSE "none"]
    /\ settled = [a \in Attempts |-> Pending]
    /\ result = Pending

(* The client throws instead of sending a request, for instance as the URL *)
(* is none.  That rejects the promise, and with it doExecute.              *)
FirstRequestIsRejected ==
    /\ phase = "done"
    /\ request = [a \in Attempts |-> "none"]
    /\ settled = [a \in Attempts |-> IF a = 0 THEN Thrown ELSE Pending]
    /\ result = Thrown

Init ==
    /\ retries \in Attempts
    /\ backoff \in Backoffs
    /\ strategy \in {"exponential", "linear"}
    /\ attempt = 0
    /\ FirstRequestIsSent \/ FirstRequestIsRejected
    /\ code = [a \in Attempts |-> UNDEFINED]
    /\ body = [a \in Attempts |-> 0]
    /\ rawData = [a \in Attempts |-> << >>]
    /\ waits = << >>

-----------------------------------------------------------------------------
(* The loop *)

(* The backoff strategies.  setTimeout replaces a timeout out of its range  *)
(* by one millisecond.                                                      *)
Backoff(retry) ==
    LET wanted == IF strategy = "exponential" THEN backoff ^ retry ELSE backoff
    IN  IF wanted \in 1..MaxTimeout THEN wanted ELSE 0

(* The loop, from where it has awaited an attempt to its next await. *)
Continue(outcome) ==
    IF outcome.kind = "err" /\ attempt # retries
    THEN /\ phase' = "waiting"
         /\ waits' = Append(waits, Backoff(attempt + 1))
         /\ UNCHANGED result
    ELSE /\ phase' = "done"
         /\ result' = outcome
         /\ UNCHANGED waits

(* Mutant: an error counts even if the promise has been resolved. *)
ResolveErrorsAgain(a, outcome) ==
    IF settled[a] = Pending \/ outcome = Err
    THEN settled' = [settled EXCEPT ![a] = outcome] /\ Continue(outcome)
    ELSE UNCHANGED <<settled, phase, result, waits>>

(* Only the first call of an attempt's resolve has an effect. *)
Resolve(a, outcome) ==
    IF settled[a] = Pending
    THEN settled' = [settled EXCEPT ![a] = outcome] /\ Continue(outcome)
    ELSE UNCHANGED <<settled, phase, result, waits>>

Retry ==
    /\ phase = "waiting"
    /\ attempt' = attempt + 1
    /\ phase' = "fetching"
    /\ request' = [request EXCEPT ![attempt + 1] = "sent"]
    /\ UNCHANGED <<properties, code, body, rawData, settled, result, waits>>

(* The client throws: there is no further retry. *)
RetryIsRejected ==
    /\ phase = "waiting"
    /\ attempt' = attempt + 1
    /\ phase' = "done"
    /\ settled' = [settled EXCEPT ![attempt + 1] = Thrown]
    /\ result' = Thrown
    /\ UNCHANGED <<properties, request, code, body, rawData, waits>>

TimerFires == Retry \/ RetryIsRejected

-----------------------------------------------------------------------------
(* The callbacks of an attempt *)

Refused(status) == status = UNDEFINED \/ status >= 301

(* A refused response resolves the promise, and its body is read all the   *)
(* same.                                                                    *)
Respond(a) ==
    /\ request[a] = "sent"
    /\ request' = [request EXCEPT ![a] = "receiving"]
    /\ \E status \in Codes \cup {UNDEFINED}, length \in 0..MaxChunks :
          /\ code' = [code EXCEPT ![a] = status]
          /\ body' = [body EXCEPT ![a] = length]
          /\ IF Refused(status) THEN Resolve(a, Err)
                                ELSE UNCHANGED <<settled, phase, result, waits>>
    /\ UNCHANGED <<properties, attempt, rawData>>

(* Mutant: one buffer for all attempts. *)
DataIntoSharedBuffer(a) ==
    /\ request[a] = "receiving"
    /\ Len(rawData[a]) < body[a]
    /\ rawData' = [rawData EXCEPT ![attempt] = Append(@, <<a, Len(rawData[a]) + 1>>)]
    /\ UNCHANGED <<properties, attempt, phase, request, code, body, settled, result,
                   waits>>

Data(a) ==
    /\ request[a] = "receiving"
    /\ Len(rawData[a]) < body[a]
    /\ rawData' = [rawData EXCEPT ![a] = Append(@, <<a, Len(@) + 1>>)]
    /\ UNCHANGED <<properties, attempt, phase, request, code, body, settled, result,
                   waits>>

End(a) ==
    /\ request[a] = "receiving"
    /\ Len(rawData[a]) = body[a]
    /\ request' = [request EXCEPT ![a] = "over"]
    /\ Resolve(a, Ok(rawData[a]))
    /\ UNCHANGED <<properties, attempt, code, body, rawData>>

(* Mutant: nobody listens to errors of the response. *)
ResponseErrorIgnored(a) ==
    /\ request[a] = "receiving"
    /\ request' = [request EXCEPT ![a] = "over"]
    /\ UNCHANGED <<properties, attempt, phase, code, body, rawData, settled, result,
                   waits>>

ResponseError(a) ==
    /\ request[a] = "receiving"
    /\ request' = [request EXCEPT ![a] = "over"]
    /\ Resolve(a, Err)
    /\ UNCHANGED <<properties, attempt, code, body, rawData>>

RequestError(a) ==
    /\ request[a] = "sent"
    /\ request' = [request EXCEPT ![a] = "over"]
    /\ Resolve(a, Err)
    /\ UNCHANGED <<properties, attempt, code, body, rawData>>

Callback(a) ==
    Respond(a) \/ Data(a) \/ End(a) \/ ResponseError(a) \/ RequestError(a)

Next == TimerFires \/ \E a \in Attempts : Callback(a)

(* Timers fire.  Every request is answered and every response ends, if only *)
(* with an error: the code has no timeout, this is up to client and server. *)
Spec ==
    /\ Init /\ [][Next]_vars
    /\ WF_vars(TimerFires)
    /\ \A a \in Attempts : WF_vars(Callback(a))

-----------------------------------------------------------------------------
(* Properties *)

Chunk == Attempts \X (Nat \ {0})

(* Every variable has its type. *)
TypeOK ==
    /\ retries \in Attempts
    /\ backoff \in Backoffs
    /\ strategy \in {"exponential", "linear"}
    /\ attempt \in 0..retries
    /\ phase \in {"fetching", "waiting", "done"}
    /\ request \in [Attempts -> {"none", "sent", "receiving", "over"}]
    /\ code \in [Attempts -> Codes \cup {UNDEFINED}]
    /\ body \in [Attempts -> 0..MaxChunks]
    /\ rawData \in [Attempts -> Seq(Chunk)]
    /\ settled \in [Attempts -> [kind : {"pending", "err", "ok", "thrown"}, file : Seq(Chunk)]]
    /\ result \in [kind : {"pending", "err", "ok", "thrown"}, file : Seq(Chunk)]
    /\ waits \in Seq(0..MaxTimeout)

WholeBody(a) == [i \in 1..body[a] |-> <<a, i>>]

(* A file that doExecute returns is the whole body of one response, in its *)
(* order, with no chunk of another attempt's response, and the response's  *)
(* status was not refused.                                                  *)
FileIsTheWholeBody ==
    result.kind = "ok" =>
        /\ result.file = WholeBody(attempt)
        /\ request[attempt] = "over"
        /\ ~Refused(code[attempt])

(* An error is returned only when the first attempt and every retry have    *)
(* failed; that the client throws rejects doExecute and is no such error.   *)
FailsAfterAllRetries ==
    result.kind = "err" => \A a \in 0..retries : settled[a] = Err

(* A file stands for one response and an error for all attempts. *)
ResultIsRight == FileIsTheWholeBody /\ FailsAfterAllRetries

(* When doExecute has returned, callbacks that are still called change     *)
(* nothing of it: neither its result nor whether it is retrying.            *)
ResultIsFinal == [][phase = "done" => UNCHANGED <<result, phase, attempt>>]_vars

(* doExecute returns, or is rejected. *)
Termination == <>(phase = "done")

-----------------------------------------------------------------------------
(* The inductive invariant the proofs use *)

(* The buffer of an attempt holds the first chunks of its response's body. *)
BuffersArePrefixes ==
    \A a \in Attempts :
        /\ Len(rawData[a]) <= body[a]
        /\ \A i \in 1..Len(rawData[a]) : rawData[a][i] = <<a, i>>
        /\ request[a] \in {"none", "sent"} => rawData[a] = << >>

(* Which attempts are settled, and how: exactly the current one may not be, *)
(* and only while it is fetched and its response is not refused.            *)
LoopAwaitsItsAttempt ==
    /\ \A a \in 0..(attempt - 1) : settled[a] = Err
    /\ \A a \in Attempts : a > attempt => request[a] = "none" /\ settled[a] = Pending
    /\ settled[attempt] = Pending <=> phase = "fetching"
    /\ phase = "waiting" => settled[attempt] = Err /\ attempt < retries
    /\ phase = "done" => result = settled[attempt] /\ result.kind # "pending"
    /\ phase # "done" => result = Pending
    /\ result.kind = "err" => result = Err /\ attempt = retries
    /\ request[attempt] = "receiving" /\ phase = "fetching" => ~Refused(code[attempt])

=============================================================================
