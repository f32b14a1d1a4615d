---------------------------- MODULE HttpGetJson ----------------------------
(***************************************************************************)
(* The GETs an agent makes one after the other                             *)
(* (packages/agent/src/executors/http-get-json.ts): each has an            *)
(* AbortController and a timer of its own, and what the target sends -     *)
(* headers, a body, an error, or nothing - becomes a result.  In Agent.tla *)
(* these are the steps FetchUrl, HeadersArrive, FetchSettles and BodyEnds. *)
(*                                                                         *)
(* The timer is cleared once the headers are there, but not when fetch()   *)
(* rejects: then it fires later, while another GET may be under way.  Only *)
(* the time left until a timer fires matters, so no clock is kept; timers  *)
(* fire when they are due.                                                 *)
(***************************************************************************)
EXTENDS Integers, Sequences

CONSTANTS
    TimeoutMs,    \* HTTP_REQUEST_TIMEOUT_MS
    MaxChars,     \* HTTP_BODY_MAX_CHARS
    Statuses,     \* status codes a target answers with
    Chars,        \* characters of a body
    Texts,        \* bodies a target sends, sequences of characters
    JsonTexts,    \* the texts JSON.parse accepts
    Null

ASSUME LimitsAssumption == TimeoutMs \in Nat \ {0} /\ MaxChars \in Nat

ASSUME TextsAssumption == Texts \subseteq Seq(Chars)

ASSUME AnswersAssumption ==
    /\ Statuses \subseteq Nat
    /\ Null \notin {"Redirects not followed", "Request timeout", "connection"}
    /\ Null \notin [status : Statuses, text : Texts]

VARIABLES
    step,       \* "idle", "fetching" until the headers, "reading" the body
    timers,     \* armed timers: whether of the current GET, and the time left
    elapsed,    \* since the GET began, counted up to TimeoutMs + 1
    answer,     \* status and body the target has begun to send
    result      \* of the last GET that ended

vars == <<step, timers, elapsed, answer, result>>

(* Mutant: the slice is one character too long.                            *)
CutLate(text) == IF Len(text) > MaxChars THEN SubSeq(text, 1, MaxChars + 1) ELSE text

(* Slice and parse: the text that is left, as JSON or as a string.         *)
Cut(text) == IF Len(text) > MaxChars THEN SubSeq(text, 1, MaxChars) ELSE text

Body(text) == [text |-> text, isJson |-> text \in JsonTexts]

(* Mutant: a body of exactly the maximal length is marked.                 *)
ReadAsCut(status, text) ==
    [status |-> status, body |-> Body(Cut(text)), truncated |-> Len(text) >= MaxChars,
     bytesReturned |-> Len(Cut(text)), error |-> Null]

Read(status, text) ==
    [status |-> status, body |-> Body(Cut(text)), truncated |-> Len(text) > MaxChars,
     bytesReturned |-> Len(Cut(text)), error |-> Null]

WithoutBody(status, error) ==
    [status |-> status, body |-> Null, truncated |-> FALSE, bytesReturned |-> 0,
     error |-> error]

IsRedirect(status) == status >= 300 /\ status < 400

-----------------------------------------------------------------------------
Init ==
    /\ step = "idle"
    /\ timers = {}
    /\ elapsed = 0
    /\ answer = Null
    /\ result = Null

(* Mutant: one controller serves all GETs.                                 *)
ControllerReused == {[own |-> TRUE, left |-> t.left] : t \in timers}

(* The timers earlier GETs left armed abort controllers nobody uses.       *)
LeftOver == {[own |-> FALSE, left |-> t.left] : t \in timers}

FetchBegins ==
    /\ step = "idle"
    /\ step' = "fetching"
    /\ timers' = LeftOver \cup {[own |-> TRUE, left |-> TimeoutMs]}
    /\ elapsed' = 0
    /\ answer' = Null
    /\ UNCHANGED result

Settles(r) ==
    /\ step' = "idle"
    /\ result' = r
    /\ answer' = Null
    /\ UNCHANGED elapsed

(* clearTimeout(timeoutId)                                                 *)
ClearTimeout == timers' = {t \in timers : ~t.own}

(* The headers of a redirect: its body is not read.                        *)
RedirectArrives(status) ==
    /\ step = "fetching"
    /\ IsRedirect(status)
    /\ ClearTimeout
    /\ Settles(WithoutBody(status, "Redirects not followed"))

HeadersArrive(status, text) ==
    /\ step = "fetching"
    /\ ~IsRedirect(status)
    /\ ClearTimeout
    /\ step' = "reading"
    /\ answer' = [status |-> status, text |-> text]
    /\ UNCHANGED <<elapsed, result>>

BodyEnds ==
    /\ step = "reading"
    /\ Settles(Read(answer.status, answer.text))
    /\ UNCHANGED timers

(* fetch() or text() rejects for another reason than the timeout.          *)
ConnectionFails ==
    /\ step \in {"fetching", "reading"}
    /\ Settles(WithoutBody(0, "connection"))
    /\ UNCHANGED timers

(* Mutant: the timer rejects nothing.                                      *)
AbortsNothing(t) == FALSE

Aborts(t) == t.own /\ step # "idle"

(* controller.abort(): the pending fetch() or text() rejects.              *)
TimerFires ==
    \E t \in timers :
        /\ t.left = 0
        /\ timers' = timers \ {t}
        /\ IF Aborts(t)
           THEN Settles(WithoutBody(0, "Request timeout"))
           ELSE UNCHANGED <<step, elapsed, answer, result>>

Tick ==
    /\ \A t \in timers : t.left > 0
    /\ timers' = {[own |-> t.own, left |-> t.left - 1] : t \in timers}
    /\ elapsed' = IF elapsed > TimeoutMs THEN elapsed ELSE elapsed + 1
    /\ UNCHANGED <<step, answer, result>>

Next ==
    \/ FetchBegins
    \/ \E status \in Statuses :
         \/ RedirectArrives(status)
         \/ \E text \in Texts : HeadersArrive(status, text)
    \/ BodyEnds
    \/ ConnectionFails
    \/ TimerFires
    \/ Tick

Spec == Init /\ [][Next]_vars

(* Time goes on and due timers fire.  The target owes the agent nothing.   *)
FairSpec == Spec /\ WF_vars(Tick) /\ WF_vars(TimerFires)

-----------------------------------------------------------------------------
Result ==
    [status        : Statuses \cup {0},
     body          : [text : {Cut(text) : text \in Texts}, isJson : BOOLEAN] \cup {Null},
     truncated     : BOOLEAN,
     bytesReturned : 0..MaxChars,
     error         : {Null, "Redirects not followed", "Request timeout", "connection"}]

(* Type invariant.                                                         *)
TypeOK ==
    /\ step \in {"idle", "fetching", "reading"}
    /\ timers \subseteq [own : BOOLEAN, left : 0..TimeoutMs]
    /\ elapsed \in 0..TimeoutMs + 1
    /\ answer \in [status : Statuses, text : Texts] \cup {Null}
    /\ step = "reading" => answer # Null
    /\ result \in Result \cup {Null}

(* README.md:324, "Timeout | 30 seconds": no GET waits for its headers     *)
(* longer than that.                                                       *)
HeadersInTime == step = "fetching" => elapsed <= TimeoutMs

(* A timeout is reported only after the whole time of that very GET: the   *)
(* timer an earlier one left armed aborts none that came after it.         *)
TimeoutNotEarly ==
    [][step # "idle" /\ step' = "idle" /\ result'.error = "Request timeout"
          => elapsed >= TimeoutMs]_vars

(* A result that lacks part of the body says so, and only then; its count  *)
(* is that of the characters it carries.                                   *)
NothingCutSilently ==
    [][step = "reading" /\ step' = "idle" /\ result'.error = Null =>
          /\ result'.truncated <=> result'.body.text # answer.text
          /\ result'.bytesReturned = Len(result'.body.text)
          /\ result'.bytesReturned <= MaxChars]_vars

(* Whatever the target does, fetch() comes to an end, so an agent is not   *)
(* kept by a target that never answers.                                    *)
FetchSettles == step = "fetching" ~> step # "fetching"

-----------------------------------------------------------------------------
(* README.md:324: "Timeout | 30 seconds; returns `error: "Request          *)
(* timeout"`".  The timer is cleared before the body is read               *)
(* (http-get-json.ts:47), so a body that does not end keeps the agent.     *)
FetchWithinTimeout == step # "idle" => elapsed <= TimeoutMs
=============================================================================
