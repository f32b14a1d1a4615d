------------------------- MODULE HttpGetJson_proof -------------------------
(***************************************************************************)
(* For every timeout, limit, and whatever the target sends: the wait for   *)
(* the headers is bounded, each GET is aborted by its own timer only, and  *)
(* nothing of a body is dropped silently.                                  *)
(***************************************************************************)
EXTENDS HttpGetJson, TLAPS

(* The slice of a text is a text, no longer than the limit.                *)
LEMMA CutBounded ==
    ASSUME NEW text \in Texts
    PROVE  /\ Len(Cut(text)) \in 0..MaxChars
           /\ Len(text) > MaxChars <=> Cut(text) # text
<1>1. text \in Seq(Chars) /\ Len(text) \in Nat /\ MaxChars \in Nat
      BY TextsAssumption, LimitsAssumption
<1>2. CASE Len(text) > MaxChars
  <2>1. Cut(text) = SubSeq(text, 1, MaxChars)
        BY <1>2 DEF Cut
  <2>2. Len(SubSeq(text, 1, MaxChars)) = MaxChars
        BY <1>1, <1>2
  <2>3. QED
        BY <1>1, <1>2, <2>1, <2>2
<1>3. CASE ~(Len(text) > MaxChars)
  <2>1. Cut(text) = text
        BY <1>3 DEF Cut
  <2>2. QED
        BY <1>1, <1>3, <2>1
<1>4. QED
      BY <1>2, <1>3

LEMMA NoBytes == 0 \in 0..MaxChars
BY LimitsAssumption

(* Every result is well formed.                                            *)
LEMMA ReadType ==
    ASSUME NEW status \in Statuses, NEW text \in Texts
    PROVE  Read(status, text) \in Result
<1>1. Len(Cut(text)) \in 0..MaxChars
      BY CutBounded
<1>2. Body(Cut(text)) \in [text : {Cut(x) : x \in Texts}, isJson : BOOLEAN]
      BY DEF Body
<1>3. QED
      BY <1>1, <1>2 DEF Read, Result

LEMMA WithoutBodyType ==
    ASSUME NEW status \in Statuses \cup {0},
           NEW error \in {"Redirects not followed", "Request timeout", "connection"}
    PROVE  WithoutBody(status, error) \in Result
<1>1. 0 \in 0..MaxChars
      BY NoBytes
<1>2. Null \in [text : {Cut(text) : text \in Texts}, isJson : BOOLEAN] \cup {Null}
      OBVIOUS
<1>3. error \in {Null, "Redirects not followed", "Request timeout", "connection"}
      OBVIOUS
<1>4. QED
      BY <1>1, <1>2, <1>3 DEF WithoutBody, Result

(* The fields of a result.                                                 *)
LEMMA ErrorReported ==
    ASSUME NEW status, NEW error, NEW r, r = WithoutBody(status, error)
    PROVE  r.error = error
    BY DEF WithoutBody

LEMMA BodyReported ==
    ASSUME NEW status, NEW text, NEW r, r = Read(status, text)
    PROVE  /\ r.truncated <=> Len(text) > MaxChars
           /\ r.body.text = Cut(text)
           /\ r.bytesReturned = Len(Cut(text))
           /\ r.error = Null
    BY DEF Read, Body

-----------------------------------------------------------------------------
LEMMA TypeStep == TypeOK /\ [Next]_vars => TypeOK'
<1> SUFFICES ASSUME TypeOK, [Next]_vars PROVE TypeOK'
    OBVIOUS
<1> USE LimitsAssumption DEF TypeOK
<1>1. CASE UNCHANGED vars
      BY <1>1 DEF vars
<1>2. CASE FetchBegins
  <2>1. ASSUME NEW t \in timers'
        PROVE  t \in [own : BOOLEAN, left : 0..TimeoutMs]
    <3>1. CASE t = [own |-> TRUE, left |-> TimeoutMs]
          BY <3>1
    <3>2. CASE \E u \in timers : t = [own |-> FALSE, left |-> u.left]
          BY <3>2
    <3>3. QED
          BY <1>2, <3>1, <3>2 DEF FetchBegins, LeftOver
  <2>2. QED
        BY <1>2, <2>1 DEF FetchBegins
<1>3. ASSUME NEW status \in Statuses, RedirectArrives(status)
      PROVE  TypeOK'
      BY <1>3, WithoutBodyType DEF RedirectArrives, ClearTimeout, Settles
<1>4. ASSUME NEW status \in Statuses, NEW text \in Texts, HeadersArrive(status, text)
      PROVE  TypeOK'
  <2>1. answer' \in [status : Statuses, text : Texts]
        BY <1>4 DEF HeadersArrive
  <2>2. answer' # Null
        BY <2>1, AnswersAssumption
  <2>3. QED
        BY <1>4, <2>1, <2>2 DEF HeadersArrive, ClearTimeout
<1>5. CASE BodyEnds
  <2>1. answer \in [status : Statuses, text : Texts]
        BY <1>5 DEF BodyEnds
  <2>2. result' \in Result
        BY <1>5, <2>1, ReadType DEF BodyEnds, Settles
  <2>3. QED
        BY <1>5, <2>2 DEF BodyEnds, Settles
<1>6. CASE ConnectionFails
      BY <1>6, WithoutBodyType DEF ConnectionFails, Settles
<1>7. CASE TimerFires
      BY <1>7, WithoutBodyType DEF TimerFires, Settles
<1>8. CASE Tick
  <2>1. ASSUME NEW t \in timers'
        PROVE  t \in [own : BOOLEAN, left : 0..TimeoutMs]
    <3>1. PICK u \in timers : t = [own |-> u.own, left |-> u.left - 1] /\ u.left > 0
          BY <1>8 DEF Tick
    <3>2. QED
          BY <3>1
  <2>2. elapsed' \in 0..TimeoutMs + 1
        BY <1>8 DEF Tick
  <2>3. QED
        BY <1>8, <2>1, <2>2 DEF Tick
<1>9. QED
      BY <1>1, <1>2, <1>3, <1>4, <1>5, <1>6, <1>7, <1>8 DEF Next

(* Status, flags, counters and timers keep their types.                    *)
THEOREM TypeCorrect == Spec => []TypeOK
<1>1. Init => TypeOK
      BY LimitsAssumption DEF Init, TypeOK
<1>2. QED
      BY <1>1, TypeStep, PTL DEF Spec

(* While a GET waits for its headers its own timer is armed, and no other  *)
(* timer counts as its own; once they came it has none.                    *)
OwnTimer ==
    /\ step = "fetching" =>
          /\ \E t \in timers : t.own
          /\ \A t \in timers : t.own => t.left + elapsed = TimeoutMs
    /\ step = "reading" => \A t \in timers : ~t.own

LEMMA OwnTimerStep == TypeOK /\ OwnTimer /\ [Next]_vars => OwnTimer'
<1> SUFFICES ASSUME TypeOK, OwnTimer, [Next]_vars PROVE OwnTimer'
    OBVIOUS
<1> USE LimitsAssumption DEF TypeOK, OwnTimer
<1>1. CASE UNCHANGED vars
      BY <1>1 DEF vars
<1>2. CASE FetchBegins
  <2>1. ASSUME NEW t \in timers', t.own
        PROVE  t = [own |-> TRUE, left |-> TimeoutMs]
        BY <1>2, <2>1 DEF FetchBegins, LeftOver
  <2>2. [own |-> TRUE, left |-> TimeoutMs] \in timers' /\ elapsed' = 0 /\ step' = "fetching"
        BY <1>2 DEF FetchBegins
  <2>3. QED
        BY <2>1, <2>2
<1>3. ASSUME NEW status \in Statuses, RedirectArrives(status)
      PROVE  OwnTimer'
      BY <1>3 DEF RedirectArrives, Settles
<1>4. ASSUME NEW status \in Statuses, NEW text \in Texts, HeadersArrive(status, text)
      PROVE  OwnTimer'
      BY <1>4 DEF HeadersArrive, ClearTimeout
<1>5. CASE BodyEnds \/ ConnectionFails
      BY <1>5 DEF BodyEnds, ConnectionFails, Settles
<1>6. CASE TimerFires
  <2>1. PICK t \in timers :
            /\ t.left = 0
            /\ timers' = timers \ {t}
            /\ IF Aborts(t)
               THEN Settles(WithoutBody(0, "Request timeout"))
               ELSE UNCHANGED <<step, elapsed, answer, result>>
        BY <1>6 DEF TimerFires
  <2>2. CASE t.own /\ step # "idle"
        BY <2>1, <2>2 DEF Aborts, Settles
  <2>3. CASE ~t.own \/ step = "idle"
        BY <2>1, <2>3 DEF Aborts
  <2>4. QED
        BY <2>2, <2>3
<1>7. CASE Tick
  <2>1. step' = step
        BY <1>7 DEF Tick
  <2>2. ASSUME NEW t \in timers'
        PROVE  \E u \in timers : t.own = u.own /\ t.left = u.left - 1
        BY <1>7 DEF Tick
  <2>3. ASSUME NEW u \in timers
        PROVE  /\ \E t \in timers' : t.own = u.own
               /\ u.left \in Nat /\ u.left > 0
    <3>1. [own |-> u.own, left |-> u.left - 1] \in timers'
          BY <1>7 DEF Tick
    <3>2. QED
          BY <1>7, <3>1 DEF Tick
  <2>4. CASE step = "fetching"
    <3>1. elapsed < TimeoutMs
          BY <2>3, <2>4
    <3>2. elapsed' = elapsed + 1
          BY <1>7, <3>1 DEF Tick
    <3>3. \E t \in timers' : t.own
          BY <2>3, <2>4
    <3>4. ASSUME NEW t \in timers', t.own
          PROVE  t.left + elapsed' = TimeoutMs
      <4>1. PICK u \in timers : t.own = u.own /\ t.left = u.left - 1
            BY <2>2
      <4>2. u.left + elapsed = TimeoutMs /\ u.left \in Nat /\ elapsed \in Nat
            BY <2>3, <2>4, <3>4, <4>1
      <4>3. QED
            BY <3>2, <4>1, <4>2
    <3>5. QED
          BY <2>1, <2>4, <3>3, <3>4
  <2>5. CASE step = "reading"
        BY <2>1, <2>2, <2>5
  <2>6. QED
        BY <2>1, <2>4, <2>5
<1>8. QED
      BY <1>1, <1>2, <1>3, <1>4, <1>5, <1>6, <1>7 DEF Next

LEMMA OwnTimerAlways == Spec => []OwnTimer
<1>1. Init => OwnTimer
      BY DEF Init, OwnTimer
<1>2. QED
      BY <1>1, OwnTimerStep, TypeCorrect, PTL DEF Spec

(* README.md:324, "Timeout | 30 seconds": the timer that is armed with the *)
(* GET bounds the wait for the headers, for every timeout.                 *)
THEOREM HeadersAlwaysInTime == Spec => []HeadersInTime
<1>1. TypeOK /\ OwnTimer => HeadersInTime
  <2> SUFFICES ASSUME TypeOK, OwnTimer, step = "fetching" PROVE elapsed <= TimeoutMs
      BY DEF HeadersInTime
  <2>1. PICK t \in timers : t.own
        BY DEF OwnTimer
  <2>2. t.left \in Nat /\ t.left + elapsed = TimeoutMs /\ elapsed \in Nat
        BY <2>1, LimitsAssumption DEF TypeOK, OwnTimer
  <2>3. QED
        BY <2>2, LimitsAssumption
<1>2. QED
      BY <1>1, TypeCorrect, OwnTimerAlways, PTL

(* The timer an earlier GET left armed (http-get-json.ts:39 clears it only *)
(* when fetch() resolves) never aborts a later one.                        *)
THEOREM TimeoutsNeverEarly == Spec => TimeoutNotEarly
<1>1. ASSUME TypeOK, OwnTimer, [Next]_vars, step # "idle", step' = "idle",
             result'.error = "Request timeout"
      PROVE  elapsed >= TimeoutMs
  <2>1. CASE TimerFires
    <3>1. PICK t \in timers : t.left = 0 /\ (Aborts(t) \/ UNCHANGED step)
          BY <2>1 DEF TimerFires
    <3>2. t.own /\ step = "fetching"
          BY <1>1, <3>1 DEF Aborts, OwnTimer, TypeOK
    <3>3. elapsed \in 0..TimeoutMs + 1
          BY <1>1, Zenon DEF TypeOK
    <3>4. t.left + elapsed = TimeoutMs
          BY <1>1, <3>2 DEF OwnTimer
    <3>5. QED
          BY <3>1, <3>3, <3>4, LimitsAssumption
  <2>2. ASSUME NEW status \in Statuses, RedirectArrives(status)
        PROVE  FALSE
        BY <1>1, <2>2, ErrorReported DEF RedirectArrives, Settles
  <2>3. CASE BodyEnds
        BY <1>1, <2>3, BodyReported, AnswersAssumption DEF BodyEnds, Settles
  <2>4. CASE ConnectionFails
        BY <1>1, <2>4, ErrorReported DEF ConnectionFails, Settles
  <2>5. ASSUME \/ UNCHANGED vars \/ FetchBegins \/ Tick
               \/ \E status \in Statuses, text \in Texts : HeadersArrive(status, text)
        PROVE  FALSE
        BY <1>1, <2>5 DEF vars, FetchBegins, Tick, HeadersArrive
  <2>6. QED
        BY <1>1, <2>1, <2>2, <2>3, <2>4, <2>5 DEF Next
<1>2. TypeOK /\ OwnTimer /\ [Next]_vars =>
          [step # "idle" /\ step' = "idle" /\ result'.error = "Request timeout"
              => elapsed >= TimeoutMs]_vars
      BY <1>1
<1>3. QED
      BY <1>2, TypeCorrect, OwnTimerAlways, PTL DEF Spec, TimeoutNotEarly

(* For every limit and every text: what is cut is marked, what is marked   *)
(* is cut, and the count is that of the characters returned.               *)
THEOREM NothingEverCutSilently == Spec => NothingCutSilently
<1>1. ASSUME TypeOK, [Next]_vars, step = "reading", step' = "idle", result'.error = Null
      PROVE  /\ result'.truncated <=> result'.body.text # answer.text
             /\ result'.bytesReturned = Len(result'.body.text)
             /\ result'.bytesReturned <= MaxChars
  <2>1. BodyEnds
    <3>1. Null # "connection" /\ Null # "Request timeout"
          BY AnswersAssumption
    <3>2. ~ConnectionFails
          BY <1>1, <3>1, ErrorReported DEF ConnectionFails, Settles
    <3>3. ~TimerFires
          BY <1>1, <3>1, ErrorReported DEF TimerFires, Settles
    <3>4. QED
          BY <1>1, <3>2, <3>3 DEF Next, vars, FetchBegins, RedirectArrives, HeadersArrive, Tick
  <2>2. QED
    <3>1. result' = Read(answer.status, answer.text)
          BY <2>1 DEF BodyEnds, Settles
    <3>2. answer.text \in Texts
          BY <1>1 DEF TypeOK
    <3>3. /\ result'.truncated <=> Len(answer.text) > MaxChars
          /\ result'.body.text = Cut(answer.text)
          /\ result'.bytesReturned = Len(Cut(answer.text))
          BY <3>1, BodyReported
    <3>4. /\ Len(Cut(answer.text)) \in 0..MaxChars
          /\ Len(answer.text) > MaxChars <=> Cut(answer.text) # answer.text
          BY <3>2, CutBounded
    <3>5. QED
          BY <3>3, <3>4, LimitsAssumption
<1>2. TypeOK /\ [Next]_vars =>
          [step = "reading" /\ step' = "idle" /\ result'.error = Null =>
              /\ result'.truncated <=> result'.body.text # answer.text
              /\ result'.bytesReturned = Len(result'.body.text)
              /\ result'.bytesReturned <= MaxChars]_vars
      BY <1>1
<1>3. QED
      BY <1>2, TypeCorrect, PTL DEF Spec, NothingCutSilently
=============================================================================
