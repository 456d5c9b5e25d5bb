---------------------------- MODULE HttpJourney ----------------------------
(***************************************************************************)
(* The replay of one journey against the published port:                   *)
(* run_http_journey of journey/http_runner.py, with the assertions of      *)
(* journey/verifier.py and the bearer declarations of journey/http_auth.py.*)
(*                                                                         *)
(* A request of a step is answered by anything: a redirect to anywhere, a  *)
(* status, a body cut at the limit, an encoded body, nothing.  The token   *)
(* is named by the step that captured it.                                  *)
(***************************************************************************)
EXTENDS Naturals, Sequences, FiniteSets

CONSTANTS Urls,          \* what a redirect on the origin may lead to
          MaxRedirects   \* _MAX_REDIRECTS

VARIABLES
    journey,   \* its steps
    step,      \* index of the step under way; 0 before the first
    url,       \* the address asked
    visited,   \* the addresses of this step
    token,     \* captured_token: the step it comes from, 0 for none
    answer,    \* the response of the step, or the category of its failure
    files,     \* the evidence files of the steps
    passed,    \* passed_steps
    outcome    \* "none", "pass", "fail", "unsupported" or "raised"

-----------------------------------------------------------------------------
Tools(steps) == {steps[i].tool : i \in DOMAIN steps}
NoAnswer == [kind |-> "none", status |-> "none", body |-> "none", token |-> FALSE]
Failed(category) == [NoAnswer EXCEPT !.kind = category]
Body(status, body, hasToken) ==
    [kind |-> "body", status |-> status, body |-> body, token |-> hasToken]

\* What run_http_journey refuses before it asks for anything: an empty journey,
\* one without assertions, a captured token that nothing asserts, a token used
\* before a step that captures one.
Refused(steps) ==
    \/ \A i \in DOMAIN steps : steps[i].asserts = {}
    \/ \E i \in DOMAIN steps : steps[i].auth = "capture" /\ steps[i].asserts = {}
    \/ \E i \in DOMAIN steps : /\ steps[i].auth = "use"
                               /\ \A j \in 1..(i - 1) : steps[j].auth # "capture"

\* A GET is redirected, unless the step asserts the redirect itself.
Follows(s) == s.method = "GET" /\ "redirect" \notin s.asserts

Hops == Cardinality(visited) - 1

\* The targets of a redirect that are asked next; every other is a failure.
Allowed(target) == Hops < MaxRedirects /\ target \in Urls /\ target \notin visited

\* Mutant of Visiting: the address before is forgotten.
VisitingAfresh(target) == {target}
Visiting(target) == visited \cup {target}

\* Mutant of Captures: a token of any response that satisfies the assertions.
CapturesAny(response) == response.token
\* The token counts in a whole response of a success.
Captures(response) == response.token /\ response.status = "success" /\ response.body = "whole"

\* The assertions on the status, and on the text when `text` is asserted.
Satisfied(s, response, textHolds) ==
    /\ s.asserts \ {"text"} \subseteq {response.status}
    /\ "text" \in s.asserts => textHolds

\* The failure category of a step that was answered.
Category(s, response, textHolds) ==
    IF ~Satisfied(s, response, textHolds) THEN "assertion"
    ELSE IF s.auth = "capture" /\ ~Captures(response) THEN "auth_failure"
    ELSE "none"

-----------------------------------------------------------------------------
NoJourney ==
    /\ journey = <<>> /\ step = 0 /\ url = "none" /\ visited = {} /\ token = 0
    /\ answer = NoAnswer /\ files = <<>> /\ passed = 0 /\ outcome = "none"

\* Browser steps are declined and mixed tools not supported; a refused journey
\* fails, and so does one whose evidence directory cannot be made.
Opens(steps) ==
    /\ journey' = steps /\ token' = 0 /\ files' = <<>> /\ passed' = 0 /\ answer' = NoAnswer
    /\ \/ /\ Tools(steps) # {"http"}
          /\ outcome' = "unsupported" /\ step' = 0 /\ url' = "none" /\ visited' = {}
       \/ /\ Tools(steps) = {"http"}
          /\ outcome' = "fail" /\ step' = 0 /\ url' = "none" /\ visited' = {}
       \/ /\ Tools(steps) = {"http"} /\ ~Refused(steps)
          /\ outcome' = "none" /\ step' = 1 /\ url' = steps[1].url /\ visited' = {steps[1].url}

\* A redirect that is followed; the body of the request is not sent again.
Redirected ==
    /\ outcome = "none" /\ step > 0 /\ answer = NoAnswer /\ Follows(journey[step])
    /\ \E target \in Urls : /\ Allowed(target)
                            /\ url' = target /\ visited' = Visiting(target)
    /\ UNCHANGED <<journey, step, token, answer, files, passed, outcome>>

\* Any other end of the exchange.  A redirect of a step that follows redirects
\* is a failure here: too many, to another origin, malformed or in a circle.
Answered ==
    /\ outcome = "none" /\ step > 0 /\ answer = NoAnswer
    /\ \/ answer' \in {Failed("network_error"), Failed("encoding")}
       \/ Follows(journey[step]) /\ answer' = Failed("redirect")
       \/ \E status \in {"success", "error", "redirect"}, body \in {"whole", "truncated"},
             hasToken \in BOOLEAN :
            /\ status = "redirect" => ~Follows(journey[step])
            /\ answer' = Body(status, body, hasToken)
    /\ UNCHANGED <<journey, step, url, visited, token, files, passed, outcome>>

\* A cancellation ends the journey, and so does what nothing catches: json.loads
\* raises a plain ValueError for a number that is too long.  A timeout of the
\* step is a network error.
Raises ==
    /\ outcome = "none" /\ step > 0
    /\ outcome' = "raised"
    /\ UNCHANGED <<journey, step, url, visited, token, answer, files, passed>>

\* The step is judged and its evidence written, before the token is taken over
\* and the step counted.  open("x") that fails leaves no file or a part of one.
Settled ==
    /\ outcome = "none" /\ step > 0 /\ answer # NoAnswer
    /\ \E textHolds \in BOOLEAN :
         LET s == journey[step]
             category == IF answer.kind = "body" THEN Category(s, answer, textHolds) ELSE answer.kind
             row == [state |-> "whole", failure |-> category, response |-> answer]
         IN \/ /\ files' \in {files, Append(files, [row EXCEPT !.state = "torn"])}
               /\ outcome' = "fail"
               /\ UNCHANGED <<step, url, visited, token, answer, passed>>
            \/ /\ category # "none"
               /\ files' = Append(files, row) /\ outcome' = "fail"
               /\ UNCHANGED <<step, url, visited, token, answer, passed>>
            \/ /\ category = "none"
               /\ files' = Append(files, row) /\ passed' = passed + 1
               /\ token' = IF s.auth = "capture" THEN step ELSE token
               /\ IF step = Len(journey)
                  THEN outcome' = "pass" /\ UNCHANGED <<step, url, visited, answer>>
                  ELSE /\ step' = step + 1 /\ answer' = NoAnswer /\ UNCHANGED outcome
                       /\ url' = journey[step + 1].url /\ visited' = {journey[step + 1].url}
    /\ UNCHANGED journey

JourneyStep == Redirected \/ Answered \/ Raises \/ Settled
=============================================================================
