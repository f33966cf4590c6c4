------------------------------ MODULE GenAIProxy ------------------------------
(***************************************************************************)
(* HttpAbstractGenAI (src/src/genai/proxy.ts) whose answers arrive over a  *)
(* JSONProxyTransportReceiver (src/src/genai/transport.ts), against the    *)
(* controller of src/src/genai/mocks.ts.                                   *)
(*                                                                         *)
(* The HTTP call triggers a generation; its answer is a payload that comes *)
(* over the socket at any moment, before or after the HTTP response, and   *)
(* names nobody.  The receiver has one pending wait; its promise is        *)
(* handed out only when the HTTP call has returned.                        *)
(***************************************************************************)
EXTENDS Naturals, FiniteSets

CONSTANTS
    Calls,      \* number of generateContent() calls
    Asked       \* the parameters they are made with

\* generateContent() parameters, told apart by what the conversions look at.
Params == [contents : {"text", "parts", "image"}, system : BOOLEAN,
           modality : BOOLEAN, model : {"gemini", "imagen"}]

ASSUME ProxyAssumption == Calls \in Nat /\ Asked \subseteq Params

\* asAgentGenerateBody(): a text is the prompt, anything else is wrapped; the
\* system instruction moves out of the config; any image makes it an image.
IsImageRequest(p) == p.modality \/ p.contents = "image" \/ p.model = "imagen"
AsBody(p) == [prompt |-> p.contents, system |-> p.system, config |-> p.modality,
              image |-> IsImageRequest(p), model |-> p.model]

\* asDumpedGenerateRequest(): the body echoed, the system back in the config.
Dumped(b) == [contents |-> b.prompt, system |-> b.system, modality |-> b.config,
              model |-> b.model, isImage |-> b.image]

\* asGenerateContentResponse(): the text of the output is the candidate's.
AsResponse(d) == [text |-> d, candidate |-> d]

VARIABLES
    calls,      \* calls made; call c passes the c-th parameters
    asked,      \* the parameters of each call
    http,       \* "none", "running", "done" or "failed" per call
    waiting,    \* the call of the pending wait, 0 for none
    wait,       \* what settled the inner promise of a call: [how, by, data]
    returned,   \* calls generateContent() has settled
    payloads,   \* answers on their way: [of, data]
    attached,   \* the receiver listens
    broken      \* history: the calls of whose answer the transport told an error

proxyVars == <<calls, asked, http, waiting, wait, returned, payloads, attached, broken>>

CallIds == 1..Calls
Nothing == [how |-> "none", by |-> 0, data |-> {}]

ProxyInit ==
    /\ calls = 0
    /\ asked = [c \in CallIds |-> {}]
    /\ http = [c \in CallIds |-> "none"]
    /\ waiting = 0
    /\ wait = [c \in CallIds |-> Nothing]
    /\ returned = {}
    /\ payloads = {}
    /\ attached = TRUE
    /\ broken = {}

\* resolve() and reject(): the pending wait is settled, whosever it is, and
\* its timer cleared; by names the call that caused it.
SettlePending(how, by, data) ==
    IF waiting = 0 THEN UNCHANGED <<waiting, wait>>
    ELSE /\ wait' = [wait EXCEPT ![waiting] = [how |-> how, by |-> by, data |-> data]]
         /\ waiting' = 0

\* Mutant of GenerateContent: a second wait takes the place of the first.
GenerateContentOverwriting(p) ==
    /\ calls < Calls
    /\ calls' = calls + 1
    /\ asked' = [asked EXCEPT ![calls + 1] = {p}]
    /\ waiting' = calls + 1
    /\ http' = [http EXCEPT ![calls + 1] = "running"]
    /\ UNCHANGED <<wait, returned, payloads, attached, broken>>

\* wait(): refused while one is pending, else a new one, and the HTTP call.
GenerateContent(p) ==
    /\ calls < Calls
    /\ calls' = calls + 1
    /\ asked' = [asked EXCEPT ![calls + 1] = {p}]
    /\ IF waiting # 0
       THEN /\ wait' = [wait EXCEPT ![calls + 1] =
                           [how |-> "refused", by |-> calls + 1, data |-> {}]]
            /\ returned' = returned \cup {calls + 1}
            /\ UNCHANGED <<http, waiting>>
       ELSE /\ waiting' = calls + 1
            /\ http' = [http EXCEPT ![calls + 1] = "running"]
            /\ UNCHANGED <<wait, returned>>
    /\ UNCHANGED <<payloads, attached, broken>>

\* doPostGenerate(): the payload is sent over the transport, whatever becomes
\* of the HTTP response; validate() of the receiver may reject it.
ServerSends(c) ==
    /\ http[c] # "none"
    /\ ~\E m \in payloads : m.of = c
    /\ wait[c].by # c \/ wait[c].how # "resolved"
    /\ payloads' = payloads \cup
           {[of |-> c, data |-> {Dumped(AsBody(p)) : p \in asked[c]}]}
    /\ UNCHANGED <<calls, asked, http, waiting, wait, returned, attached, broken>>

\* A payload reaches the pending wait, fails validate(), or finds nobody.
PayloadArrives(m, valid) ==
    /\ m \in payloads
    /\ payloads' = payloads \ {m}
    /\ IF attached /\ valid
       THEN SettlePending("resolved", m.of, {AsResponse(d) : d \in m.data})
       ELSE UNCHANGED <<waiting, wait>>
    /\ UNCHANGED <<calls, asked, http, returned, attached, broken>>

\* The HTTP call returns; when it failed, the pending wait is rejected.
HttpReturns(c, ok) ==
    /\ http[c] = "running"
    /\ http' = [http EXCEPT ![c] = IF ok THEN "done" ELSE "failed"]
    /\ IF ok THEN UNCHANGED <<waiting, wait>> ELSE SettlePending("rejected", c, {})
    /\ UNCHANGED <<calls, asked, returned, payloads, attached, broken>>

\* The transport tells an error of the answer of some call: a bad packet of it,
\* its partial message dropped as too old, or a json:error (also of a sender that
\* never saw the ack of what has arrived).  It rejects the pending wait,
\* whosever it is; the payload may be gone with it.
TransportBreaks(c, gone) ==
    /\ attached
    /\ http[c] # "none"
    /\ broken' = broken \cup {c}
    /\ SettlePending("rejected", c, {})
    /\ payloads' = IF gone THEN {m \in payloads : m.of # c} ELSE payloads
    /\ UNCHANGED <<calls, asked, http, returned, attached>>

\* The timer of the pending wait.
WaitFails ==
    /\ waiting # 0
    /\ SettlePending("rejected", waiting, {})
    /\ UNCHANGED <<calls, asked, http, returned, payloads, attached, broken>>

\* detach(): the pending wait is rejected and nothing is heard any more.
Detach ==
    /\ attached
    /\ attached' = FALSE
    /\ SettlePending("rejected", waiting, {})
    /\ UNCHANGED <<calls, asked, http, returned, payloads, broken>>

\* wait() hands the promise out once the HTTP call has returned.
Returns(c) ==
    /\ http[c] \in {"done", "failed"}
    /\ wait[c].how # "none"
    /\ c \notin returned
    /\ returned' = returned \cup {c}
    /\ UNCHANGED <<calls, asked, http, waiting, wait, payloads, attached, broken>>

ProxyNext ==
    \/ \E p \in Asked : GenerateContent(p)
    \/ \E c \in CallIds : ServerSends(c) \/ Returns(c)
    \/ \E m \in payloads, valid \in BOOLEAN : PayloadArrives(m, valid)
    \/ \E c \in CallIds, ok \in BOOLEAN : HttpReturns(c, ok)
    \/ \E c \in CallIds, gone \in BOOLEAN : TransportBreaks(c, gone)
    \/ WaitFails \/ Detach

ProxySpec == ProxyInit /\ [][ProxyNext]_proxyVars

-----------------------------------------------------------------------------
Responses == {AsResponse(Dumped(AsBody(p))) : p \in Params}

ProxyTypeOK ==
    /\ calls \in 0..Calls
    /\ asked \in [CallIds -> SUBSET Params]
    /\ http \in [CallIds -> {"none", "running", "done", "failed"}]
    /\ waiting \in 0..Calls
    /\ \A c \in CallIds : /\ wait[c].how \in {"none", "resolved", "rejected", "refused"}
                          /\ wait[c].by \in 0..Calls
                          /\ wait[c].data \subseteq Responses
    /\ returned \subseteq CallIds
    /\ attached \in BOOLEAN
    /\ broken \subseteq CallIds

\* Call d was left by its wait while its HTTP call or its payload was still to
\* come: whatever settled the wait, it was not the answer of d.
Abandoned(d) == wait[d].how # "none" /\ ~(wait[d].how = "resolved" /\ wait[d].by = d)

\* The response carries the parameters back as they were passed, the system
\* instruction where it was, and says twice the same.
Echoes(response, p) ==
    /\ response.candidate = response.text
    /\ p = [contents |-> response.text.contents, system |-> response.text.system,
            modality |-> response.text.modality, model |-> response.text.model]

\* A call is settled by its own answer, its own HTTP failure, an error of its
\* own transmission or its own timer, and when answered then with the echo of
\* its own parameters.  What settles it otherwise is left over from an earlier
\* call, in three ways: the payload of one that was given up, the HTTP failure
\* of one that is settled, or a transport error of one, be it answered or not
\* (resolve() and reject() of transport.ts, lines 80-95, and the error listener
\* of line 42 take whichever wait is pending).
AnswersAreOwn ==
    \A c \in CallIds :
        LET w == wait[c]
        IN  \/ w.how = "none"
            \/ /\ w.by = c
               /\ w.how = "resolved" =>
                     \A p \in asked[c] : \E r \in w.data : Echoes(r, p)
            \/ /\ w.by < c
               /\ w.how = "resolved" => Abandoned(w.by)
               /\ w.how = "rejected" => http[w.by] = "failed" \/ w.by \in broken
=============================================================================
