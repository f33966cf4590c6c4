------------------------------ MODULE MCServices ------------------------------
(***************************************************************************)
(* The services above the socket for TLC.  They share no state and call    *)
(* each other only through promises, so each is explored by itself: a      *)
(* behaviour picks one, and the others stay in their initial states.       *)
(***************************************************************************)
EXTENDS SocketClient, ModelSync, Upload, GenAIProxy, TLC

CONSTANTS c1, c2

VARIABLE service

serviceVars == <<clientVars, syncVars, tickerVars, uploadVars, proxyVars>>

\* Two clients with prefixes of their own.
TwoPrefixes == [c \in {c1, c2} |-> c]

\* A text with a system instruction, and a prompt with an image.
TwoPrompts ==
    {[contents |-> "text", system |-> TRUE, modality |-> FALSE, model |-> "gemini"],
     [contents |-> "image", system |-> FALSE, modality |-> FALSE, model |-> "gemini"]}

\* A storage that has the object already, takes it, or refuses the signature.
ThreeAnswers ==
    {[status |-> 200, code |-> ""], [status |-> 412, code |-> ""],
     [status |-> 403, code |-> "AccessDenied"]}

Init ==
    /\ service \in {"client", "sync", "upload", "proxy"}
    /\ ClientInit /\ SyncInit /\ TickerInit /\ UploadInit /\ ProxyInit
    /\ service # "sync" => pull = Idle

Next ==
    /\ UNCHANGED service
    /\ \/ /\ service = "client" /\ ClientNext
          /\ UNCHANGED <<syncVars, tickerVars, uploadVars, proxyVars>>
       \/ /\ service = "sync" /\ SyncNext
          /\ UNCHANGED <<clientVars, uploadVars, proxyVars>>
       \/ /\ service = "upload" /\ UploadNext
          /\ UNCHANGED <<clientVars, syncVars, tickerVars, proxyVars>>
       \/ /\ service = "proxy" /\ ProxyNext
          /\ UNCHANGED <<clientVars, syncVars, tickerVars, uploadVars>>

\* In their initial states the other services have nothing to be fair about.
Spec == Init /\ [][Next]_<<service, serviceVars>> /\ SyncFairness

\* The state of every service is of its type.
ServicesTypeOK ==
    ClientTypeOK /\ SyncTypeOK /\ TickerTypeOK /\ UploadTypeOK /\ ProxyTypeOK
=============================================================================
