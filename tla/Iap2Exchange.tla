---------------------------- MODULE Iap2Exchange ----------------------------
(***************************************************************************)
(* What an iAP2 accessory link promises, without buffers, timers or          *)
(* transfers: a link is detected, synchronized and then up; while it is up   *)
(* it takes one request at a time, answers it with a frame that names it,    *)
(* and takes the next one only when the answer is out and, if it was a       *)
(* response, confirmed.  A link that is up may fall silent, and is then      *)
(* silent for good; the device may reset it only while it waits to receive.  *)
(***************************************************************************)
EXTENDS Integers

CONSTANTS
    Msgs,        \* the messages a request may carry
    Answerable,  \* those among them that may get a response
    Seqs         \* sequence numbers

VARIABLES
    phase,       \* "detecting", "synchronizing" or "up"
    stage,       \* "idle", "listening", "answering", "confirming", "silent"
    request,     \* the request being answered: its number and its message
    answer       \* the kind of the answer and the number it names

exchangeVars == <<phase, stage, request, answer>>

NoRequest == [seq |-> -1, msg |-> "none"]
NoAnswer  == [kind |-> "none", names |-> -1]

ExchangeInit ==
    /\ phase = "detecting"
    /\ stage = "idle"
    /\ request = NoRequest
    /\ answer = NoAnswer

\* The device was detected; or, later, it reset a link that was listening.
Synchronize ==
    /\ stage \in {"idle", "listening", "confirming"}
    /\ phase' = "synchronizing"
    /\ stage' = "idle"
    /\ request' = NoRequest
    /\ answer' = NoAnswer

ComeUp ==
    /\ phase = "synchronizing"
    /\ phase' = "up"
    /\ stage' \in {"listening", "silent"}
    /\ UNCHANGED <<request, answer>>

\* A request is taken and its answer chosen; the answer names the request.
Take ==
    /\ stage = "listening"
    /\ stage' = "answering"
    /\ \E s \in Seqs, m \in Msgs, k \in {"ack", "response"} :
          /\ k = "response" => m \in Answerable
          /\ request' = [seq |-> s, msg |-> m]
          /\ answer' = [kind |-> k, names |-> s]
    /\ UNCHANGED phase

Listen ==
    /\ stage' = "listening"
    /\ request' = NoRequest
    /\ answer' = NoAnswer
    /\ UNCHANGED phase

\* An acknowledgement needs no confirmation.
Acknowledge == stage = "answering" /\ answer.kind = "ack" /\ Listen

\* The response is out; the request stays open until it is confirmed.
Respond ==
    /\ stage = "answering"
    /\ answer.kind = "response"
    /\ stage' = "confirming"
    /\ UNCHANGED <<phase, request, answer>>

Confirm == stage = "confirming" /\ Listen

FallSilent ==
    /\ phase = "up"
    /\ stage' = "silent"
    /\ request' = NoRequest
    /\ answer' = NoAnswer
    /\ UNCHANGED phase

ExchangeNext ==
    \/ Synchronize \/ ComeUp \/ Take \/ Acknowledge \/ Respond \/ Confirm
    \/ FallSilent

ExchangeSpec == ExchangeInit /\ [][ExchangeNext]_exchangeVars
=============================================================================
